------------------------- MODULE ConnectorRunsProofs -------------------------
(***************************************************************************)
(* The run queue, for any number of workers, request handlers, runs and    *)
(* attempts, and any lag of a reading of the clock.                        *)
(*                                                                         *)
(* The inductive invariant is IInv of ConnectorRuns: the rows are sound in *)
(* themselves, a process that creates a run holds the rows it has checked, *)
(* and the copy that an executing process keeps of its run is that of the  *)
(* row for as long as the row is still its own (CopiesAreCurrent).  The    *)
(* safety properties follow from it state by state.                        *)
(*                                                                         *)
(* The second part shows that each step, seen through LifeOf, moves each   *)
(* row as RunLifecycle allows or not at all.  The third is about leases:   *)
(* no step but a renewal makes the lease of a running run grow.            *)
(***************************************************************************)
EXTENDS ConnectorRuns, TLAPS

(* Most leaves are first-order reasoning about sets and functions.          *)
USE Zenon

(* The key an unused or deleted identifier carries is a key. *)
LEMMA EmptyRowType ==
    ASSUME NEW status \in Active \cup Finished \cup NoRow
    PROVE  EmptyRow(status) \in Row
<1>1. (CHOOSE s \in Sources : TRUE) \in Sources  BY KeysAssumption
<1>2. (CHOOSE t \in Targets : TRUE) \in Targets  BY KeysAssumption
<1> QED  BY SMT, <1>1, <1>2 DEF EmptyRow, Row

(* Init establishes the inductive invariant. *)
LEMMA InitIInv == Init => IInv
<1> SUFFICES ASSUME Init PROVE IInv  OBVIOUS
<1> USE ProcessesAssumption, RunIdsAssumption DEF Init, Procs
<1>1. TypeOK
  <2>1. runs \in [RunIds -> Row]  BY EmptyRowType DEF NoRow
  <2> QED  BY <2>1 DEF TypeOK
<1>2. ProcessesConsistent  BY DEF ProcessesConsistent, Executing, Creating
<1>3. \A r \in RunIds : /\ runs[r].status = "unused"
                        /\ runs[r].parent = NoRun /\ ~runs[r].cancel
  BY DEF EmptyRow
<1>4. \A p \in Procs : job[p] = NoRun /\ pc[p] \notin Creating
  BY DEF Creating
<1> QED
  BY <1>1, <1>2, <1>3, <1>4
  DEF IInv, RowsSound, CreationIsExclusive, OneActiveRunPerKey, AttemptsBounded, QueuedRunIsClaimable,
      ClaimedRunIsRecoverable, CopiesAreCurrent, RetryRequestsSound,
      RetriesFollowAFinishedRun, NoRowIsBlank, Active, Finished, Creating

-----------------------------------------------------------------------------
(* Steps that leave the rows alone *)

(* No row changes, so what holds of the rows alone still does. *)
LEMMA SameRows ==
    ASSUME RowsSound, UNCHANGED runs
    PROVE  RowsSound'
BY DEF RowsSound, OneActiveRunPerKey, AttemptsBounded, QueuedRunIsClaimable,
       ClaimedRunIsRecoverable, RetriesFollowAFinishedRun, NoRowIsBlank

(* Steps between two statements of an execution leave the database alone. *)
LEMMA GotoIInv ==
    ASSUME IInv, NEW p \in Procs, NEW next \in Executing,
           pc[p] \in Executing, Goto(p, next)
    PROVE  IInv'
<1> USE ProcessesAssumption DEF IInv, Goto
<1>1. TypeOK'  BY DEF TypeOK, Executing, Procs
<1>2. ProcessesConsistent'  BY DEF ProcessesConsistent, TypeOK, Procs, Executing, Creating
<1>3. CreationIsExclusive'  BY DEF CreationIsExclusive, TypeOK, Procs, Executing, HasPending
<1>4. RowsSound'  BY SameRows
<1>5. CopiesAreCurrent'  BY DEF CopiesAreCurrent
<1>6. RetryRequestsSound'  BY DEF RetryRequestsSound, TypeOK, Procs, Executing, Creating
<1> QED  BY <1>1, <1>2, <1>3, <1>4, <1>5, <1>6

(* LoadPayload also records what was loaded. *)
LEMMA LoadPayloadIInv ==
    ASSUME IInv, NEW p \in Procs, LoadPayload(p)
    PROVE  IInv'
<1> USE ProcessesAssumption DEF IInv, LoadPayload
<1>1. TypeOK'  BY ZenonT(30) DEF TypeOK, Procs
<1>2. ProcessesConsistent'  BY DEF ProcessesConsistent, TypeOK, Procs, Executing, Creating
<1>3. CreationIsExclusive'  BY SMT DEF CreationIsExclusive, TypeOK, Procs, Executing, HasPending
<1>4. RowsSound'  BY SameRows
<1>5. CopiesAreCurrent'  BY DEF CopiesAreCurrent
<1>6. RetryRequestsSound'  BY DEF RetryRequestsSound, TypeOK, Procs, Creating
<1> QED  BY <1>1, <1>2, <1>3, <1>4, <1>5, <1>6

(* The end of an execution only forgets the run. *)
LEMMA EndExecutionIInv ==
    ASSUME IInv, NEW p \in Procs, EndExecution(p)
    PROVE  IInv'
<1> USE ProcessesAssumption, RunIdsAssumption DEF IInv, EndExecution
<1>1. TypeOK'
  <2>1. renewing' \in [Workers -> BOOLEAN]  OBVIOUS
  <2>2. pc' \in [Procs -> {"down", "recover", "claim", "idle", "default", "create",
                          "insert", "claimed", "loading", "prepared", "begin",
                          "writing", "txfailed", "settling", "ending"}]
    BY ZenonT(30) DEF TypeOK, Procs
  <2> QED  BY <2>1, <2>2 DEF TypeOK, Procs
<1>2. ProcessesConsistent'
  <2>1. PICK next \in {"claim", "recover", "idle"} :
          /\ pc' = [pc EXCEPT ![p] = next]
          /\ p \in Workers => next # "idle"
          /\ p \in Handlers => next = "idle"
    BY DEF Procs
  <2>2. \A w \in Workers : renewing'[w] => w # p /\ renewing[w]  OBVIOUS
  <2> QED  BY <2>1, <2>2 DEF ProcessesConsistent, TypeOK, Procs, Executing, Creating
<1>3. CreationIsExclusive'  BY SMT DEF CreationIsExclusive, TypeOK, Procs, HasPending
<1>4. RowsSound'  BY SameRows
<1>5. CopiesAreCurrent'  BY DEF CopiesAreCurrent, TypeOK, Procs
<1>6. RetryRequestsSound'
  <2>1. \A h \in Handlers : pc'[h] \in Creating => pc'[h] = pc[h]
    BY DEF TypeOK, Procs, Creating
  <2> QED  BY <2>1 DEF RetryRequestsSound
<1> QED  BY <1>1, <1>2, <1>3, <1>4, <1>5, <1>6

(* So does the death of a worker. *)
LEMMA CrashWorkerIInv ==
    ASSUME IInv, NEW w \in Workers, CrashWorker(w)
    PROVE  IInv'
<1> USE ProcessesAssumption, RunIdsAssumption DEF IInv, CrashWorker
<1>1. TypeOK'  BY DEF TypeOK, Procs
<1>2. ProcessesConsistent'  BY DEF ProcessesConsistent, TypeOK, Procs, Executing, Creating
<1>3. CreationIsExclusive'  BY DEF CreationIsExclusive, TypeOK, Procs, HasPending
<1>4. RowsSound'  BY SameRows
<1>5. CopiesAreCurrent'  BY DEF CopiesAreCurrent, TypeOK, Procs
<1>6. RetryRequestsSound'  BY DEF RetryRequestsSound, TypeOK, Procs, Creating
<1> QED  BY <1>1, <1>2, <1>3, <1>4, <1>5, <1>6

(* The restart of the API process drops every handler and its locks. *)
LEMMA CrashServerIInv ==
    ASSUME IInv, CrashServer
    PROVE  IInv'
<1> USE ProcessesAssumption, RunIdsAssumption DEF IInv, CrashServer
<1>1. TypeOK'  BY DEF TypeOK, Procs, Release
<1>2. ProcessesConsistent'  BY DEF ProcessesConsistent, TypeOK, Procs, Executing, Creating
<1>3. CreationIsExclusive'  BY DEF CreationIsExclusive, TypeOK, Procs
<1>4. RowsSound'  BY SameRows
<1>5. CopiesAreCurrent'  BY DEF CopiesAreCurrent, TypeOK, Procs
<1>6. RetryRequestsSound'  BY DEF RetryRequestsSound, TypeOK, Procs, Creating
<1> QED  BY <1>1, <1>2, <1>3, <1>4, <1>5, <1>6

(* A worker starts its cycle over. *)
LEMMA StartCycleOverIInv ==
    ASSUME IInv, NEW w \in Workers, StartCycleOver(w)
    PROVE  IInv'
<1> USE ProcessesAssumption DEF IInv, StartCycleOver
<1>1. TypeOK'  BY DEF TypeOK, Procs
<1>2. ProcessesConsistent'  BY DEF ProcessesConsistent, TypeOK, Procs, Executing, Creating
<1>3. CreationIsExclusive'  BY DEF CreationIsExclusive, TypeOK, Procs, HasPending
<1>4. RowsSound'  BY SameRows
<1>5. CopiesAreCurrent'  BY DEF CopiesAreCurrent
<1>6. RetryRequestsSound'  BY DEF RetryRequestsSound, TypeOK, Procs, Creating
<1> QED  BY <1>1, <1>2, <1>3, <1>4, <1>5, <1>6

(* The operators' updates of the registry touch no run. *)
LEMMA SetConnectorIInv ==
    ASSUME IInv, NEW s \in Sources, NEW status \in OperatorStatuses, SetConnector(s, status)
    PROVE  IInv'
<1> USE OperatorsAssumption DEF IInv, SetConnector
<1>1. TypeOK'  BY DEF TypeOK
<1>2. ProcessesConsistent' /\ CreationIsExclusive'
  BY DEF ProcessesConsistent, CreationIsExclusive, HasPending
<1>3. RowsSound'  BY SameRows
<1>4. CopiesAreCurrent' /\ RetryRequestsSound'  BY DEF CopiesAreCurrent, RetryRequestsSound
<1> QED  BY <1>1, <1>2, <1>3, <1>4

(* A handler takes a request: a retry's parent is retryable when it reads it. *)
LEMMA AskIInv ==
    ASSUME IInv, NEW h \in Handlers, NEW next \in {"default", "create"}, NEW kind \in Kinds,
           NEW s \in Sources, NEW t \in Targets, NEW parent \in RunIds \cup {NoRun},
           parent # NoRun => runs[parent].status \in Retryable,
           Ask(h, next, kind, s, t, parent)
    PROVE  IInv'
<1> USE ProcessesAssumption DEF IInv, Ask
<1>0. [kind |-> kind, source |-> s, target |-> t, parent |-> parent] \in Request
  BY DEF Request
<1>1. TypeOK'  BY <1>0 DEF TypeOK, Procs
<1>2. ProcessesConsistent'  BY <1>0 DEF ProcessesConsistent, TypeOK, Procs, Executing, Creating
<1>3. CreationIsExclusive'  BY SMT DEF CreationIsExclusive, TypeOK, Procs, HasPending
<1>4. RowsSound'  BY SameRows
<1>5. CopiesAreCurrent'  BY DEF CopiesAreCurrent
<1>6. RetryRequestsSound'  BY DEF RetryRequestsSound, TypeOK, Procs, Creating
<1> QED  BY <1>1, <1>2, <1>3, <1>4, <1>5, <1>6

(* The connector row an inline run needs may be created. *)
LEMMA FindOrCreateDefaultIInv ==
    ASSUME IInv, NEW h \in Handlers, FindOrCreateDefault(h)
    PROVE  IInv'
<1> USE ProcessesAssumption DEF IInv, FindOrCreateDefault
<1>0. request[h] \in Request  BY DEF ProcessesConsistent, Creating
<1>1. TypeOK'  BY <1>0 DEF TypeOK, Procs, Request
<1>2. ProcessesConsistent'  BY DEF ProcessesConsistent, TypeOK, Procs, Executing, Creating
<1>3. CreationIsExclusive'  BY DEF CreationIsExclusive, TypeOK, Procs, HasPending
<1>4. RowsSound'  BY SameRows
<1>5. CopiesAreCurrent'  BY DEF CopiesAreCurrent
<1>6. RetryRequestsSound'  BY DEF RetryRequestsSound, TypeOK, Procs, Creating
<1> QED  BY <1>1, <1>2, <1>3, <1>4, <1>5, <1>6

(* A refused creation ends without a run. *)
LEMMA RefuseIInv ==
    ASSUME IInv, NEW h \in Handlers, pc[h] = "create", Refuse(h)
    PROVE  IInv'
<1> USE ProcessesAssumption DEF IInv, Refuse
<1>1. TypeOK'  BY DEF TypeOK, Procs
<1>2. ProcessesConsistent'  BY DEF ProcessesConsistent, TypeOK, Procs, Executing, Creating
<1>3. CreationIsExclusive'
  <2>1. \A g \in Handlers : pc'[g] = "insert" => pc[g] = "insert" /\ request'[g] = request[g]
    BY DEF TypeOK, Procs
  <2> QED  BY SMT, <2>1 DEF CreationIsExclusive, HasPending
<1>4. RowsSound'  BY SameRows
<1>5. CopiesAreCurrent'  BY DEF CopiesAreCurrent
<1>6. RetryRequestsSound'  BY DEF RetryRequestsSound, TypeOK, Procs, Creating
<1> QED  BY <1>1, <1>2, <1>3, <1>4, <1>5, <1>6

(* So does one that fails; its locks are released. *)
LEMMA CreateErrorIInv ==
    ASSUME IInv, NEW h \in Handlers, CreateError(h)
    PROVE  IInv'
<1> USE ProcessesAssumption DEF IInv, CreateError
<1>1. TypeOK'  BY DEF TypeOK, Procs, Release
<1>2. ProcessesConsistent'  BY DEF ProcessesConsistent, TypeOK, Procs, Executing, Creating
<1>3. CreationIsExclusive'
  BY SMT DEF CreationIsExclusive, ProcessesConsistent, TypeOK, Procs, HasPending, Release,
         Creating, Request
<1>4. RowsSound'  BY SameRows
<1>5. CopiesAreCurrent'  BY DEF CopiesAreCurrent
<1>6. RetryRequestsSound'  BY DEF RetryRequestsSound, TypeOK, Procs, Creating
<1> QED  BY <1>1, <1>2, <1>3, <1>4, <1>5, <1>6

(* The lock is free, and the count under it finds no active run of the key. *)
LEMMA LockAndCountIInv ==
    ASSUME IInv, NEW h \in Handlers, LockAndCount(h)
    PROVE  IInv'
<1> USE ProcessesAssumption DEF IInv
<1> DEFINE q == request[h]
<1>0. pc[h] = "create" /\ ConnectorUnlocked(q.source) /\ q \in Request
  BY DEF LockAndCount, ProcessesConsistent, Creating
<1>a. CASE Refuse(h)  BY <1>0, <1>a, RefuseIInv
<1>b. CASE /\ q.parent # NoRun => runs[q.parent].status \notin NoRow
           /\ ~HasPending(q.source, q.target)
           /\ lock' = [lock EXCEPT ![q.source] = h]
           /\ pc' = [pc EXCEPT ![h] = "insert"]
           /\ UNCHANGED <<runs, connectors, job, attempt, prepared, request, renewing>>
  <2>1. TypeOK'  BY <1>b, <1>0 DEF TypeOK, Procs, Request
  <2>2. ProcessesConsistent'
    BY <1>b, <1>0 DEF ProcessesConsistent, TypeOK, Procs, Executing, Creating
  <2>3. CreationIsExclusive'
    BY SMT, <1>b, <1>0
    DEF CreationIsExclusive, ProcessesConsistent, ConnectorUnlocked, TypeOK, Procs,
        HasPending, Creating, Request
  <2>4. RowsSound'  BY <1>b, SameRows
  <2>5. CopiesAreCurrent'  BY <1>b DEF CopiesAreCurrent
  <2>6. RetryRequestsSound'
    BY <1>b, <1>0 DEF RetryRequestsSound, TypeOK, Procs, Creating, NoRow, Request
  <2> QED  BY <2>1, <2>2, <2>3, <2>4, <2>5, <2>6
<1> QED  BY <1>a, <1>b DEF LockAndCount

-----------------------------------------------------------------------------
(* Steps that move rows *)

(* How every statement but the insert and the delete changes a row: it      *)
(* leaves finished and missing rows alone, makes none of them active, and   *)
(* keeps the key, the parent and the limit.                                 *)
KeepsKey(old, new) ==
    /\ new.source = old.source /\ new.target = old.target
    /\ new.parent = old.parent /\ new.limit = old.limit
    /\ old.status \notin Active => new.status = old.status /\ new.cancel = old.cancel
    /\ old.status \in Active => new.status \in Active \cup Finished

(* Such statements keep what is said of keys, parents and creations under way. *)
LEMMA KeepsKeyLemma ==
    ASSUME IInv, TypeOK', \A r \in RunIds : KeepsKey(runs[r], runs'[r]),
           UNCHANGED <<lock, request>>,
           \A h \in Handlers : pc'[h] \in Creating => pc'[h] = pc[h]
    PROVE  /\ CreationIsExclusive' /\ OneActiveRunPerKey' /\ RetriesFollowAFinishedRun'
           /\ NoRowIsBlank' /\ RetryRequestsSound'
<1> USE DEF IInv, RowsSound, KeepsKey
<1>1. OneActiveRunPerKey'  BY ZenonT(30) DEF OneActiveRunPerKey
<1>2. RetriesFollowAFinishedRun'
  BY SMT DEF RetriesFollowAFinishedRun, TypeOK, Row, Active, Retryable
<1>3. NoRowIsBlank'  BY DEF NoRowIsBlank, NoRow, Active, Finished
<1>4. CreationIsExclusive'  BY SMT DEF CreationIsExclusive, HasPending, Creating
<1>5. RetryRequestsSound'
  <2> SUFFICES ASSUME NEW h \in Handlers, pc'[h] \in Creating, request[h].parent # NoRun
               PROVE  runs'[request[h].parent].status \in
                        Retryable \cup (IF pc'[h] = "insert" THEN {} ELSE {"purged"})
    BY DEF RetryRequestsSound
  <2>1. pc'[h] = pc[h]  OBVIOUS
  <2>2. request[h].parent \in RunIds
    BY <2>1 DEF ProcessesConsistent, Request
  <2> QED  BY <2>1, <2>2 DEF RetryRequestsSound, Active, Retryable
<1> QED  BY <1>1, <1>2, <1>3, <1>4, <1>5

(* What a claim writes. *)
LEMMA ClaimedRowType ==
    ASSUME NEW row \in Row, NEW w \in Workers, NEW lag \in Int
    PROVE  LET new == ClaimedRow(row, w, lag) IN
             /\ new \in Row
             /\ new.status = "running" /\ new.worker = w /\ new.leased
             /\ new.attempts = row.attempts + 1 /\ new.limit = row.limit
             /\ new.cancel = row.cancel /\ new.parent = row.parent
             /\ new.source = row.source /\ new.target = row.target
<1>1. row.attempts + 1 \in Nat  BY SMT DEF Row
<1>2. LeaseSeconds - lag \in Int  BY SMT, PolicyAssumption
<1> QED  BY <1>1, <1>2 DEF ClaimedRow, Row, Active

(* A claim names the worker in the row and counts the attempt in both. *)
LEMMA ClaimNextQueuedIInv ==
    ASSUME IInv, NEW w \in Workers, ClaimNextQueued(w)
    PROVE  IInv'
<1> USE ProcessesAssumption, RunIdsAssumption, PolicyAssumption DEF IInv
<1>1. PICK lag \in Readings, r \in RunIds :
        /\ r \in Claimable(lag)
        /\ runs' = [runs EXCEPT ![r] = ClaimedRow(@, w, lag)]
        /\ job' = [job EXCEPT ![w] = r]
        /\ attempt' = [attempt EXCEPT ![w] = runs[r].attempts + 1]
  BY DEF ClaimNextQueued, Claimable
<1>2. /\ pc[w] = "claim"
      /\ renewing' = [renewing EXCEPT ![w] = TRUE]
      /\ pc' = [pc EXCEPT ![w] = "claimed"]
      /\ UNCHANGED <<connectors, lock, prepared, request>>
  BY DEF ClaimNextQueued
<1>3. /\ runs[r] \in Row /\ runs[r].status = "queued" /\ ~runs[r].cancel
      /\ runs[r].attempts < runs[r].limit
  BY <1>1 DEF Claimable, TypeOK
<1>4. lag \in Int  BY SMT DEF Readings
<1>5. runs'[r] = ClaimedRow(runs[r], w, lag) /\ \A x \in RunIds \ {r} : runs'[x] = runs[x]
  BY <1>1 DEF TypeOK
<1>6. TypeOK'
  <2>1. runs' \in [RunIds -> Row]  BY <1>1, <1>3, <1>4, ClaimedRowType DEF TypeOK
  <2>2. runs[r].attempts + 1 \in Nat  BY SMT, <1>3 DEF Row
  <2> QED  BY <2>1, <2>2, <1>1, <1>2 DEF TypeOK, Procs
<1>7. ProcessesConsistent'
  BY <1>1, <1>2 DEF ProcessesConsistent, TypeOK, Procs, Executing, Creating
<1>8. \A x \in RunIds : KeepsKey(runs[x], runs'[x])
  <2>1. KeepsKey(runs[r], ClaimedRow(runs[r], w, lag))
    BY SMT, <1>3, <1>4, ClaimedRowType DEF KeepsKey, Active
  <2>2. \A x \in RunIds : KeepsKey(runs[x], runs[x])  BY DEF KeepsKey
  <2> QED  BY <2>1, <2>2, <1>5
<1>9. CreationIsExclusive' /\ RowsSound' /\ RetryRequestsSound'
  <2>1. \A h \in Handlers : pc'[h] = pc[h]  BY <1>2 DEF TypeOK, Procs
  <2>2. /\ runs'[r].status = "running" /\ runs'[r].leased
        /\ runs'[r].attempts <= runs'[r].limit
    <3>1. runs[r].attempts \in Nat /\ runs[r].limit \in Nat  BY <1>3 DEF Row
    <3>2. /\ runs'[r].status = "running" /\ runs'[r].leased
          /\ runs'[r].attempts = runs[r].attempts + 1 /\ runs'[r].limit = runs[r].limit
      BY SMT, <1>3, <1>4, <1>5, ClaimedRowType
    <3> QED  BY SMT, <3>1, <3>2, <1>3
  <2>3. AttemptsBounded' /\ QueuedRunIsClaimable' /\ ClaimedRunIsRecoverable'
    BY <2>2, <1>5
    DEF RowsSound, AttemptsBounded, QueuedRunIsClaimable, ClaimedRunIsRecoverable
  <2> QED  BY <2>1, <2>3, <1>2, <1>6, <1>8, KeepsKeyLemma DEF RowsSound
<1>10. CopiesAreCurrent'
  <2>1. \A h \in Handlers : job[h] # r
    BY <1>3 DEF CopiesAreCurrent, Finished
  <2>2. /\ \A h \in Handlers : job'[h] = job[h] /\ attempt'[h] = attempt[h]
        /\ \A v \in Workers \ {w} : job'[v] = job[v] /\ attempt'[v] = attempt[v]
        /\ job'[w] = r /\ attempt'[w] = runs[r].attempts + 1
    BY <1>1 DEF TypeOK, Procs
  <2>3. runs'[r].worker = w /\ runs'[r].attempts = runs[r].attempts + 1
    BY SMT, <1>3, <1>4, <1>5, ClaimedRowType
  <2>4. \A p \in Procs : job[p] \in RunIds \cup {NoRun}  BY DEF TypeOK
  <2>5. \A v \in Workers : /\ job'[v] # NoRun
                           /\ runs'[job'[v]].status = "running"
                           /\ runs'[job'[v]].worker = v
                           => attempt'[v] = runs'[job'[v]].attempts
    <3> SUFFICES ASSUME NEW v \in Workers, v # w, job[v] # NoRun,
                        runs'[job[v]].status = "running", runs'[job[v]].worker = v
                 PROVE  attempt[v] = runs'[job[v]].attempts
      BY <2>2, <2>3
    <3>1. job[v] # r  BY <2>3
    <3> QED  BY <3>1, <2>4, <1>5 DEF CopiesAreCurrent, Procs
  <2>6. \A h \in Handlers : job[h] # NoRun => runs'[job[h]] = runs[job[h]]
    BY <2>1, <2>4, <1>5 DEF Procs
  <2> QED  BY SMT, <2>2, <2>5, <2>6 DEF CopiesAreCurrent
<1> QED  BY <1>6, <1>7, <1>9, <1>10

(* What the invariant says of one row by itself. *)
RowOK(row) ==
    /\ row.status \in Active \cup Finished => row.attempts <= row.limit
    /\ row.status = "queued" => /\ ~row.cancel
                                /\ row.attempts < row.limit
                                /\ row.worker = NoWorker /\ ~row.leased
    /\ row.status = "running" /\ row.worker # NoWorker => row.leased

(* How every statement but the insert, the claim and the delete changes a  *)
(* row: it counts no attempt, hands the run to nobody, and leaves an inline *)
(* run without worker and lease.                                           *)
SteadyMove(old, new) ==
    /\ KeepsKey(old, new)
    /\ RowOK(old) => RowOK(new)
    /\ new.attempts = old.attempts
    /\ new.status = "running" => old.status = "running" /\ new.worker = old.worker
    /\ /\ old.status \in {"running"} \cup Finished
       /\ old.worker = NoWorker /\ ~old.leased
       => /\ new.status \in {"running"} \cup Finished
          /\ new.worker = NoWorker /\ ~new.leased

(* Leaving a row as it is is such a move. *)
LEMMA SameRowMoves ==
    ASSUME NEW row PROVE SteadyMove(row, row)
BY DEF SteadyMove, KeepsKey

(* Such moves preserve the invariant when they are typed and the process   *)
(* that makes them goes where it may.                                      *)
LEMMA SteadyMoveIInv ==
    ASSUME IInv, TypeOK', ProcessesConsistent',
           \A r \in RunIds : SteadyMove(runs[r], runs'[r]),
           UNCHANGED <<lock, request, job, attempt>>,
           \A h \in Handlers : pc'[h] \in Creating => pc'[h] = pc[h]
    PROVE  IInv'
<1> USE DEF IInv
<1>1. \A r \in RunIds : KeepsKey(runs[r], runs'[r])  BY DEF SteadyMove
<1>2. \A r \in RunIds : RowOK(runs[r])
  BY DEF RowsSound, AttemptsBounded, QueuedRunIsClaimable, ClaimedRunIsRecoverable, RowOK
<1>3. \A r \in RunIds : RowOK(runs'[r])  BY <1>2 DEF SteadyMove
<1>4. AttemptsBounded' /\ QueuedRunIsClaimable' /\ ClaimedRunIsRecoverable'
  BY <1>3 DEF AttemptsBounded, QueuedRunIsClaimable, ClaimedRunIsRecoverable, RowOK
<1>5. CreationIsExclusive' /\ RowsSound' /\ RetryRequestsSound'
  BY <1>1, <1>4, KeepsKeyLemma DEF RowsSound
<1>6. CopiesAreCurrent'
  <2>1. \A p \in Procs : job[p] \in RunIds \cup {NoRun}  BY DEF TypeOK
  <2>2. \A w \in Workers : /\ job'[w] # NoRun
                           /\ runs'[job'[w]].status = "running"
                           /\ runs'[job'[w]].worker = w
                           => attempt'[w] = runs'[job'[w]].attempts
    BY <2>1 DEF CopiesAreCurrent, SteadyMove, Procs
  <2>3. ASSUME NEW h \in Handlers, job[h] # NoRun
        PROVE  \/ runs'[job[h]].status = "purged"
               \/ /\ runs'[job[h]].status \in {"running"} \cup Finished
                  /\ runs'[job[h]].worker = NoWorker
                  /\ ~runs'[job[h]].leased
                  /\ attempt[h] = runs'[job[h]].attempts
    <3>1. job[h] \in RunIds  BY <2>1, <2>3 DEF Procs
    <3>2. SteadyMove(runs[job[h]], runs'[job[h]])  BY <3>1
    <3>3. CASE runs[job[h]].status = "purged"
      BY <3>2, <3>3 DEF SteadyMove, KeepsKey, Active
    <3>4. CASE /\ runs[job[h]].status \in {"running"} \cup Finished
               /\ runs[job[h]].worker = NoWorker
               /\ ~runs[job[h]].leased
               /\ attempt[h] = runs[job[h]].attempts
      BY <3>2, <3>4 DEF SteadyMove
    <3> QED  BY <2>3, <3>3, <3>4 DEF CopiesAreCurrent
  <2> QED  BY <2>2, <2>3 DEF CopiesAreCurrent
<1> QED  BY <1>5, <1>6

(* The backoff of any attempt count is a number. *)
LEMMA BackoffType ==
    ASSUME NEW n \in Nat
    PROVE  BoundedRetryBackoff(n, RetryBase, RetryMax) \in Int
<1>1. Exponent(n) \in Nat  BY SMT DEF Exponent, AtLeast, AtMost, MaxExponent
<1>2. 2 ^ Exponent(n) \in Int  BY SMT, <1>1
<1>3. AtLeast(RetryBase, 1) \in Int /\ AtLeast(RetryMax, 1) \in Int
  BY SMT, PolicyAssumption DEF AtLeast
<1>4. I64Max \in Int  BY SMT, I64MaxAssumption
<1> QED  BY SMT, <1>1, <1>2, <1>3, <1>4, PolicyAssumption
         DEF BoundedRetryBackoff, SaturatingMul, AtLeast, AtMost

(* Ending a running row, the way commit, cancellation and recovery do. *)
LEMMA EndedRowMoves ==
    ASSUME NEW row \in Row, row.status = "running", NEW status \in Finished
    PROVE  EndedRow(row, status) \in Row /\ SteadyMove(row, EndedRow(row, status))
<1> DEFINE new == [row EXCEPT !.status = status, !.leased = FALSE, !.lease = 0]
<1>0. /\ status \in Active \cup Finished \cup NoRow
      /\ FALSE \in BOOLEAN /\ 0 \in Int
  BY SMT
<1>1. new \in Row  BY <1>0 DEF Row
<1>2. /\ new.status = status /\ ~new.leased /\ new.worker = row.worker
      /\ new.attempts = row.attempts /\ new.limit = row.limit /\ new.parent = row.parent
      /\ new.source = row.source /\ new.target = row.target
  BY DEF Row
<1> HIDE DEF new
<1>3. SteadyMove(row, new)  BY <1>2 DEF SteadyMove, KeepsKey, RowOK, Active, Finished
<1> QED  BY <1>1, <1>3 DEF EndedRow, new

(* Recovery settles, gives up or requeues a leased running row. *)
LEMMA RecoveredRowMoves ==
    ASSUME NEW row \in Row, NEW lag \in Int, row.status = "running", row.leased
    PROVE  RecoveredRow(row, lag) \in Row /\ SteadyMove(row, RecoveredRow(row, lag))
<1> DEFINE due == BoundedRetryBackoff(row.attempts, RetryBase, RetryMax) - lag
<1>1. due \in Int  BY SMT, BackoffType DEF Row
<1>2. row.attempts \in Nat /\ row.limit \in Nat  BY DEF Row
<1> HIDE DEF due
<1>3. RequeuedRow(row, lag) = [row EXCEPT !.status = "queued", !.worker = NoWorker,
                                          !.leased = FALSE, !.lease = 0, !.due = due]
  BY DEF RequeuedRow, due
<1>4. CASE row.cancel \/ row.attempts >= row.limit
  BY <1>4, EndedRowMoves DEF RecoveredRow, Finished
<1>5. CASE ~row.cancel /\ ~(row.attempts >= row.limit)
  <2> DEFINE new == [row EXCEPT !.status = "queued", !.worker = NoWorker,
                                !.leased = FALSE, !.lease = 0, !.due = due]
  <2>1. row.attempts < row.limit  BY SMT, <1>2, <1>5
  <2>2. new \in Row
    <3>1. /\ "queued" \in Active \cup Finished \cup NoRow
          /\ NoWorker \in Workers \cup {NoWorker} /\ FALSE \in BOOLEAN /\ 0 \in Int
      BY SMT DEF Active
    <3> QED  BY <1>1, <3>1 DEF Row
  <2>3. /\ new.status = "queued" /\ ~new.leased /\ new.worker = NoWorker
        /\ new.cancel = row.cancel
        /\ new.attempts = row.attempts /\ new.limit = row.limit /\ new.parent = row.parent
        /\ new.source = row.source /\ new.target = row.target
    BY DEF Row
  <2> HIDE DEF new
  <2>4. SteadyMove(row, new)
    BY <1>2, <1>5, <2>1, <2>3 DEF SteadyMove, KeepsKey, RowOK, Active, Finished
  <2> QED  BY <1>3, <1>5, <2>2, <2>4 DEF RecoveredRow, new
<1> QED  BY <1>4, <1>5

(* A pass of recovery rewrites the rows of a batch of running, leased runs. *)
LEMMA RecoveryBatch ==
    ASSUME NEW w \in Workers, RecoverExpiredLeases(w)
    PROVE  \E lag \in Readings, batch \in SUBSET RunIds :
             /\ \A r \in batch : runs[r].status = "running" /\ runs[r].leased
             /\ RecoverBatch(batch, lag)
<1>1. PICK lag \in Readings :
        \E skipped \in SUBSET RunIds : \E batch \in Batches(Expired(lag) \ skipped) :
          RecoverBatch(batch, lag)
  BY DEF RecoverExpiredLeases, RecoveryPass
<1>2. PICK batch \in SUBSET Expired(lag) : RecoverBatch(batch, lag)
  BY <1>1 DEF Batches
<1>3. batch \in SUBSET RunIds /\ \A r \in batch : runs[r].status = "running" /\ runs[r].leased
  BY DEF Expired, LeaseExpired
<1> QED  BY <1>2, <1>3

(* It moves those rows the way RecoveredRowMoves says. *)
LEMMA RecoverExpiredLeasesIInv ==
    ASSUME IInv, NEW w \in Workers, RecoverExpiredLeases(w)
    PROVE  IInv'
<1> USE ProcessesAssumption DEF IInv
<1>1. PICK lag \in Readings, batch \in SUBSET RunIds :
        /\ \A r \in batch : runs[r].status = "running" /\ runs[r].leased
        /\ RecoverBatch(batch, lag)
  BY RecoveryBatch
<1>2. /\ pc[w] = "recover" /\ pc' = [pc EXCEPT ![w] = "claim"]
      /\ UNCHANGED <<lock, job, attempt, prepared, request, renewing>>
  BY DEF RecoverExpiredLeases, RecoveryPass
<1>3. lag \in Int  BY SMT, PolicyAssumption DEF Readings
<1>4. \A r \in RunIds : runs'[r] \in Row /\ SteadyMove(runs[r], runs'[r])
  BY <1>1, <1>3, RecoveredRowMoves, SameRowMoves DEF TypeOK, RecoverBatch
<1>5. TypeOK'
  <2>1. runs' \in [RunIds -> Row]  BY <1>1, <1>4 DEF RecoverBatch
  <2>2. connectors' \in [Sources -> {"absent", "active", "paused", "error"}]
    BY <1>1 DEF TypeOK, RecoverBatch
  <2> QED  BY <1>2, <2>1, <2>2 DEF TypeOK, Procs
<1>6. ProcessesConsistent'
  BY <1>2 DEF ProcessesConsistent, TypeOK, Procs, Executing, Creating
<1>7. \A h \in Handlers : pc'[h] = pc[h]  BY <1>2 DEF TypeOK, Procs
<1> QED  BY <1>2, <1>4, <1>5, <1>6, <1>7, SteadyMoveIInv

(* Moving the lease of a leased row *)
LEMMA RenewedRowMoves ==
    ASSUME NEW row \in Row, NEW lease \in Int
    PROVE  LET new == [row EXCEPT !.lease = lease]
           IN  new \in Row /\ SteadyMove(row, new)
<1> DEFINE new == [row EXCEPT !.lease = lease]
<1>1. new \in Row  BY DEF Row
<1>2. /\ new.status = row.status /\ new.leased = row.leased /\ new.worker = row.worker
      /\ new.cancel = row.cancel
      /\ new.attempts = row.attempts /\ new.limit = row.limit /\ new.parent = row.parent
      /\ new.source = row.source /\ new.target = row.target
  BY DEF Row
<1> HIDE DEF new
<1>3. row.status \in Active \cup Finished \cup NoRow  BY DEF Row
<1>4. SteadyMove(row, new)
  BY <1>2, <1>3 DEF SteadyMove, KeepsKey, RowOK, Active, Finished, NoRow
<1> QED  BY <1>1, <1>4 DEF new

(* The renewal task moves the lease of its own run, or stops. *)
LEMMA RenewLeaseIInv ==
    ASSUME IInv, NEW w \in Workers, RenewLease(w) \/ RenewalGivesUp(w)
    PROVE  IInv'
<1> USE ProcessesAssumption DEF IInv
<1>1. /\ renewing[w] /\ UNCHANGED <<connectors, lock, pc, job, attempt, prepared, request>>
  BY DEF RenewLease, RenewalGivesUp
<1>2. job[w] \in RunIds  BY <1>1 DEF ProcessesConsistent, TypeOK, Procs
<1>3. \/ UNCHANGED runs /\ renewing' = [renewing EXCEPT ![w] = FALSE]
      \/ /\ UNCHANGED renewing
         /\ \E lag \in Readings : runs' = [runs EXCEPT ![job[w]].lease = LeaseSeconds - lag]
  BY DEF RenewLease, RenewalGivesUp
<1>4. runs' \in [RunIds -> Row] /\ \A r \in RunIds : SteadyMove(runs[r], runs'[r])
  <2>1. CASE UNCHANGED runs  BY <2>1, SameRowMoves DEF TypeOK
  <2>2. ASSUME NEW lag \in Readings,
               runs' = [runs EXCEPT ![job[w]].lease = LeaseSeconds - lag]
        PROVE  runs' \in [RunIds -> Row] /\ \A r \in RunIds : SteadyMove(runs[r], runs'[r])
    <3>1. LeaseSeconds - lag \in Int  BY SMT, PolicyAssumption DEF Readings
    <3>2. runs' = [runs EXCEPT ![job[w]] = [@ EXCEPT !.lease = LeaseSeconds - lag]]
      BY <2>2
    <3> QED  BY <1>2, <3>1, <3>2, RenewedRowMoves, SameRowMoves DEF TypeOK
  <2> QED  BY <1>3, <2>1, <2>2
<1>5. renewing' \in [Workers -> BOOLEAN] /\ \A v \in Workers : renewing'[v] => renewing[v]
  BY <1>3 DEF TypeOK
<1>6. TypeOK'  BY <1>1, <1>4, <1>5 DEF TypeOK
<1>7. ProcessesConsistent'  BY <1>1, <1>5 DEF ProcessesConsistent
<1> QED  BY <1>1, <1>4, <1>6, <1>7, SteadyMoveIInv

(* The commit ends the run of the process that commits. *)
LEMMA CommitExecutionIInv ==
    ASSUME IInv, NEW p \in Procs, CommitExecution(p)
    PROVE  IInv'
<1> USE ProcessesAssumption DEF IInv
<1> DEFINE r == job[p]
<1>1. PICK lag \in Readings, status \in Outcomes(p) :
        /\ FinalizeMatches(r, p, lag)
        /\ runs' = [runs EXCEPT ![r] = EndedRow(@, status)]
        /\ connectors' = [connectors EXCEPT ![runs[r].source] = TouchedStatus(status)]
  BY DEF CommitExecution
<1>2. /\ pc[p] = "writing" /\ pc' = [pc EXCEPT ![p] = "ending"]
      /\ UNCHANGED <<lock, job, attempt, prepared, request, renewing>>
  BY DEF CommitExecution
<1>3. r \in RunIds /\ runs[r].status = "running"
  BY <1>1, <1>2 DEF ProcessesConsistent, TypeOK, Executing, FinalizeMatches
<1>4. status \in Finished  BY SMT DEF Outcomes, RunStatus, Finished
<1>5. runs' \in [RunIds -> Row] /\ \A x \in RunIds : SteadyMove(runs[x], runs'[x])
  <2> HIDE DEF r
  <2> QED  BY <1>1, <1>3, <1>4, EndedRowMoves, SameRowMoves DEF TypeOK
<1>6. TypeOK'
  <2>1. connectors' \in [Sources -> {"absent", "active", "paused", "error"}]
    BY <1>1, <1>3 DEF TypeOK, TouchedStatus, Row
  <2> QED  BY <1>2, <1>5, <2>1 DEF TypeOK, Procs
<1>7. ProcessesConsistent'
  BY <1>2 DEF ProcessesConsistent, TypeOK, Procs, Executing, Creating
<1>8. \A h \in Handlers : pc'[h] \in Creating => pc'[h] = pc[h]
  BY <1>2 DEF TypeOK, Procs, Creating
<1> QED  BY <1>2, <1>5, <1>6, <1>7, <1>8, SteadyMoveIInv

(* Settling a cancellation ends the run if the process still owns it. *)
LEMMA SettleCancelledIInv ==
    ASSUME IInv, NEW p \in Procs, SettleCancelled(p)
    PROVE  IInv'
<1> USE ProcessesAssumption DEF IInv
<1>1. /\ pc[p] = "settling" /\ pc' = [pc EXCEPT ![p] = "ending"]
      /\ UNCHANGED <<connectors, lock, job, attempt, prepared, request, renewing>>
      /\ runs' = [r \in RunIds |-> IF r = job[p] /\ CancelMatches(r, p)
                                   THEN EndedRow(runs[r], "cancelled") ELSE runs[r]]
  BY DEF SettleCancelled
<1>2. runs' \in [RunIds -> Row] /\ \A r \in RunIds : SteadyMove(runs[r], runs'[r])
  <2>1. "cancelled" \in Finished  BY DEF Finished
  <2>2. \A r \in RunIds : CancelMatches(r, p) => runs[r].status = "running"
    BY DEF CancelMatches
  <2>3. ASSUME NEW r \in RunIds
        PROVE  runs'[r] \in Row /\ SteadyMove(runs[r], runs'[r])
    BY <1>1, <2>1, <2>2, EndedRowMoves, SameRowMoves DEF TypeOK
  <2> QED  BY <1>1, <2>3
<1>3. TypeOK'  BY <1>1, <1>2 DEF TypeOK, Procs
<1>4. ProcessesConsistent'
  BY <1>1 DEF ProcessesConsistent, TypeOK, Procs, Executing, Creating
<1>5. \A h \in Handlers : pc'[h] \in Creating => pc'[h] = pc[h]
  BY <1>1 DEF TypeOK, Procs, Creating
<1> QED  BY <1>1, <1>2, <1>3, <1>4, <1>5, SteadyMoveIInv

(* A cancel request ends a queued row and marks a running one. *)
LEMMA CancelRequestMoves ==
    ASSUME NEW row \in Row, row.status \in Active
    PROVE  CancelRequested(row) \in Row /\ SteadyMove(row, CancelRequested(row))
<1> DEFINE status == IF row.status = "queued" THEN "cancelled" ELSE row.status
           new == [row EXCEPT !.cancel = TRUE, !.status = status]
<1>1. status \in Active \cup Finished \cup NoRow /\ TRUE \in BOOLEAN
  BY DEF Active, Finished
<1>2. new \in Row  BY <1>1 DEF Row
<1>3. /\ new.status = status /\ new.leased = row.leased /\ new.worker = row.worker
      /\ new.attempts = row.attempts /\ new.limit = row.limit /\ new.parent = row.parent
      /\ new.source = row.source /\ new.target = row.target
  BY DEF Row
<1> HIDE DEF new
<1>4. SteadyMove(row, new)  BY <1>3 DEF SteadyMove, KeepsKey, RowOK, Active, Finished
<1> QED  BY <1>2, <1>4 DEF CancelRequested, new

(* request_cancel moves one row that way, and no process. *)
LEMMA RequestCancelIInv ==
    ASSUME IInv, NEW r \in RunIds, RequestCancel(r)
    PROVE  IInv'
<1> USE DEF IInv
<1>1. /\ runs[r].status \in Active
      /\ runs' = [runs EXCEPT ![r] = CancelRequested(@)]
      /\ UNCHANGED <<connectors, lock, pc, job, attempt, prepared, request, renewing>>
  BY DEF RequestCancel
<1>2. runs' \in [RunIds -> Row] /\ \A x \in RunIds : SteadyMove(runs[x], runs'[x])
  BY <1>1, CancelRequestMoves, SameRowMoves DEF TypeOK
<1>3. TypeOK'  BY <1>1, <1>2 DEF TypeOK
<1>4. ProcessesConsistent'  BY <1>1 DEF ProcessesConsistent
<1> QED  BY <1>1, <1>2, <1>3, <1>4, SteadyMoveIInv

(* Time moves the countdowns of a row and nothing else. *)
LEMMA ElapsedMoves ==
    ASSUME NEW row \in Row
    PROVE  Elapsed(row) \in Row /\ SteadyMove(row, Elapsed(row))
<1> DEFINE due == IF row.status = "queued" THEN Lowered(row.due) ELSE row.due
           lease == IF row.leased THEN Lowered(row.lease) ELSE row.lease
           new == [row EXCEPT !.due = due, !.lease = lease]
<1>1. due \in Int /\ lease \in Int
  <2>1. row.due \in Int /\ row.lease \in Int  BY DEF Row
  <2>2. \A n \in Int : Lowered(n) \in Int  BY SMT, PolicyAssumption DEF Lowered
  <2> QED  BY <2>1, <2>2
<1>2. Elapsed(row) = new  BY DEF Elapsed
<1> HIDE DEF due, lease
<1>3. new \in Row  BY <1>1 DEF Row
<1>4. /\ new.status = row.status /\ new.leased = row.leased /\ new.worker = row.worker
      /\ new.cancel = row.cancel
      /\ new.attempts = row.attempts /\ new.limit = row.limit /\ new.parent = row.parent
      /\ new.source = row.source /\ new.target = row.target
  BY DEF Row
<1> HIDE DEF new
<1>5. row.status \in Active \cup Finished \cup NoRow  BY DEF Row
<1>6. SteadyMove(row, new)
  BY <1>4, <1>5 DEF SteadyMove, KeepsKey, RowOK, Active, Finished, NoRow
<1> QED  BY <1>2, <1>3, <1>6

(* So the passage of time preserves the invariant. *)
LEMMA TickIInv ==
    ASSUME IInv, Tick
    PROVE  IInv'
<1> USE DEF IInv, Tick
<1>1. runs' \in [RunIds -> Row] /\ \A r \in RunIds : SteadyMove(runs[r], runs'[r])
  BY ElapsedMoves DEF TypeOK
<1>2. TypeOK'  BY <1>1 DEF TypeOK
<1>3. ProcessesConsistent'  BY DEF ProcessesConsistent
<1> QED  BY <1>1, <1>2, <1>3, SteadyMoveIInv

-----------------------------------------------------------------------------
(* The delete and the insert *)

(* What stands for a deleted row. *)
LEMMA PurgedRowType ==
    ASSUME NEW row \in Row
    PROVE  /\ PurgedRow(row) \in Row /\ PurgedRow(row).status = "purged"
           /\ PurgedRow(row).parent = NoRun /\ ~PurgedRow(row).cancel
           /\ PurgedRow(row).attempts = 0 /\ PurgedRow(row).limit = 0
<1>1. row.source \in Sources /\ row.target \in Targets  BY DEF Row
<1>2. EmptyRow("purged") \in Row  BY EmptyRowType DEF NoRow
<1>3. /\ EmptyRow("purged").status = "purged" /\ EmptyRow("purged").parent = NoRun
      /\ EmptyRow("purged").attempts = 0 /\ EmptyRow("purged").limit = 0
      /\ ~EmptyRow("purged").cancel
  BY DEF EmptyRow
<1>4. ASSUME NEW e \in Row, e.status = "purged", e.parent = NoRun,
             e.attempts = 0, e.limit = 0, ~e.cancel
      PROVE  LET new == [e EXCEPT !.source = row.source, !.target = row.target]
             IN  /\ new \in Row /\ new.status = "purged" /\ new.parent = NoRun
                 /\ new.attempts = 0 /\ new.limit = 0 /\ ~new.cancel
  BY <1>1, <1>4 DEF Row
<1> QED  BY <1>2, <1>3, <1>4 DEF PurgedRow

(* Retention deletes finished rows no creation has locked as a parent, and *)
(* empties the references to them.                                         *)
LEMMA DeleteFinishedRunsIInv ==
    ASSUME IInv, NEW w \in Workers, DeleteFinishedRuns(w)
    PROVE  IInv'
<1> USE RunIdsAssumption DEF IInv
<1>1. PICK old \in SUBSET {r \in RunIds : runs[r].status \in Finished /\ ~ParentLocked(r)} :
        runs' = [r \in RunIds |->
                   IF r \in old THEN PurgedRow(runs[r])
                   ELSE IF runs[r].parent \in old THEN [runs[r] EXCEPT !.parent = NoRun]
                   ELSE runs[r]]
  BY DEF DeleteFinishedRuns
<1>2. UNCHANGED <<connectors, lock, pc, job, attempt, prepared, request, renewing>>
  BY DEF DeleteFinishedRuns
<1>3. ASSUME NEW row \in Row
      PROVE  [row EXCEPT !.parent = NoRun] \in Row /\ [row EXCEPT !.parent = NoRun].parent = NoRun
  BY DEF Row
<1>4. ASSUME NEW row \in Row
      PROVE  LET new == [row EXCEPT !.parent = NoRun] IN
               /\ new.status = row.status /\ new.leased = row.leased /\ new.worker = row.worker
               /\ new.cancel = row.cancel
               /\ new.attempts = row.attempts /\ new.limit = row.limit
               /\ new.source = row.source /\ new.target = row.target
  BY DEF Row
<1>5. \A r \in old : /\ runs'[r] \in Row /\ runs'[r].status = "purged"
                     /\ runs'[r].parent = NoRun /\ ~runs'[r].cancel
  <2> TAKE r \in old
  <2>1. r \in RunIds /\ runs[r] \in Row  BY DEF TypeOK
  <2>2. runs'[r] = PurgedRow(runs[r])  BY <1>1, <2>1
  <2> QED  BY <2>1, <2>2, PurgedRowType
<1>6. \A r \in RunIds \ old :
        /\ runs'[r] \in Row
        /\ runs'[r].status = runs[r].status /\ runs'[r].leased = runs[r].leased
        /\ runs'[r].worker = runs[r].worker /\ runs'[r].cancel = runs[r].cancel
        /\ runs'[r].attempts = runs[r].attempts /\ runs'[r].limit = runs[r].limit
        /\ runs'[r].source = runs[r].source /\ runs'[r].target = runs[r].target
        /\ runs'[r].parent = IF runs[r].parent \in old THEN NoRun ELSE runs[r].parent
  <2> TAKE r \in RunIds \ old
  <2>1. runs[r] \in Row  BY DEF TypeOK
  <2>2. CASE runs[r].parent \in old
    <3>1. runs'[r] = [runs[r] EXCEPT !.parent = NoRun]  BY <1>1, <2>2
    <3>2. runs'[r] \in Row /\ runs'[r].parent = NoRun  BY <1>3, <2>1, <3>1
    <3> QED  BY SMT, <1>4, <2>1, <2>2, <3>1, <3>2
  <2>3. CASE runs[r].parent \notin old  BY <1>1, <2>1, <2>3
  <2> QED  BY <2>2, <2>3
<1>7. \A r \in old : r \in RunIds /\ runs[r].status \in Finished /\ ~ParentLocked(r)
  OBVIOUS
<1>8. TypeOK'
  <2>1. runs' \in [RunIds -> Row]  BY <1>1, <1>5, <1>6
  <2> QED  BY <1>2, <2>1 DEF TypeOK
<1>9. ProcessesConsistent'  BY <1>2 DEF ProcessesConsistent
<1>10. CreationIsExclusive'
  BY SMT, <1>2, <1>5, <1>6 DEF CreationIsExclusive, HasPending, Active
<1>11. RowsSound'
  <2>1. OneActiveRunPerKey'
    <3>1. \A r \in RunIds : runs'[r].status \in Active => r \in RunIds \ old
      BY <1>5 DEF Active
    <3> QED  BY SMT, <1>6, <3>1 DEF RowsSound, OneActiveRunPerKey
  <2>2. AttemptsBounded' /\ ClaimedRunIsRecoverable'
    BY SMT, <1>5, <1>6 DEF RowsSound, AttemptsBounded, ClaimedRunIsRecoverable, Active, Finished
  <2>3. QueuedRunIsClaimable'  BY SMT, <1>5, <1>6 DEF RowsSound, QueuedRunIsClaimable
  <2>4. RetriesFollowAFinishedRun'
    <3> SUFFICES ASSUME NEW r \in RunIds, runs'[r].parent # NoRun
                 PROVE  runs'[runs'[r].parent].status \in Retryable
      BY DEF RetriesFollowAFinishedRun
    <3>1. r \notin old /\ runs[r].parent \notin old /\ runs'[r].parent = runs[r].parent
      BY <1>5, <1>6
    <3>2. runs[r].parent \in RunIds  BY <3>1 DEF TypeOK, Row
    <3>3. runs'[runs[r].parent].status = runs[runs[r].parent].status
      <4>1. runs[r].parent \in RunIds \ old  BY <3>1, <3>2
      <4> QED  BY <1>6, <4>1
    <3>4. runs[runs[r].parent].status \in Retryable
      BY <3>1 DEF RowsSound, RetriesFollowAFinishedRun
    <3> QED  BY <3>1, <3>3, <3>4
  <2>5. NoRowIsBlank'  BY <1>5, <1>6 DEF RowsSound, NoRowIsBlank
  <2> QED  BY <2>1, <2>2, <2>3, <2>4, <2>5 DEF RowsSound
<1>12. CopiesAreCurrent'
  <2>1. \A p \in Procs : job[p] \in RunIds \cup {NoRun}  BY DEF TypeOK
  <2>2. ASSUME NEW v \in Workers, job[v] # NoRun,
               runs'[job[v]].status = "running", runs'[job[v]].worker = v
        PROVE  attempt[v] = runs'[job[v]].attempts
    <3>1. job[v] \in RunIds \ old
      <4>1. job[v] \in RunIds  BY <2>1, <2>2 DEF Procs
      <4>2. job[v] \notin old  BY <1>5, <2>2
      <4> QED  BY <4>1, <4>2
    <3>2. /\ runs[job[v]].status = "running" /\ runs[job[v]].worker = v
          /\ runs'[job[v]].attempts = runs[job[v]].attempts
      BY <2>2, <3>1, <1>6
    <3> QED  BY <2>2, <3>2 DEF CopiesAreCurrent
  <2>3. ASSUME NEW h \in Handlers, job[h] # NoRun, runs'[job[h]].status # "purged"
        PROVE  /\ runs'[job[h]].status \in {"running"} \cup Finished
               /\ runs'[job[h]].worker = NoWorker
               /\ ~runs'[job[h]].leased
               /\ attempt[h] = runs'[job[h]].attempts
    <3>1. job[h] \in RunIds \ old  BY <2>1, <2>3, <1>5 DEF Procs
    <3>2. /\ runs'[job[h]].status = runs[job[h]].status
          /\ runs'[job[h]].worker = runs[job[h]].worker
          /\ runs'[job[h]].leased = runs[job[h]].leased
          /\ runs'[job[h]].attempts = runs[job[h]].attempts
      BY <3>1, <1>6
    <3> QED  BY <2>3, <3>2 DEF CopiesAreCurrent
  <2> QED  BY <1>2, <2>2, <2>3 DEF CopiesAreCurrent
<1>13. RetryRequestsSound'
  <2> SUFFICES ASSUME NEW h \in Handlers, pc[h] \in Creating, request[h].parent # NoRun
               PROVE  runs'[request[h].parent].status \in
                        Retryable \cup (IF pc[h] = "insert" THEN {} ELSE {"purged"})
    BY <1>2 DEF RetryRequestsSound
  <2>1. request[h].parent \in RunIds  BY DEF ProcessesConsistent, Request
  <2>2. pc[h] = "insert" => request[h].parent \notin old  BY <1>7 DEF ParentLocked
  <2> QED  BY <1>5, <1>6, <2>1, <2>2 DEF RetryRequestsSound
<1> QED  BY <1>8, <1>9, <1>10, <1>11, <1>12, <1>13

(* The rows an insert adds. *)
LEMMA InsertedRowType ==
    ASSUME NEW q \in Request, NEW due \in Int
    PROVE  /\ LET new == [QueuedRow(q) EXCEPT !.due = due] IN
                /\ new \in Row /\ new.status = "queued"
                /\ new.source = q.source /\ new.target = q.target
                /\ new.worker = NoWorker /\ ~new.leased /\ ~new.cancel
                /\ new.attempts = 0 /\ new.limit = RunMaxAttempts /\ new.parent = q.parent
           /\ LET new == RunningRow(q) IN
                /\ new \in Row /\ new.status = "running"
                /\ new.source = q.source /\ new.target = q.target
                /\ new.worker = NoWorker /\ ~new.leased /\ ~new.cancel
                /\ new.attempts = 1 /\ new.limit = 1 /\ new.parent = NoRun
<1>1. /\ EmptyRow("queued") \in Row /\ EmptyRow("running") \in Row
  BY EmptyRowType DEF Active
<1>2. \A st \in Active : LET e == EmptyRow(st) IN
        /\ e.status = st /\ e.worker = NoWorker /\ ~e.leased /\ ~e.cancel
        /\ e.attempts = 0 /\ e.parent = NoRun
  BY DEF EmptyRow
<1>3. /\ q.source \in Sources /\ q.target \in Targets /\ q.parent \in RunIds \cup {NoRun}
      /\ RunMaxAttempts \in Nat /\ 1 \in Nat
  BY PolicyAssumption DEF Request
<1>4. ASSUME NEW e \in Row, e.status = "queued", e.worker = NoWorker, ~e.leased, ~e.cancel,
             e.attempts = 0
      PROVE  LET new == [e EXCEPT !.source = q.source, !.target = q.target,
                                  !.limit = RunMaxAttempts, !.parent = q.parent]
             IN  /\ new \in Row /\ new.status = "queued"
                 /\ new.source = q.source /\ new.target = q.target
                 /\ new.worker = NoWorker /\ ~new.leased /\ ~new.cancel
                 /\ new.attempts = 0 /\ new.limit = RunMaxAttempts /\ new.parent = q.parent
  BY <1>3, <1>4 DEF Row
<1>5. ASSUME NEW e \in Row, e.status = "running", e.worker = NoWorker, ~e.leased, ~e.cancel,
             e.parent = NoRun
      PROVE  LET new == [e EXCEPT !.source = q.source, !.target = q.target,
                                  !.attempts = 1, !.limit = 1]
             IN  /\ new \in Row /\ new.status = "running"
                 /\ new.source = q.source /\ new.target = q.target
                 /\ new.worker = NoWorker /\ ~new.leased /\ ~new.cancel
                 /\ new.attempts = 1 /\ new.limit = 1 /\ new.parent = NoRun
  <2> DEFINE new == [e EXCEPT !.source = q.source, !.target = q.target,
                              !.attempts = 1, !.limit = 1]
  <2>1. new \in Row  BY <1>3 DEF Row
  <2>2. /\ new.source = q.source /\ new.target = q.target
        /\ new.attempts = 1 /\ new.limit = 1
    BY DEF Row
  <2>3. /\ new.status = e.status /\ new.worker = e.worker /\ new.leased = e.leased
        /\ new.cancel = e.cancel /\ new.parent = e.parent
    BY DEF Row
  <2> QED  BY <1>5, <2>1, <2>2, <2>3
<1>6. ASSUME NEW e \in Row
      PROVE  LET new == [e EXCEPT !.due = due]
             IN  /\ new \in Row /\ new.status = e.status
                 /\ new.source = e.source /\ new.target = e.target
                 /\ new.worker = e.worker /\ new.leased = e.leased /\ new.cancel = e.cancel
                 /\ new.attempts = e.attempts /\ new.limit = e.limit /\ new.parent = e.parent
  BY DEF Row
<1>7. /\ QueuedRow(q) \in Row /\ QueuedRow(q).status = "queued"
      /\ QueuedRow(q).source = q.source /\ QueuedRow(q).target = q.target
      /\ QueuedRow(q).worker = NoWorker /\ ~QueuedRow(q).leased /\ ~QueuedRow(q).cancel
      /\ QueuedRow(q).attempts = 0 /\ QueuedRow(q).limit = RunMaxAttempts
      /\ QueuedRow(q).parent = q.parent
  BY <1>1, <1>2, <1>4 DEF QueuedRow, Active
<1>8. /\ RunningRow(q) \in Row /\ RunningRow(q).status = "running"
      /\ RunningRow(q).source = q.source /\ RunningRow(q).target = q.target
      /\ RunningRow(q).worker = NoWorker /\ ~RunningRow(q).leased /\ ~RunningRow(q).cancel
      /\ RunningRow(q).attempts = 1 /\ RunningRow(q).limit = 1
      /\ RunningRow(q).parent = NoRun
  BY <1>1, <1>2, <1>5 DEF RunningRow, Active
<1> QED
  <2>1. LET new == [QueuedRow(q) EXCEPT !.due = due] IN
          /\ new \in Row /\ new.status = "queued"
          /\ new.source = q.source /\ new.target = q.target
          /\ new.worker = NoWorker /\ ~new.leased /\ ~new.cancel
          /\ new.attempts = 0 /\ new.limit = RunMaxAttempts /\ new.parent = q.parent
    BY <1>6, <1>7
  <2>2. LET new == RunningRow(q) IN
          /\ new \in Row /\ new.status = "running"
          /\ new.source = q.source /\ new.target = q.target
          /\ new.worker = NoWorker /\ ~new.leased /\ ~new.cancel
          /\ new.attempts = 1 /\ new.limit = 1 /\ new.parent = NoRun
    BY <1>8
  <2> QED  BY <2>1, <2>2

(* The insert adds the only active run of its key: the lock its handler    *)
(* holds has kept every other creation out since the count.                *)
LEMMA InsertRunIInv ==
    ASSUME IInv, NEW h \in Handlers, InsertRun(h)
    PROVE  IInv'
<1> USE ProcessesAssumption, RunIdsAssumption, PolicyAssumption DEF IInv
<1> DEFINE q == request[h]
           inline == q.kind \in {"inline", "import"}
<1>1. PICK r \in RunIds, lag \in Readings :
        /\ runs[r].status = "unused"
        /\ runs' = [runs EXCEPT ![r] = IF inline THEN RunningRow(q)
                                       ELSE [QueuedRow(q) EXCEPT !.due = -lag]]
        /\ lock' = [lock EXCEPT ![q.source] = Nobody]
        /\ pc' = [pc EXCEPT ![h] = CASE q.kind = "inline" -> "claimed"
                                     [] q.kind = "import" -> "writing"
                                     [] OTHER -> "idle"]
        /\ job' = [job EXCEPT ![h] = IF inline THEN r ELSE NoRun]
        /\ attempt' = [attempt EXCEPT ![h] = IF inline THEN 1 ELSE 0]
        /\ prepared' = [prepared EXCEPT ![h] = IF q.kind = "import" THEN "payload"
                                               ELSE "error"]
        /\ request' = [request EXCEPT ![h] = NoRequest]
        /\ UNCHANGED <<connectors, renewing>>
  BY DEF InsertRun
<1>2. pc[h] = "insert"  BY DEF InsertRun
<1>3. q \in Request /\ q.source \in Sources /\ q.parent \in RunIds \cup {NoRun}
  BY <1>2 DEF ProcessesConsistent, Creating, Request
<1>4. -lag \in Int  BY SMT DEF Readings
<1>5. /\ runs'[r] \in Row /\ runs'[r].status = IF inline THEN "running" ELSE "queued"
      /\ runs'[r].source = q.source /\ runs'[r].target = q.target
      /\ runs'[r].worker = NoWorker /\ ~runs'[r].leased /\ ~runs'[r].cancel
      /\ runs'[r].attempts = (IF inline THEN 1 ELSE 0)
      /\ runs'[r].limit = (IF inline THEN 1 ELSE RunMaxAttempts)
      /\ runs'[r].parent = (IF inline THEN NoRun ELSE q.parent)
  <2>1. runs'[r] = IF inline THEN RunningRow(q) ELSE [QueuedRow(q) EXCEPT !.due = -lag]
    BY <1>1 DEF TypeOK
  <2> QED  BY SMT, <2>1, <1>3, <1>4, InsertedRowType
<1>6. \A x \in RunIds \ {r} : runs'[x] = runs[x]  BY <1>1 DEF TypeOK
<1>7. \A p \in Procs \ {h} : /\ pc'[p] = pc[p] /\ job'[p] = job[p] /\ attempt'[p] = attempt[p]
  BY <1>1 DEF TypeOK
<1>8. /\ pc'[h] \in IF inline THEN Executing ELSE {"idle"}
      /\ job'[h] = IF inline THEN r ELSE NoRun
      /\ attempt'[h] = IF inline THEN 1 ELSE 0
  BY <1>1 DEF TypeOK, Procs, Executing
<1>9. /\ \A g \in Handlers \ {h} : request'[g] = request[g]
      /\ \A s \in Sources \ {q.source} : lock'[s] = lock[s]
  BY <1>1 DEF TypeOK
<1> HIDE DEF q, inline
<1>10. TypeOK'
  <2>1. runs' \in [RunIds -> Row]  BY <1>1, <1>5 DEF TypeOK
  <2>2. pc' \in [Procs -> {"down", "recover", "claim", "idle", "default", "create",
                           "insert", "claimed", "loading", "prepared", "begin",
                           "writing", "txfailed", "settling", "ending"}]
    BY <1>1 DEF TypeOK, Procs
  <2>3. /\ lock' \in [Sources -> Handlers \cup {Nobody}]
        /\ request' \in [Handlers -> Request \cup {NoRequest}]
    BY <1>1 DEF TypeOK
  <2>4. job' \in [Procs -> RunIds \cup {NoRun}] /\ attempt' \in [Procs -> Nat]
    BY <1>1 DEF TypeOK
  <2>5. prepared' \in [Procs -> {"payload", "error"}]  BY <1>1 DEF TypeOK
  <2> QED  BY <1>1, <2>1, <2>2, <2>3, <2>4, <2>5 DEF TypeOK
<1>11. ProcessesConsistent'
  <2>1. \A w \in Workers : pc'[w] = pc[w] /\ w # h  BY <1>7 DEF Procs
  <2>2. \A g \in Handlers : pc'[g] \in Creating => g # h /\ pc'[g] = pc[g]
    BY <1>7, <1>8 DEF Procs, Creating, Executing
  <2>3. \A p \in Procs : job'[p] # NoRun <=> pc'[p] \in Executing
    BY <1>7, <1>8 DEF ProcessesConsistent, Executing
  <2>4. \A g \in Handlers : pc'[g] \in {"idle"} \cup Creating \cup Executing
    BY <1>7, <1>8 DEF ProcessesConsistent, Procs
  <2> QED  BY <1>1, <1>9, <2>1, <2>2, <2>3, <2>4 DEF ProcessesConsistent
<1>12. CreationIsExclusive'
  <2> SUFFICES ASSUME NEW g \in Handlers, pc'[g] = "insert"
               PROVE  /\ lock'[request'[g].source] = g
                      /\ ~HasPending(request[g].source, request[g].target)'
    BY DEF CreationIsExclusive
  <2>1. g # h /\ pc[g] = "insert" /\ request'[g] = request[g]
    BY <1>7, <1>8, <1>9 DEF Procs, Executing
  <2>2. request[g].source \in Sources
    BY <2>1 DEF ProcessesConsistent, Creating, Request
  <2>3. request[g].source # q.source
    BY <1>2, <2>1 DEF CreationIsExclusive, q
  <2>4. lock'[request[g].source] = g
    BY <1>9, <2>1, <2>2, <2>3 DEF CreationIsExclusive
  <2>5. ~HasPending(request[g].source, request[g].target)
    BY <2>1 DEF CreationIsExclusive
  <2> QED  BY <1>5, <1>6, <2>1, <2>3, <2>4, <2>5 DEF HasPending
<1>13. RowsSound'
  <2>1. OneActiveRunPerKey'
    <3>1. ~HasPending(q.source, q.target)  BY <1>2 DEF CreationIsExclusive, q
    <3> QED  BY SMT, <1>5, <1>6, <3>1 DEF RowsSound, OneActiveRunPerKey, HasPending
  <2>2. AttemptsBounded' /\ QueuedRunIsClaimable' /\ ClaimedRunIsRecoverable'
    <3>1. AttemptsBounded'
      <4>1. runs'[r].attempts <= runs'[r].limit  BY SMT, <1>5
      <4>2. AttemptsBounded  BY DEF RowsSound
      <4> QED  BY <1>6, <4>1, <4>2 DEF AttemptsBounded
    <3>2. QueuedRunIsClaimable'  BY SMT, <1>5, <1>6 DEF RowsSound, QueuedRunIsClaimable
    <3>3. ClaimedRunIsRecoverable'  BY <1>5, <1>6 DEF RowsSound, ClaimedRunIsRecoverable
    <3> QED  BY <3>1, <3>2, <3>3
  <2>3. RetriesFollowAFinishedRun'
    <3>1. q.parent # NoRun => runs[q.parent].status \in Retryable
      BY <1>2 DEF RetryRequestsSound, Creating, q
    <3>2. ASSUME NEW x \in RunIds, runs[x].status \in Retryable
          PROVE  runs'[x].status \in Retryable
      BY <1>1, <1>6, <3>2 DEF Retryable
    <3>3. ASSUME NEW x \in RunIds, runs'[x].parent # NoRun
          PROVE  /\ runs'[x].parent \in RunIds
                 /\ runs[runs'[x].parent].status \in Retryable
      <4>1. CASE x = r  BY <1>3, <1>5, <3>1, <3>3, <4>1
      <4>2. CASE x # r
        BY <1>6, <3>3, <4>2 DEF RowsSound, RetriesFollowAFinishedRun, TypeOK, Row
      <4> QED  BY <4>1, <4>2
    <3> QED  BY <3>2, <3>3 DEF RetriesFollowAFinishedRun
  <2>4. NoRowIsBlank'  BY <1>5, <1>6 DEF RowsSound, NoRowIsBlank, NoRow
  <2> QED  BY <2>1, <2>2, <2>3, <2>4 DEF RowsSound
<1>14. CopiesAreCurrent'
  <2>1. \A p \in Procs : job[p] \in RunIds \cup {NoRun}  BY DEF TypeOK
  <2>2. ASSUME NEW w \in Workers, job'[w] # NoRun,
               runs'[job'[w]].status = "running", runs'[job'[w]].worker = w
        PROVE  attempt'[w] = runs'[job'[w]].attempts
    <3>1. job'[w] = job[w] /\ attempt'[w] = attempt[w]  BY <1>7 DEF Procs
    <3>2. job[w] # r  BY <1>5, <2>2, <3>1
    <3>3. job[w] \in RunIds \ {r}  BY <2>1, <2>2, <3>1, <3>2 DEF Procs
    <3>4. runs'[job[w]] = runs[job[w]]  BY <1>6, <3>3
    <3> QED  BY <2>2, <3>1, <3>4 DEF CopiesAreCurrent
  <2>3. ASSUME NEW g \in Handlers, g # h, job'[g] # NoRun
        PROVE  /\ job'[g] = job[g] /\ attempt'[g] = attempt[g]
               /\ job[g] # r /\ runs'[job[g]] = runs[job[g]]
    <3>1. job'[g] = job[g] /\ attempt'[g] = attempt[g]  BY <1>7, <2>3 DEF Procs
    <3>2. job[g] # r  BY <1>1, <2>3, <3>1 DEF CopiesAreCurrent, Finished
    <3> QED  BY <1>6, <2>1, <2>3, <3>1, <3>2 DEF Procs
  <2>4. ASSUME NEW g \in Handlers, job'[g] # NoRun
        PROVE  \/ runs'[job'[g]].status = "purged"
               \/ /\ runs'[job'[g]].status \in {"running"} \cup Finished
                  /\ runs'[job'[g]].worker = NoWorker
                  /\ ~runs'[job'[g]].leased
                  /\ attempt'[g] = runs'[job'[g]].attempts
    <3>1. CASE g = h  BY <1>5, <1>8, <2>4, <3>1
    <3>2. CASE g # h  BY SMT, <2>3, <2>4, <3>2 DEF CopiesAreCurrent
    <3> QED  BY <3>1, <3>2
  <2>5. ASSUME NEW g \in Handlers, NEW k \in Handlers, job'[g] # NoRun, job'[g] = job'[k]
        PROVE  g = k
    <3>1. CASE g # h /\ k # h
      <4>1. job[g] # NoRun /\ job[g] = job[k]  BY <2>3, <2>5, <3>1
      <4> QED  BY <4>1 DEF CopiesAreCurrent
    <3>2. job'[h] # NoRun => job'[h] = r  BY <1>8
    <3>3. CASE g = h \/ k = h  BY <2>3, <2>5, <3>2, <3>3
    <3> QED  BY <3>1, <3>3
  <2> QED  BY <2>2, <2>4, <2>5 DEF CopiesAreCurrent
<1>15. RetryRequestsSound'
  <2> SUFFICES ASSUME NEW g \in Handlers, pc'[g] \in Creating, request'[g].parent # NoRun
               PROVE  runs'[request'[g].parent].status \in
                        Retryable \cup (IF pc'[g] = "insert" THEN {} ELSE {"purged"})
    BY DEF RetryRequestsSound
  <2>1. g # h /\ pc'[g] = pc[g] /\ request'[g] = request[g]
    BY <1>7, <1>8, <1>9 DEF Procs, Creating, Executing
  <2>2. request[g].parent \in RunIds  BY <2>1 DEF ProcessesConsistent, Request
  <2>3. runs[request[g].parent].status \in
          Retryable \cup (IF pc[g] = "insert" THEN {} ELSE {"purged"})
    BY <2>1 DEF RetryRequestsSound
  <2>4. request[g].parent # r  BY <1>1, <2>3 DEF Retryable
  <2>5. runs'[request[g].parent] = runs[request[g].parent]  BY <1>6, <2>2, <2>4
  <2> QED  BY <2>1, <2>3, <2>5
<1> QED  BY <1>10, <1>11, <1>12, <1>13, <1>14, <1>15

-----------------------------------------------------------------------------
(* The invariant *)

(* Every step of an execution preserves the invariant. *)
LEMMA ExecutionStepIInv ==
    ASSUME IInv, NEW p \in Procs, ExecutionStep(p)
    PROVE  IInv'
<1>1. ASSUME NEW next \in Executing, pc[p] \in Executing, Goto(p, next)
      PROVE  IInv'
  BY <1>1, GotoIInv
<1>2. CASE CheckBeforeLoad(p)  BY <1>1, <1>2 DEF CheckBeforeLoad, Executing
<1>3. CASE LoadPayload(p)  BY <1>3, LoadPayloadIInv
<1>4. CASE CheckAfterLoad(p)  BY <1>1, <1>4 DEF CheckAfterLoad, Executing
<1>5. CASE BeginTransaction(p)  BY <1>1, <1>5 DEF BeginTransaction, Executing
<1>6. CASE CommitExecution(p)  BY <1>6, CommitExecutionIInv
<1>7. CASE LoseOwnership(p)  BY <1>1, <1>7 DEF LoseOwnership, Executing
<1>8. CASE TransactionError(p)  BY <1>1, <1>8 DEF TransactionError, Executing
<1>9. CASE AfterRollback(p)  BY <1>1, <1>9 DEF AfterRollback, Executing
<1>10. CASE SettleCancelled(p)  BY <1>10, SettleCancelledIInv
<1>11. CASE QueryError(p)  BY <1>1, <1>11 DEF QueryError, Executing
<1>12. CASE EndExecution(p)  BY <1>12, EndExecutionIInv
<1> QED  BY <1>2, <1>3, <1>4, <1>5, <1>6, <1>7, <1>8, <1>9, <1>10, <1>11, <1>12
         DEF ExecutionStep

(* Taking a request preserves it, whichever route took it. *)
LEMMA RequestIInv ==
    ASSUME IInv, NEW h \in Handlers
    PROVE  /\ \A s \in Sources, t \in Targets, mode \in {"queue", "inline"} :
                RunConnector(h, s, t, mode) => IInv'
           /\ \A s \in Sources, t \in Targets : ImportItems(h, s, t) => IInv'
           /\ \A r \in RunIds : RetryConnectorRun(h, r) => IInv'
<1> USE RunIdsAssumption
<1>1. ASSUME NEW s \in Sources, NEW t \in Targets, NEW mode \in {"queue", "inline"},
             RunConnector(h, s, t, mode)
      PROVE  IInv'
  <2>1. PICK next \in {"default", "create"} : Ask(h, next, mode, s, t, NoRun)
    BY <1>1 DEF RunConnector
  <2>2. mode \in Kinds /\ NoRun \in RunIds \cup {NoRun}  BY DEF Kinds
  <2> QED  BY <2>1, <2>2, AskIInv
<1>2. ASSUME NEW s \in Sources, NEW t \in Targets, ImportItems(h, s, t)
      PROVE  IInv'
  BY <1>2, AskIInv DEF ImportItems, Kinds
<1>3. ASSUME NEW r \in RunIds, RetryConnectorRun(h, r)
      PROVE  IInv'
  <2>1. runs[r].source \in Sources /\ runs[r].target \in Targets  BY DEF IInv, TypeOK, Row
  <2> QED  BY <1>3, <2>1, AskIInv DEF RetryConnectorRun, Kinds
<1> QED  BY <1>1, <1>2, <1>3

(* Every step of the system preserves the invariant. *)
LEMMA NextIInv == IInv /\ [Next]_vars => IInv'
<1> SUFFICES ASSUME IInv, [Next]_vars PROVE IInv'  OBVIOUS
<1>1. ASSUME NEW h \in Handlers, CreateStep(h) PROVE IInv'
  BY <1>1, FindOrCreateDefaultIInv, LockAndCountIInv, InsertRunIInv, CreateErrorIInv
  DEF CreateStep
<1>2. ASSUME NEW w \in Workers, CycleStep(w) PROVE IInv'
  BY <1>2, RecoverExpiredLeasesIInv, ClaimNextQueuedIInv, StartCycleOverIInv DEF CycleStep
<1>3. CASE UNCHANGED vars
  <2> USE <1>3 DEF vars, IInv
  <2>1. TypeOK'  BY DEF TypeOK
  <2>2. ProcessesConsistent'  BY DEF ProcessesConsistent
  <2>3. CreationIsExclusive'  BY DEF CreationIsExclusive, HasPending
  <2>4. RowsSound'
    BY DEF RowsSound, OneActiveRunPerKey, AttemptsBounded, QueuedRunIsClaimable,
           ClaimedRunIsRecoverable, RetriesFollowAFinishedRun, NoRowIsBlank
  <2>5. CopiesAreCurrent'  BY DEF CopiesAreCurrent
  <2>6. RetryRequestsSound'  BY DEF RetryRequestsSound
  <2> QED  BY <2>1, <2>2, <2>3, <2>4, <2>5, <2>6
<1>4. CASE Next
  BY <1>1, <1>2, <1>4, RequestIInv, RenewLeaseIInv, DeleteFinishedRunsIInv, CrashWorkerIInv,
     ExecutionStepIInv, RequestCancelIInv, SetConnectorIInv, CrashServerIInv, TickIInv
  DEF Next, SaveConnector, DeleteConnector
<1> QED  BY <1>3, <1>4

(* The inductive invariant holds in every state of the run queue, whatever *)
(* the numbers of runs, connectors, workers and handlers, the lease and    *)
(* retry policy, and however far the clocks of the hosts are apart.        *)
THEOREM SpecIInv == Spec => []IInv
<1>1. Init => IInv  BY InitIInv
<1>2. IInv /\ [Next]_vars => IInv'  BY NextIInv
<1> QED  BY <1>1, <1>2, PTL DEF Spec

(* The types of the columns and of the processes' variables are kept. *)
THEOREM TypeCorrect == Spec => []TypeOK
<1>1. IInv => TypeOK  BY DEF IInv
<1> QED  BY <1>1, SpecIInv, PTL

(* At most one run of a source and target is ever queued or running. *)
THEOREM ActiveRunsExclusive == Spec => []OneActiveRunPerKey
<1>1. IInv => OneActiveRunPerKey  BY DEF IInv, RowsSound
<1> QED  BY <1>1, SpecIInv, PTL

(* A queued run can always be claimed once it is due. *)
THEOREM QueuedRunsClaimable == Spec => []QueuedRunIsClaimable
<1>1. IInv => QueuedRunIsClaimable  BY DEF IInv, RowsSound
<1> QED  BY <1>1, SpecIInv, PTL

(* A run a worker has claimed is always within recovery's reach. *)
THEOREM ClaimedRunsRecoverable == Spec => []ClaimedRunIsRecoverable
<1>1. IInv => ClaimedRunIsRecoverable  BY DEF IInv, RowsSound
<1> QED  BY <1>1, SpecIInv, PTL

(* A retry refers to a run that ended in a retryable status, or to none. *)
THEOREM RetriesSound == Spec => []RetriesFollowAFinishedRun
<1>1. IInv => RetriesFollowAFinishedRun  BY DEF IInv, RowsSound
<1> QED  BY <1>1, SpecIInv, PTL

(* Fencing: only the process that executes the run's current attempt       *)
(* passes the ownership checks.                                            *)
THEOREM Fencing == Spec => []OnlyCurrentAttemptIsActive
<1>1. IInv => OnlyCurrentAttemptIsActive
  <2> SUFFICES ASSUME IInv, NEW p \in Procs, job[p] # NoRun, NEW lag \in Readings,
                      ExecutionIsActive(job[p], p, lag)
               PROVE  attempt[p] = runs[job[p]].attempts
    BY DEF OnlyCurrentAttemptIsActive
  <2>1. CASE p \in Workers
    BY <2>1 DEF IInv, CopiesAreCurrent, ExecutionIsActive, OwnedBy
  <2>2. CASE p \in Handlers
    BY <2>2 DEF IInv, CopiesAreCurrent, ExecutionIsActive
  <2> QED  BY <2>1, <2>2 DEF Procs
<1> QED  BY <1>1, SpecIInv, PTL

-----------------------------------------------------------------------------
(* The run queue implements RunLifecycle *)

(* What a step may do to a row, as RunLifecycle sees it *)
LifeMove(old, new) ==
    \/ LifeOf(new) = LifeOf(old)
    \/ Lifecycle!RunStep(LifeOf(old), LifeOf(new))

(* A row as it was is a stutter. *)
LEMMA SameLife == ASSUME NEW row PROVE LifeMove(row, row)
BY DEF LifeMove

(* Ending a running row: in cancelled if and only if it carries a request. *)
LEMMA EndedLife ==
    ASSUME NEW row \in Row, row.status = "running", NEW status,
           \/ row.cancel /\ status = "cancelled"
           \/ ~row.cancel /\ status \in {"success", "partial_success", "failed"}
    PROVE  LifeMove(row, EndedRow(row, status))
<1> DEFINE new == [row EXCEPT !.status = status, !.leased = FALSE, !.lease = 0]
<1>1. /\ new.status = status /\ new.attempts = row.attempts /\ new.limit = row.limit
      /\ new.cancel = row.cancel
  BY DEF Row
<1>2. row.cancel \in BOOLEAN  BY DEF Row
<1> HIDE DEF new
<1>3. LifeMove(row, new)
  <2>1. LifeOf(row).status = "running" /\ LifeOf(row).cancel = row.cancel
    BY DEF LifeOf
  <2>2. CASE row.cancel /\ status = "cancelled"
    <3>1. LifeOf(new) = Lifecycle!Run("cancelled", LifeOf(row).attempts, LifeOf(row).limit, TRUE)
      BY <1>1, <1>2, <2>2 DEF LifeOf, Lifecycle!Run
    <3> QED  BY <2>1, <2>2, <3>1 DEF LifeMove, Lifecycle!RunStep, Lifecycle!Cancel
  <2>3. CASE ~row.cancel /\ status \in {"success", "partial_success", "failed"}
    <3>1. LifeOf(new) = Lifecycle!Run(status, LifeOf(row).attempts, LifeOf(row).limit, FALSE)
      BY <1>1, <1>2, <2>3 DEF LifeOf, Lifecycle!Run
    <3> QED  BY <2>1, <2>3, <3>1 DEF LifeMove, Lifecycle!RunStep, Lifecycle!Finish
  <2> QED  BY <2>2, <2>3
<1> QED  BY <1>3 DEF EndedRow, new

(* A recovered row is settled, given up or requeued. *)
LEMMA RecoveredLife ==
    ASSUME NEW row \in Row, NEW lag \in Int, row.status = "running"
    PROVE  LifeMove(row, RecoveredRow(row, lag))
<1>1. CASE row.cancel  BY <1>1, EndedLife DEF RecoveredRow
<1>2. CASE ~row.cancel /\ row.attempts >= row.limit  BY <1>2, EndedLife DEF RecoveredRow
<1>3. CASE ~row.cancel /\ ~(row.attempts >= row.limit)
  <2> DEFINE due == BoundedRetryBackoff(row.attempts, RetryBase, RetryMax) - lag
             new == [row EXCEPT !.status = "queued", !.worker = NoWorker,
                                !.leased = FALSE, !.lease = 0, !.due = due]
  <2>1. RecoveredRow(row, lag) = new  BY <1>3 DEF RecoveredRow, RequeuedRow
  <2> HIDE DEF due
  <2>2. /\ new.status = "queued" /\ new.attempts = row.attempts /\ new.limit = row.limit
        /\ new.cancel = row.cancel
    BY DEF Row
  <2>3. row.attempts \in Nat /\ row.limit \in Nat /\ row.cancel \in BOOLEAN  BY DEF Row
  <2>4. row.attempts < row.limit  BY SMT, <1>3, <2>3
  <2> HIDE DEF new
  <2>5. LifeOf(new) = Lifecycle!Run("queued", LifeOf(row).attempts, LifeOf(row).limit, FALSE)
    BY <1>3, <2>2, <2>3 DEF LifeOf, Lifecycle!Run
  <2>6. /\ LifeOf(row).status = "running" /\ ~LifeOf(row).cancel
        /\ LifeOf(row).attempts < LifeOf(row).limit
    BY <1>3, <2>4 DEF LifeOf
  <2> QED  BY <2>1, <2>5, <2>6 DEF LifeMove, Lifecycle!RunStep, Lifecycle!Requeue
<1> QED  BY <1>1, <1>2, <1>3

(* A claim counts an attempt that was left. *)
LEMMA ClaimedLife ==
    ASSUME NEW row \in Row, NEW w \in Workers, NEW lag \in Int,
           row.status = "queued", ~row.cancel, row.attempts < row.limit
    PROVE  LifeMove(row, ClaimedRow(row, w, lag))
<1> DEFINE new == ClaimedRow(row, w, lag)
<1>1. /\ new.status = "running" /\ new.attempts = row.attempts + 1 /\ new.limit = row.limit
      /\ new.cancel = row.cancel
  BY SMT, ClaimedRowType
<1> HIDE DEF new
<1>2. row.cancel \in BOOLEAN  BY DEF Row
<1>3. LifeOf(new) = Lifecycle!Run("running", LifeOf(row).attempts + 1, LifeOf(row).limit, FALSE)
  BY <1>1, <1>2 DEF LifeOf, Lifecycle!Run
<1>4. LifeOf(row).status = "queued" /\ LifeOf(row).attempts < LifeOf(row).limit
  BY DEF LifeOf
<1> QED  BY <1>3, <1>4 DEF LifeMove, Lifecycle!RunStep, Lifecycle!Claim, new

(* A cancel request ends a queued run and marks a running one once. *)
LEMMA CancelRequestedLife ==
    ASSUME NEW row \in Row, row.status \in Active
    PROVE  LifeMove(row, CancelRequested(row))
<1> DEFINE status == IF row.status = "queued" THEN "cancelled" ELSE row.status
           new == [row EXCEPT !.cancel = TRUE, !.status = status]
<1>1. new.status = status /\ new.attempts = row.attempts /\ new.limit = row.limit /\ new.cancel
  BY DEF Row
<1>2. new.cancel = TRUE  BY DEF Row
<1>3. CancelRequested(row) = new  BY DEF CancelRequested
<1> HIDE DEF new
<1>4. CASE row.status = "queued"
  <2>1. LifeOf(new) = Lifecycle!Run("cancelled", LifeOf(row).attempts, LifeOf(row).limit, TRUE)
    BY <1>1, <1>2, <1>4 DEF LifeOf, Lifecycle!Run
  <2>2. LifeOf(row).status = "queued"  BY <1>4 DEF LifeOf
  <2> QED  BY <1>3, <2>1, <2>2 DEF LifeMove, Lifecycle!RunStep, Lifecycle!Cancel
<1>5. CASE row.status = "running"
  <2>1. LifeOf(new) = Lifecycle!Run("running", LifeOf(row).attempts, LifeOf(row).limit, TRUE)
    BY <1>1, <1>2, <1>5 DEF LifeOf, Lifecycle!Run
  <2>2. LifeOf(row).status = "running"  BY <1>5 DEF LifeOf
  <2>3. CASE row.cancel
    <3>1. row.cancel = TRUE  BY <2>3 DEF Row
    <3> QED  BY <1>3, <1>5, <2>1, <3>1 DEF LifeMove, LifeOf, Lifecycle!Run
  <2>4. CASE ~row.cancel
    <3>1. ~LifeOf(row).cancel  BY <2>4 DEF LifeOf
    <3> QED  BY <1>3, <2>1, <2>2, <3>1 DEF LifeMove, Lifecycle!RunStep, Lifecycle!AskCancel
  <2> QED  BY <2>3, <2>4
<1> QED  BY <1>4, <1>5 DEF Active

(* Countdowns, leases and parents are not part of a run's life. *)
LEMMA QuietColumns ==
    ASSUME NEW row \in Row, NEW lease \in Int
    PROVE  /\ LifeMove(row, Elapsed(row))
           /\ LifeMove(row, [row EXCEPT !.lease = lease])
           /\ LifeMove(row, [row EXCEPT !.parent = NoRun])
<1>1. LifeOf([row EXCEPT !.lease = lease]) = LifeOf(row)  BY DEF LifeOf, Row
<1>2. LifeOf([row EXCEPT !.parent = NoRun]) = LifeOf(row)  BY DEF LifeOf, Row
<1>3. LifeOf(Elapsed(row)) = LifeOf(row)
  <2>1. ASSUME NEW d, NEW l
        PROVE  LifeOf([row EXCEPT !.due = d, !.lease = l]) = LifeOf(row)
    BY DEF LifeOf, Row
  <2> QED  BY <2>1 DEF Elapsed
<1> QED  BY <1>1, <1>2, <1>3 DEF LifeMove

(* Retention deletes a finished run. *)
LEMMA PurgedLife ==
    ASSUME NEW row \in Row, row.status \in Finished
    PROVE  LifeMove(row, PurgedRow(row))
<1>1. PurgedRow(row).cancel = FALSE
  <2>1. PurgedRow(row).cancel \in BOOLEAN  BY PurgedRowType DEF Row
  <2> QED  BY <2>1, PurgedRowType
<1>2. LifeOf(PurgedRow(row)) = Lifecycle!Run("purged", 0, 0, FALSE)
  BY <1>1, PurgedRowType DEF LifeOf, Lifecycle!Run
<1>3. LifeOf(row).status \in Finished  BY DEF LifeOf
<1> QED  BY <1>2, <1>3 DEF LifeMove, Lifecycle!RunStep, Lifecycle!Delete, Finished

(* An insert turns an unused identifier into a queued or an inline run. *)
LEMMA InsertedLife ==
    ASSUME NEW row \in Row, row.status = "unused", NEW q \in Request, NEW due \in Int
    PROVE  /\ LifeMove(row, [QueuedRow(q) EXCEPT !.due = due])
           /\ LifeMove(row, RunningRow(q))
<1>0. LifeOf(row).status = "unused"  BY DEF LifeOf
<1>1. LifeMove(row, [QueuedRow(q) EXCEPT !.due = due])
  <2> DEFINE new == [QueuedRow(q) EXCEPT !.due = due]
  <2>1. /\ new \in Row /\ new.status = "queued" /\ ~new.cancel
        /\ new.attempts = 0 /\ new.limit = RunMaxAttempts
    BY InsertedRowType
  <2> HIDE DEF new
  <2>2. new.cancel = FALSE  BY <2>1 DEF Row
  <2>3. LifeOf(new) = Lifecycle!Run("queued", 0, RunMaxAttempts, FALSE)
    BY <2>1, <2>2 DEF LifeOf, Lifecycle!Run
  <2>4. LifeMove(row, new)
    BY <1>0, <2>3 DEF LifeMove, Lifecycle!RunStep, Lifecycle!Create
  <2> QED  BY <2>4 DEF new
<1>2. LifeMove(row, RunningRow(q))
  <2> DEFINE new == RunningRow(q)
  <2>1. /\ new \in Row /\ new.status = "running" /\ ~new.cancel
        /\ new.attempts = 1 /\ new.limit = 1
    <3>1. 0 \in Int  BY SMT
    <3> QED  BY <3>1, InsertedRowType
  <2> HIDE DEF new
  <2>2. new.cancel = FALSE  BY <2>1 DEF Row
  <2>3. LifeOf(new) = Lifecycle!Run("running", 1, 1, FALSE)
    BY <2>1, <2>2 DEF LifeOf, Lifecycle!Run
  <2>4. LifeMove(row, new)
    BY <1>0, <2>3 DEF LifeMove, Lifecycle!RunStep, Lifecycle!Create
  <2> QED  BY <2>4 DEF new
<1> QED  BY <1>1, <1>2

-----------------------------------------------------------------------------
(* Every step moves every row that way *)

LifeMoves == \A r \in RunIds : LifeMove(runs[r], runs'[r])

(* Steps of the worker loop and of its renewal task. *)
LEMMA WorkerLife ==
    ASSUME IInv, NEW w \in Workers,
           CycleStep(w) \/ RenewLease(w) \/ RenewalGivesUp(w) \/ DeleteFinishedRuns(w)
    PROVE  LifeMoves
<1> USE DEF LifeMoves
<1>0. \A r \in RunIds : runs[r] \in Row  BY DEF IInv, TypeOK
<1>1. \A lag \in Readings : lag \in Int /\ LeaseSeconds - lag \in Int
  BY SMT, PolicyAssumption DEF Readings
<1>2. CASE RecoverExpiredLeases(w)
  <2>1. PICK lag \in Readings, batch \in SUBSET RunIds :
          /\ \A r \in batch : runs[r].status = "running" /\ runs[r].leased
          /\ RecoverBatch(batch, lag)
    BY <1>2, RecoveryBatch
  <2> QED  BY <1>0, <1>1, <2>1, RecoveredLife, SameLife DEF RecoverBatch
<1>3. CASE ClaimNextQueued(w)
  <2>1. PICK lag \in Readings, c \in RunIds :
          /\ runs[c].status = "queued" /\ ~runs[c].cancel /\ runs[c].attempts < runs[c].limit
          /\ runs' = [runs EXCEPT ![c] = ClaimedRow(@, w, lag)]
    BY <1>3 DEF ClaimNextQueued, Claimable
  <2>2. LifeMove(runs[c], ClaimedRow(runs[c], w, lag))  BY <1>0, <1>1, <2>1, ClaimedLife
  <2> QED  BY <2>1, <2>2, SameLife DEF IInv, TypeOK
<1>4. CASE RenewLease(w)
  <2>1. CASE UNCHANGED runs  BY <2>1, SameLife
  <2>2. ASSUME NEW lag \in Readings,
               runs' = [runs EXCEPT ![job[w]] = [@ EXCEPT !.lease = LeaseSeconds - lag]]
        PROVE  LifeMoves
    BY <1>0, <1>1, <2>2, QuietColumns, SameLife DEF IInv, TypeOK
  <2> QED  BY <1>4, <2>1, <2>2 DEF RenewLease
<1>5. CASE DeleteFinishedRuns(w)
  <2>1. PICK old \in SUBSET RunIds :
          /\ \A r \in old : runs[r].status \in Finished
          /\ runs' = [r \in RunIds |->
                        IF r \in old THEN PurgedRow(runs[r])
                        ELSE IF runs[r].parent \in old THEN [runs[r] EXCEPT !.parent = NoRun]
                        ELSE runs[r]]
    BY <1>5 DEF DeleteFinishedRuns
  <2> SUFFICES ASSUME NEW r \in RunIds PROVE LifeMove(runs[r], runs'[r])
    OBVIOUS
  <2>2. 0 \in Int  BY SMT
  <2>3. CASE r \in old
    <3>1. runs'[r] = PurgedRow(runs[r])  BY <2>1, <2>3
    <3> QED  BY <1>0, <2>1, <2>3, <3>1, PurgedLife
  <2>4. CASE r \notin old /\ runs[r].parent \in old
    <3>1. runs'[r] = [runs[r] EXCEPT !.parent = NoRun]  BY <2>1, <2>4
    <3> QED  BY <1>0, <2>2, <3>1, QuietColumns
  <2>5. CASE r \notin old /\ runs[r].parent \notin old
    <3>1. runs'[r] = runs[r]  BY <2>1, <2>5
    <3> QED  BY <3>1, SameLife
  <2> QED  BY <2>3, <2>4, <2>5
<1>6. CASE StartCycleOver(w) \/ RenewalGivesUp(w)
  BY <1>6, SameLife DEF StartCycleOver, RenewalGivesUp
<1> QED  BY <1>2, <1>3, <1>4, <1>5, <1>6 DEF CycleStep

(* Steps of an execution: the commit and the settling of a cancellation. *)
LEMMA ExecutionLife ==
    ASSUME IInv, NEW p \in Procs, ExecutionStep(p)
    PROVE  LifeMoves
<1> USE DEF LifeMoves
<1>0. \A r \in RunIds : runs[r] \in Row  BY DEF IInv, TypeOK
<1>1. CASE UNCHANGED runs  BY <1>1, SameLife
<1>2. CASE CommitExecution(p)
  <2>1. PICK lag \in Readings, status \in Outcomes(p) :
          /\ FinalizeMatches(job[p], p, lag)
          /\ runs' = [runs EXCEPT ![job[p]] = EndedRow(@, status)]
    BY <1>2 DEF CommitExecution
  <2>2. job[p] \in RunIds /\ runs[job[p]].status = "running" /\ ~runs[job[p]].cancel
    BY <1>2, <2>1
    DEF CommitExecution, IInv, ProcessesConsistent, TypeOK, Executing, FinalizeMatches
  <2>3. status \in {"success", "partial_success", "failed"}
    BY SMT DEF Outcomes, RunStatus
  <2> QED  BY <1>0, <2>1, <2>2, <2>3, EndedLife, SameLife DEF IInv, TypeOK
<1>3. CASE SettleCancelled(p)
  <2>1. runs' = [r \in RunIds |-> IF r = job[p] /\ CancelMatches(r, p)
                                  THEN EndedRow(runs[r], "cancelled") ELSE runs[r]]
    BY <1>3 DEF SettleCancelled
  <2>2. \A r \in RunIds : CancelMatches(r, p) => runs[r].status = "running" /\ runs[r].cancel
    BY DEF CancelMatches
  <2> QED  BY <1>0, <2>1, <2>2, EndedLife, SameLife
<1> QED
  BY <1>1, <1>2, <1>3
  DEF ExecutionStep, CheckBeforeLoad, LoadPayload, CheckAfterLoad, BeginTransaction,
      LoseOwnership, TransactionError, AfterRollback, QueryError, EndExecution, Goto

(* Steps of the creation of a run: the insert. *)
LEMMA CreateLife ==
    ASSUME IInv, NEW h \in Handlers, CreateStep(h)
    PROVE  LifeMoves
<1> USE DEF LifeMoves
<1>0. \A r \in RunIds : runs[r] \in Row  BY DEF IInv, TypeOK
<1>1. CASE UNCHANGED runs  BY <1>1, SameLife
<1>2. CASE InsertRun(h)
  <2>1. request[h] \in Request
    BY <1>2 DEF InsertRun, IInv, ProcessesConsistent, Creating
  <2>2. PICK c \in RunIds, lag \in Readings :
          /\ runs[c].status = "unused"
          /\ \/ runs' = [runs EXCEPT ![c] = RunningRow(request[h])]
             \/ runs' = [runs EXCEPT ![c] = [QueuedRow(request[h]) EXCEPT !.due = -lag]]
    BY <1>2 DEF InsertRun
  <2>3. -lag \in Int  BY SMT, PolicyAssumption DEF Readings
  <2>4. /\ LifeMove(runs[c], RunningRow(request[h]))
        /\ LifeMove(runs[c], [QueuedRow(request[h]) EXCEPT !.due = -lag])
    BY <1>0, <2>1, <2>2, <2>3, InsertedLife
  <2> QED  BY <2>2, <2>4, SameLife DEF IInv, TypeOK
<1> QED
  BY <1>1, <1>2
  DEF CreateStep, FindOrCreateDefault, LockAndCount, Refuse, CreateError

(* Every step of the system moves every run the way RunLifecycle allows. *)
LEMMA NextLife == ASSUME IInv, Next PROVE LifeMoves
<1>0. \A r \in RunIds : runs[r] \in Row  BY DEF IInv, TypeOK
<1>1. CASE UNCHANGED runs  BY <1>1, SameLife DEF LifeMoves
<1>2. ASSUME NEW r \in RunIds, RequestCancel(r) PROVE LifeMoves
  <2>1. /\ runs[r].status \in Active /\ runs' = [runs EXCEPT ![r] = CancelRequested(@)]
    BY <1>2 DEF RequestCancel
  <2>2. LifeMove(runs[r], CancelRequested(runs[r]))  BY <1>0, <2>1, CancelRequestedLife
  <2> QED  BY <2>1, <2>2, SameLife DEF LifeMoves, IInv, TypeOK
<1>3. CASE Tick
  <2>1. 0 \in Int  BY SMT
  <2> QED  BY <1>0, <1>3, <2>1, QuietColumns DEF Tick, LifeMoves
<1>4. ASSUME NEW h \in Handlers,
             \/ \E s \in Sources, t \in Targets :
                  \/ \E mode \in {"queue", "inline"} : RunConnector(h, s, t, mode)
                  \/ ImportItems(h, s, t)
             \/ \E r \in RunIds : RetryConnectorRun(h, r)
      PROVE  UNCHANGED runs
  BY <1>4 DEF RunConnector, ImportItems, RetryConnectorRun, Ask
<1>5. ASSUME NEW w \in Workers, CrashWorker(w) PROVE UNCHANGED runs
  BY <1>5 DEF CrashWorker
<1>6. ASSUME NEW s \in Sources, NEW status \in OperatorStatuses, SetConnector(s, status)
      PROVE  UNCHANGED runs
  BY <1>6 DEF SetConnector
<1>7. CrashServer => UNCHANGED runs  BY DEF CrashServer
<1> QED
  BY <1>1, <1>2, <1>3, <1>4, <1>5, <1>6, <1>7, WorkerLife, ExecutionLife, CreateLife
  DEF Next, SaveConnector, DeleteConnector

(* The run queue, under all the interleavings, crashes and clock readings  *)
(* of its processes, implements RunLifecycle: attempts are counted by      *)
(* claims only and never pass the limit, a finished run never moves again  *)
(* and a run with a cancel request ends in no status but cancelled.        *)
THEOREM Refinement == Spec => ImplementsLifecycle
<1>1. Init => Lifecycle!Init
  BY SMT DEF Init, EmptyRow, LifeOf, Lifecycle!Init, Lifecycle!Run
<1>2. IInv /\ [Next]_vars =>
        [Lifecycle!Next]_([r \in RunIds |-> LifeOf(runs[r])])
  <2> SUFFICES ASSUME IInv, Next PROVE Lifecycle!Next
    BY DEF vars
  <2>1. LifeMoves  BY NextLife
  <2> QED  BY <2>1 DEF LifeMoves, LifeMove, Lifecycle!Next
<1> QED  BY <1>1, <1>2, SpecIInv, PTL DEF Spec, ImplementsLifecycle, Lifecycle!Spec

(* A cancel request is never undone, and a run that carries one changes    *)
(* its status to nothing but cancelled before retention deletes it.        *)
THEOREM CancelRequestsStand == Spec => CancelRequestStands
<1>1. IInv /\ [Next]_vars =>
        [\A r \in RunIds : runs[r].cancel =>
           \/ runs'[r].cancel /\ runs'[r].status \in {runs[r].status, "cancelled"}
           \/ runs'[r].status = "purged"]_vars
  <2> SUFFICES ASSUME IInv, Next, NEW r \in RunIds, runs[r].cancel
               PROVE  \/ /\ runs'[r].cancel
                         /\ runs'[r].status \in {runs[r].status, "cancelled"}
                      \/ runs'[r].status = "purged"
    OBVIOUS
  <2>1. LifeMove(runs[r], runs'[r])  BY NextLife DEF LifeMoves
  <2>2. runs[r].status \notin {"queued", "unused"}
    BY DEF IInv, RowsSound, QueuedRunIsClaimable, NoRowIsBlank, NoRow
  <2>3. \A row : /\ LifeOf(row).status = row.status /\ LifeOf(row).cancel = row.cancel
    BY DEF LifeOf
  <2>4. CASE LifeOf(runs'[r]) = LifeOf(runs[r])
    <3>1. LifeOf(runs'[r]).status = runs[r].status /\ LifeOf(runs'[r]).cancel = runs[r].cancel
      BY <2>3, <2>4
    <3> QED  BY <2>3, <3>1
  <2>5. CASE Lifecycle!RunStep(LifeOf(runs[r]), LifeOf(runs'[r]))
    <3>1. LifeOf(runs[r]).cancel /\ LifeOf(runs[r]).status \notin {"queued", "unused"}
      BY <2>2, <2>3
    <3>2. Lifecycle!Cancel(LifeOf(runs[r]), LifeOf(runs'[r]))
          \/ Lifecycle!Delete(LifeOf(runs[r]), LifeOf(runs'[r]))
      BY <2>5, <3>1
      DEF Lifecycle!RunStep, Lifecycle!Create, Lifecycle!Claim, Lifecycle!Requeue,
          Lifecycle!Finish, Lifecycle!AskCancel
    <3>3. \/ LifeOf(runs'[r]).status = "purged"
          \/ LifeOf(runs'[r]).cancel /\ LifeOf(runs'[r]).status = "cancelled"
      BY SMT, <3>2 DEF Lifecycle!Cancel, Lifecycle!Delete, Lifecycle!Run
    <3> QED  BY <2>3, <3>3
  <2> QED  BY <2>1, <2>4, <2>5 DEF LifeMove
<1> QED  BY <1>1, SpecIInv, PTL DEF Spec, CancelRequestStands

-----------------------------------------------------------------------------
(* Leases *)

(* The lease of a run that stays running does not grow. *)
LeaseKept(old, new) ==
    old.status = "running" /\ new.status = "running" => ~(new.lease > old.lease)

LeasesKept == \A r \in RunIds : LeaseKept(runs[r], runs'[r])

(* A row as it was keeps its lease. *)
LEMMA SameLease == ASSUME NEW row \in Row PROVE LeaseKept(row, row)
<1>1. row.lease \in Int  BY DEF Row
<1>2. ~(row.lease > row.lease)  BY SMT, <1>1
<1> QED  BY <1>2 DEF LeaseKept

(* The statements that end or requeue a run leave it no longer running. *)
LEMMA EndedLease ==
    ASSUME NEW row \in Row, NEW status \in Finished, NEW lag
    PROVE  /\ LeaseKept(row, EndedRow(row, status))
           /\ LeaseKept(row, RecoveredRow(row, lag))
<1>1. \A st : EndedRow(row, st).status = st  BY DEF EndedRow, Row
<1>2. RequeuedRow(row, lag).status = "queued"
  <2>1. \A due : [row EXCEPT !.status = "queued", !.worker = NoWorker, !.leased = FALSE,
                             !.lease = 0, !.due = due].status = "queued"
    BY DEF Row
  <2> QED  BY <2>1 DEF RequeuedRow
<1>3. RecoveredRow(row, lag).status \in {"cancelled", "failed", "queued"}
  BY <1>1, <1>2 DEF RecoveredRow
<1> QED  BY <1>1, <1>3 DEF LeaseKept, Finished

(* A cancel request and the deletion of a parent leave the lease alone, and *)
(* time only lowers it.                                                     *)
LEMMA QuietLease ==
    ASSUME NEW row \in Row
    PROVE  /\ LeaseKept(row, CancelRequested(row))
           /\ LeaseKept(row, [row EXCEPT !.parent = NoRun])
           /\ LeaseKept(row, Elapsed(row))
<1>0. row.lease \in Int  BY DEF Row
<1>1. ~(row.lease > row.lease)  BY SMT, <1>0
<1>2. CancelRequested(row).lease = row.lease
  <2>1. \A st : [row EXCEPT !.cancel = TRUE, !.status = st].lease = row.lease  BY DEF Row
  <2> QED  BY <2>1 DEF CancelRequested
<1>3. [row EXCEPT !.parent = NoRun].lease = row.lease  BY DEF Row
<1>4. ~(Elapsed(row).lease > row.lease)
  <2>1. \A d, l : [row EXCEPT !.due = d, !.lease = l].lease = l  BY DEF Row
  <2>2. Elapsed(row).lease = IF row.leased THEN Lowered(row.lease) ELSE row.lease
    BY <2>1 DEF Elapsed
  <2>3. ~(Lowered(row.lease) > row.lease)  BY SMT, <1>0, PolicyAssumption DEF Lowered
  <2> QED  BY <1>1, <2>2, <2>3
<1> QED  BY <1>1, <1>2, <1>3, <1>4 DEF LeaseKept

(* Steps of a worker other than a renewal. *)
LEMMA WorkerLeases ==
    ASSUME IInv, NEW w \in Workers,
           CycleStep(w) \/ RenewalGivesUp(w) \/ DeleteFinishedRuns(w)
    PROVE  LeasesKept
<1> USE DEF LeasesKept
<1>0. \A r \in RunIds : runs[r] \in Row  BY DEF IInv, TypeOK
<1>1. CASE RecoverExpiredLeases(w)
  <2>1. PICK lag \in Readings, batch \in SUBSET RunIds : RecoverBatch(batch, lag)
    BY <1>1, RecoveryBatch
  <2>2. "failed" \in Finished  BY DEF Finished
  <2> QED  BY <1>0, <2>1, <2>2, EndedLease, SameLease DEF RecoverBatch
<1>2. CASE ClaimNextQueued(w)
  <2>1. PICK lag \in Readings, c \in RunIds :
          /\ runs[c].status = "queued"
          /\ runs' = [runs EXCEPT ![c] = ClaimedRow(@, w, lag)]
    BY <1>2 DEF ClaimNextQueued, Claimable
  <2>2. \A r \in RunIds \ {c} : runs'[r] = runs[r]  BY <2>1 DEF IInv, TypeOK
  <2> QED  BY <1>0, <2>1, <2>2, SameLease DEF LeaseKept
<1>3. CASE DeleteFinishedRuns(w)
  <2>1. PICK old \in SUBSET RunIds :
          /\ \A r \in old : runs[r].status \in Finished
          /\ runs' = [r \in RunIds |->
                        IF r \in old THEN PurgedRow(runs[r])
                        ELSE IF runs[r].parent \in old THEN [runs[r] EXCEPT !.parent = NoRun]
                        ELSE runs[r]]
    BY <1>3 DEF DeleteFinishedRuns
  <2>2. \A r \in old : LeaseKept(runs[r], runs'[r])  BY <2>1 DEF LeaseKept, Finished
  <2> QED  BY <1>0, <2>1, <2>2, QuietLease, SameLease
<1>4. CASE StartCycleOver(w) \/ RenewalGivesUp(w)
  BY <1>0, <1>4, SameLease DEF StartCycleOver, RenewalGivesUp
<1> QED  BY <1>1, <1>2, <1>3, <1>4 DEF CycleStep

(* Steps of an execution. *)
LEMMA ExecutionLeases ==
    ASSUME IInv, NEW p \in Procs, ExecutionStep(p)
    PROVE  LeasesKept
<1> USE DEF LeasesKept
<1>0. \A r \in RunIds : runs[r] \in Row  BY DEF IInv, TypeOK
<1>1. CASE UNCHANGED runs  BY <1>0, <1>1, SameLease
<1>2. CASE CommitExecution(p)
  <2>1. PICK status \in Outcomes(p) : runs' = [runs EXCEPT ![job[p]] = EndedRow(@, status)]
    BY <1>2 DEF CommitExecution
  <2>2. status \in Finished  BY SMT DEF Outcomes, RunStatus, Finished
  <2> QED  BY <1>0, <2>1, <2>2, EndedLease, SameLease DEF IInv, TypeOK
<1>3. CASE SettleCancelled(p)
  <2>1. "cancelled" \in Finished  BY DEF Finished
  <2> QED  BY <1>0, <1>3, <2>1, EndedLease, SameLease DEF SettleCancelled
<1> QED
  BY <1>1, <1>2, <1>3
  DEF ExecutionStep, CheckBeforeLoad, LoadPayload, CheckAfterLoad, BeginTransaction,
      LoseOwnership, TransactionError, AfterRollback, QueryError, EndExecution, Goto

(* Steps of a handler that creates a run: the row was not running before. *)
LEMMA CreateLeases ==
    ASSUME IInv, NEW h \in Handlers, CreateStep(h)
    PROVE  LeasesKept
<1> USE DEF LeasesKept
<1>0. \A r \in RunIds : runs[r] \in Row  BY DEF IInv, TypeOK
<1>1. CASE UNCHANGED runs  BY <1>0, <1>1, SameLease
<1>2. CASE InsertRun(h)
  <2>1. PICK c \in RunIds :
          /\ runs[c].status = "unused"
          /\ \A r \in RunIds \ {c} : runs'[r] = runs[r]
    BY <1>2 DEF InsertRun, IInv, TypeOK
  <2> QED  BY <1>0, <2>1, SameLease DEF LeaseKept
<1> QED
  BY <1>1, <1>2
  DEF CreateStep, FindOrCreateDefault, LockAndCount, Refuse, CreateError

(* Every step but a renewal keeps the leases of running runs. *)
LEMMA NextLeases ==
    ASSUME IInv, Next, \A w \in Workers : ~RenewLease(w)
    PROVE  LeasesKept
<1>0. \A r \in RunIds : runs[r] \in Row  BY DEF IInv, TypeOK
<1>1. CASE UNCHANGED runs  BY <1>0, <1>1, SameLease DEF LeasesKept
<1>2. ASSUME NEW r \in RunIds, RequestCancel(r) PROVE LeasesKept
  <2>1. runs' = [runs EXCEPT ![r] = CancelRequested(@)]  BY <1>2 DEF RequestCancel
  <2> QED  BY <1>0, <2>1, QuietLease, SameLease DEF LeasesKept, IInv, TypeOK
<1>3. CASE Tick  BY <1>0, <1>3, QuietLease DEF Tick, LeasesKept
<1>4. ASSUME NEW h \in Handlers,
             \/ \E s \in Sources, t \in Targets :
                  \/ \E mode \in {"queue", "inline"} : RunConnector(h, s, t, mode)
                  \/ ImportItems(h, s, t)
             \/ \E r \in RunIds : RetryConnectorRun(h, r)
      PROVE  UNCHANGED runs
  BY <1>4 DEF RunConnector, ImportItems, RetryConnectorRun, Ask
<1>5. ASSUME NEW w \in Workers, CrashWorker(w) PROVE UNCHANGED runs
  BY <1>5 DEF CrashWorker
<1>6. ASSUME NEW s \in Sources, NEW status \in OperatorStatuses, SetConnector(s, status)
      PROVE  UNCHANGED runs
  BY <1>6 DEF SetConnector
<1>7. CrashServer => UNCHANGED runs  BY DEF CrashServer
<1> QED
  BY <1>1, <1>2, <1>3, <1>4, <1>5, <1>6, <1>7, WorkerLeases, ExecutionLeases, CreateLeases
  DEF Next, SaveConnector, DeleteConnector

(* A renewal that grows the lease of a running run is its own worker's: the *)
(* row names that worker, and then the copy it executes is current.         *)
LEMMA RenewalByOwner ==
    ASSUME IInv, NEW v \in Workers, RenewLease(v), NEW r \in RunIds,
           ~LeaseKept(runs[r], runs'[r])
    PROVE  /\ runs[r].worker = v /\ renewing[v]
           /\ job[v] = r /\ attempt[v] = runs[r].attempts
           /\ ~runs[r].cancel /\ runs[r].lease > -Drift
<1>1. runs[r] \in Row  BY DEF IInv, TypeOK
<1>2. runs'[r] # runs[r]  BY <1>1, SameLease
<1>3. PICK lag \in Readings : RenewMatches(job[v], v, lag)
                              /\ runs' = [runs EXCEPT ![job[v]].lease = LeaseSeconds - lag]
  BY <1>2 DEF RenewLease
<1>4. renewing[v]  BY DEF RenewLease
<1>5. job[v] = r  BY <1>2, <1>3 DEF IInv, TypeOK
<1>6. /\ runs[r].status = "running" /\ runs[r].worker = v /\ ~runs[r].cancel
      /\ runs[r].lease + lag > 0
  BY <1>3, <1>5 DEF RenewMatches, LeaseValid
<1>7. runs[r].lease > -Drift
  <2>1. runs[r].lease \in Int  BY <1>1 DEF Row
  <2> QED  BY SMT, <1>6, <2>1, PolicyAssumption DEF Readings
<1>8. attempt[v] = runs[r].attempts
  <2>1. job[v] # NoRun  BY <1>5, RunIdsAssumption
  <2> QED  BY <1>5, <1>6, <2>1 DEF IInv, CopiesAreCurrent
<1> QED  BY <1>4, <1>5, <1>6, <1>7, <1>8

(* The lease of a running run grows only by the renewal of the worker that *)
(* executes its current attempt, so a late renewal never keeps the lease   *)
(* of another worker's attempt alive.                                      *)
THEOREM LeasesExtendedByOwners == Spec => OnlyOwnersExtendLeases
<1> DEFINE Extended(r) ==
             LET w == runs[r].worker IN
               /\ runs[r].status = "running" /\ runs'[r].status = "running"
               /\ runs'[r].lease > runs[r].lease
               => /\ w \in Workers /\ renewing[w]
                  /\ job[w] = r /\ attempt[w] = runs[r].attempts
                  /\ ~runs[r].cancel /\ runs[r].lease > -Drift
<1>1. IInv /\ [Next]_vars => [\A r \in RunIds : Extended(r)]_vars
  <2> SUFFICES ASSUME IInv, Next, NEW r \in RunIds PROVE Extended(r)
    OBVIOUS
  <2>1. CASE LeaseKept(runs[r], runs'[r])  BY <2>1 DEF LeaseKept
  <2>2. CASE ~LeaseKept(runs[r], runs'[r])
    <3>1. PICK v \in Workers : RenewLease(v)  BY <2>2, NextLeases DEF LeasesKept
    <3> QED  BY <2>2, <3>1, RenewalByOwner
  <2> QED  BY <2>1, <2>2
<1> QED  BY <1>1, SpecIInv, PTL DEF Spec, OnlyOwnersExtendLeases
=============================================================================
