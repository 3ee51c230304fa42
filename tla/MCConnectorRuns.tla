--------------------------- MODULE MCConnectorRuns ---------------------------
(* Small instances of ConnectorRuns for TLC. *)
EXTENDS ConnectorRuns, TLC

MCOneRun == {1}
MCTwoRuns == {1, 2}
MCSymmetry == Permutations(Workers) \cup Permutations(Handlers)
=============================================================================
