---------------------------- MODULE MCTournament ----------------------------
(* A small tournament of two teams for TLC.                                *)
EXTENDS Tournament

NobodyIn == [t \in Teams |-> None]
NoLimit == [r \in Rounds |-> Cardinality(Teams)]
=============================================================================
