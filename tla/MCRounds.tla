----------------------------- MODULE MCRounds -----------------------------
(***************************************************************************)
(* Tournaments of three teams, with failures: one round on two threads     *)
(* that may fail twice; and a season of two rounds on one thread, the      *)
(* second cut to the best two teams, with binaries validated while it is   *)
(* on.  scene, fixed by the initial state, says which of them is played.   *)
(***************************************************************************)
EXTENDS MCTournament, TLC

VARIABLE scene

Cut == <<3, 2>>

(* One round, entered by everybody.                                        *)
OneRound ==
    /\ due' \subseteq {1}
    /\ (\E t \in Teams : binary[t] = None) => binary' # binary

(* The second thread has nothing to do, and one thing fails at most.       *)
Season == slot'[2] = FreeSlot /\ failures' <= 1

RoundsInit == Init /\ scene \in {"one round", "season"}

RoundsNext ==
    /\ Next
    /\ scene = "one round" => OneRound
    /\ scene = "season" => Season
    /\ UNCHANGED scene

RoundsSpec == RoundsInit /\ [][RoundsNext]_<< vars, scene >>

Symmetry == Permutations(Teams)
=============================================================================
