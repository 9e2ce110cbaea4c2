----------------------------- MODULE Deadlines -----------------------------
(***************************************************************************)
(* What the connections of a worker expect of its timer queue: each has at *)
(* most one deadline, set Delay ago or less unless the worker is behind.   *)
(* A deadline that is started again or cancelled is forgotten; the others  *)
(* fire when they are due, never before and exactly once.                  *)
(***************************************************************************)
EXTENDS Integers

CONSTANTS Conns,   \* connections
          Delay,   \* the time a deadline gives
          Unset    \* no deadline

VARIABLES armed,   \* when the deadline of a connection was started, or Unset
          fired,   \* the connections whose deadline fired in this step
          now      \* the clock

abstractVars == <<armed, fired, now>>

Set == {c \in Conns : armed[c] # Unset}
Due == {c \in Set : now - armed[c] >= Delay}

Init == armed = [c \in Conns |-> Unset] /\ fired = {} /\ now = 0

Start(c) ==
  /\ armed' = [armed EXCEPT ![c] = now]
  /\ fired' = {} /\ UNCHANGED now

Cancel(c) ==
  /\ armed' = [armed EXCEPT ![c] = Unset]
  /\ fired' = {} /\ UNCHANGED now

Expire ==
  /\ fired' = Due
  /\ armed' = [c \in Conns |-> IF c \in Due THEN Unset ELSE armed[c]]
  /\ UNCHANGED now

Pass == now' > now /\ fired' = {} /\ UNCHANGED armed

Next ==
  \/ \E c \in Conns : Start(c) \/ Cancel(c)
  \/ Expire
  \/ Pass

Spec == Init /\ [][Next]_abstractVars
=============================================================================
