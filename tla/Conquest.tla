------------------------------ MODULE Conquest ------------------------------
(***************************************************************************)
(* What the galaxy promises, with ships, flights and turns left out: who   *)
(* holds which star and which stars are linked.  A star is never given up, *)
(* it only changes sides; a link joins two commanders of one side and      *)
(* falls with either of its stars.  Galaxy implements this specification.  *)
(***************************************************************************)
CONSTANTS Stars, Commanders, None, Side

VARIABLES owner, links

abstractVars == << owner, links >>

Held == {s \in Stars : owner[s] # None}

(* Every commander starts with one star of his own.                        *)
Init ==
    /\ owner \in [Stars -> Commanders \cup {None}]
    /\ \A c \in Commanders :
         \E s \in Stars : \A t \in Stars : owner[t] = c <=> t = s
    /\ links = {}

(* Commander c takes star s from the other side, or from nobody.           *)
Capture(s, c) ==
    /\ s \in Held => Side[owner[s]] # Side[c]
    /\ owner' = [owner EXCEPT ![s] = c]
    /\ links' = {l \in links : l[1] # s /\ l[2] # s}

(* The first ships of one commander reach a star of an ally.               *)
Ally(s, t) ==
    /\ s \in Held /\ t \in Held
    /\ owner[s] # owner[t]
    /\ Side[owner[s]] = Side[owner[t]]
    /\ links' = links \cup {<<s, t>>, <<t, s>>}
    /\ UNCHANGED owner

Next ==
    \/ \E s \in Stars, c \in Commanders : Capture(s, c)
    \/ \E s, t \in Stars : Ally(s, t)

Spec == Init /\ [][Next]_abstractVars
=============================================================================
