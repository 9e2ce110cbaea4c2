------------------------------ MODULE ChunkStore ------------------------------
(***************************************************************************)
(* What the heap playground promises: numbered texts of a fixed size that  *)
(* can be created, changed character by character and deleted; a number is *)
(* never given twice.  The promise ends with a change at the index for     *)
(* which the playground has no positive counterpart, -Limit: where the      *)
(* length of the text does not divide it, the store may be spoiled.        *)
(***************************************************************************)
EXTENDS Integers

CONSTANTS Bytes, MaxSize, Limit

VARIABLES chunks,    \* the bytes of every text, by its number
          last,      \* the last number given
          sound      \* the store has not been spoiled

Init == chunks = [id \in {} |-> 0] /\ last = 0 /\ sound = TRUE

Unchanged(ids) == \A id \in ids : chunks'[id] = chunks[id]

Create ==
    /\ sound /\ sound'
    /\ last' = last + 1
    /\ DOMAIN chunks' = DOMAIN chunks \cup {last'}
    /\ \E size \in 1..MaxSize : chunks'[last'] \in [0..(size - 1) -> Bytes]
    /\ Unchanged(DOMAIN chunks)

Edit ==
    /\ sound /\ sound'
    /\ last' = last
    /\ DOMAIN chunks' = DOMAIN chunks
    /\ \E id \in DOMAIN chunks :
          /\ \E at \in DOMAIN chunks[id], c \in Bytes :
                chunks'[id] = [chunks[id] EXCEPT ![at] = c]
          /\ Unchanged(DOMAIN chunks \ {id})

Delete ==
    /\ sound /\ sound'
    /\ last' = last
    /\ \E id \in DOMAIN chunks : DOMAIN chunks' = DOMAIN chunks \ {id}
    /\ Unchanged(DOMAIN chunks')

(* Nothing is known of the texts any more.                                  *)
Spoil ==
    /\ sound /\ ~sound'
    /\ \E id \in DOMAIN chunks, size \in 1..MaxSize :
          DOMAIN chunks[id] = 0..(size - 1) /\ Limit % size # 0

Next == Create \/ Edit \/ Delete \/ Spoil

Spec == Init /\ [][Next]_<<chunks, last, sound>>
=============================================================================
