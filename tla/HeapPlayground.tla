---------------------------- MODULE HeapPlayground ----------------------------
(***************************************************************************)
(* heap_playground.c: a linked list of texts in memory from malloc, and    *)
(* the menu of main() that works on it.  A command reads all its lines in  *)
(* one step.  A line that sscanf cannot read leaves the variable with the   *)
(* number read before, or with what it held before the first: one of        *)
(* Numbers either way, so the variables are not part of the state.          *)
(*                                                                         *)
(* Numbers are C ints.  The most negative one has no positive counterpart, *)
(* and as an index it may lead in front of a text, into the header of the  *)
(* chunk and beyond.  From then on the chunks are not Intact, and what the *)
(* commands do depends on the layout of the memory: they are modelled up to *)
(* that moment.                                                            *)
(***************************************************************************)
EXTENDS Integers, Sequences, FiniteSets, Functions

CONSTANTS
    Addresses,    \* where malloc may put a chunk, positive numbers
    IntMin,       \* the most negative int
    Numbers,      \* the numbers that are typed
    Lines,        \* the lines that are typed as content, without zero bytes
    Chars,        \* the characters that are typed
    MaxSize,      \* MAX_SIZE
    MaxId         \* bound: glob_id stays below

ASSUME HeapAssumption ==
    /\ IsFiniteSet(Addresses) /\ Addresses \subseteq Nat \ {0}
    /\ IntMin \in Int /\ IntMin < 0 /\ Numbers \subseteq IntMin..(-IntMin - 1)
    /\ Lines \subseteq Seq(Chars) /\ MaxSize \in Nat

VARIABLES
    head, glob_id,
    memory,        \* the allocated chunks, by address; a byte that was written
                   \* in front of the text has a place below 0
    running

heapVars == <<head, glob_id, memory, running>>

Null == 0

HeapInit ==
    /\ head = Null /\ glob_id = 0 /\ memory = [a \in {} |-> 0]
    /\ running = TRUE

Allocated == DOMAIN memory

(* Nothing has been written in front of a text.                             *)
Intact == \A a \in Allocated : \A p \in DOMAIN memory[a].bytes : p >= 0

(* The addresses that the loops visit, from the first chunk on.  There are  *)
(* never more than there are addresses, unless the list has a loop.         *)
(* (CHOOSE from a set of one makes TLC evaluate the shorter list once.)     *)
Onward(l, mem) ==
    IF l = <<>> \/ l[Len(l)] \notin DOMAIN mem THEN l
    ELSE LET next == mem[l[Len(l)]].next
         IN  IF next = Null THEN l ELSE Append(l, next)

Visited(first, mem) ==
    LET From[n \in 0..Cardinality(Addresses)] ==
            IF n = 0 THEN (IF first = Null THEN <<>> ELSE <<first>>)
            ELSE CHOOSE r \in {Onward(l, mem) : l \in {From[n - 1]}} : TRUE
    IN  From[Cardinality(Addresses)]

List == Visited(head, memory)

(* find_chunk: the first of the list with that id, if it may exist at all. *)
Found(i) ==
    IF i > glob_id \/ i < 0 THEN {}
    ELSE {a \in Range(List) : memory[a].id = i}

(* strncpy into memory filled with zeros: the last byte stays 0. *)
Copied(text, n) ==
    [p \in 0..(n - 1) |-> IF p < n - 1 /\ p < Len(text) THEN text[p + 1] ELSE 0]

(* prev->next = ptr, or head = ptr *)
Link(a) ==
    IF head = Null THEN memory
    ELSE [memory EXCEPT ![List[Len(List)]].next = a]

alloc_chunk(n, text) ==
    \E a \in Addresses \ Allocated :
        /\ head' = IF head = Null THEN a ELSE head
        /\ glob_id' = glob_id + 1
        /\ memory' = [b \in Allocated \cup {a} |->
                         IF b = a THEN [id |-> glob_id + 1, size |-> n,
                                        next |-> Null, bytes |-> Copied(text, n)]
                         ELSE Link(a)[b]]

(* 1: malloc may also fail. *)
Create ==
    /\ running /\ Intact /\ glob_id < MaxId
    /\ \E size \in Numbers, text \in Lines :
          IF size > MaxSize \/ size <= 0
          THEN UNCHANGED <<head, glob_id, memory>>
          ELSE \/ alloc_chunk(size, text)
               \/ UNCHANGED <<head, glob_id, memory>>
    /\ UNCHANGED running

(* free_chunk takes the chunk out of the list, then frees it. *)
HeadWithout(a, prev) == IF prev = Null THEN memory[a].next ELSE head

NextWithout(a, prev) ==
    IF prev = Null THEN memory
    ELSE [memory EXCEPT ![prev].next = memory[a].next]

(* free_chunk: the first with that id is unlinked and freed. *)
free_chunk(i) ==
    IF Found(i) = {} THEN UNCHANGED <<head, memory>>
    ELSE LET n    == CHOOSE k \in DOMAIN List :
                        List[k] \in Found(i) /\ \A j \in 1..(k - 1) : List[j] \notin Found(i)
             a    == List[n]
             prev == IF n = 1 THEN Null ELSE List[n - 1]
         IN  /\ head' = HeadWithout(a, prev)
             /\ memory' = [b \in Allocated \ {a} |-> NextWithout(a, prev)[b]]

(* 2 *)
Delete ==
    /\ running /\ Intact
    /\ IF head = Null THEN UNCHANGED <<head, memory>>
       ELSE \E id \in Numbers : free_chunk(id)
    /\ UNCHANGED <<glob_id, running>>

(* The remainder of C has the sign of the index.                            *)
Remainder(i, n) == IF i < 0 THEN -((-i) % n) ELSE i % n

(* Mutant: the sign is not dropped.                                         *)
SignedPlace(i, n) == Remainder(i, n)

(* index = -index when negative, which leaves the most negative int what it *)
(* is (the build wraps around), and the remainder.                          *)
Place(i, n) == Remainder(IF i < 0 /\ i # IntMin THEN -i ELSE i, n)

(* memset of one byte, wherever it is. *)
Written(bytes, at, c) ==
    [p \in DOMAIN bytes \cup {at} |-> IF p = at THEN c ELSE bytes[p]]

(* 4: find_chunk, then edit_chunk. *)
Edit ==
    /\ running /\ Intact
    /\ IF head = Null THEN UNCHANGED memory
       ELSE \E id, index \in Numbers, c \in Chars :
               IF Found(id) = {} THEN UNCHANGED memory
               ELSE \E a \in Found(id) :
                       memory' = [memory EXCEPT ![a].bytes =
                           Written(@, Place(index, memory[a].size), c)]
    /\ UNCHANGED <<head, glob_id, running>>

(* 5, or the end of the input *)
Exit ==
    /\ running /\ Intact
    /\ running' = FALSE
    /\ UNCHANGED <<head, glob_id, memory>>

(* 3, print_chunk, and any other choice change nothing. *)
HeapNext == Create \/ Delete \/ Edit \/ Exit

HeapSpec == HeapInit /\ [][HeapNext]_heapVars

-----------------------------------------------------------------------------
(* Properties *)

(* A chunk has as many bytes as were asked for. *)
IsChunk(c) ==
    \E n \in 1..MaxSize :
       c \in [id : Nat \ {0}, size : {n}, next : Addresses \cup {Null},
             bytes : [0..(n - 1) -> Chars \cup {0}]]

HeapTypes ==
    /\ head \in Addresses \cup {Null} /\ glob_id \in Nat /\ running \in BOOLEAN
    /\ Allocated \subseteq Addresses /\ memory = [a \in Allocated |-> memory[a]]
    /\ \A a \in Allocated : IsChunk(memory[a]) /\ memory[a].id <= glob_id

(* The list holds exactly the chunks that are allocated, each once: no      *)
(* command leaves a pointer to freed memory, loses a chunk or makes a loop. *)
ListIsTheHeap ==
    /\ Range(List) = Allocated
    /\ Len(List) = Cardinality(Allocated)

(* A chunk's number is never another's, and later chunks stand behind.      *)
NumbersAscend ==
    \A p, q \in DOMAIN List :
        p < q => memory[List[p]].id < memory[List[q]].id

(* The texts by their numbers, as the list has them.                        *)
TextsOf(l, mem) ==
    [i \in {mem[l[k]].id : k \in DOMAIN l} |->
        mem[l[CHOOSE k \in DOMAIN l : mem[l[k]].id = i]].bytes]
Texts == TextsOf(List, memory)

Store == INSTANCE ChunkStore WITH
    Bytes <- Chars \cup {0}, Limit <- -IntMin,
    chunks <- Texts, last <- glob_id, sound <- Intact

(* The text is the beginning of the line, a zero behind it, whatever the    *)
(* size; only edit_chunk writes the last byte.                              *)
FreshTextEnds ==
    \A a \in DOMAIN memory' : glob_id' # glob_id /\ memory'[a].id = glob_id'
        => memory'[a].bytes[memory'[a].size - 1] = 0

(* The list with its pointers and reused memory is a store of numbered      *)
(* texts: every command creates, edits or deletes one text or none, the     *)
(* list holds exactly the allocated chunks in ascending order, and a text   *)
(* that was created has a zero behind it (heap_playground.c:40-105).  It is *)
(* one until an edit with the most negative index meets a text whose length *)
(* does not divide that number, the way solution/exploit.py:69-75 goes; no  *)
(* other command and no other index harms the list.                         *)
StoreSpec ==
    /\ [](Intact => HeapTypes /\ ListIsTheHeap /\ NumbersAscend)
    /\ Store!Spec
    /\ [][FreshTextEnds]_heapVars
=============================================================================
