----------------------------- MODULE JsonHandles -----------------------------
(***************************************************************************)
(* The rvalues (crow_all.h) made of one loaded object: all of them point   *)
(* into the same text, which s() unescapes in place the first time a       *)
(* string is read, and each keeps its own end of the string and its own    *)
(* order of the members.  The object's values are strings.                 *)
(*                                                                         *)
(* Copies are assumed to be dropped before the loaded object, which owns   *)
(* the text, and rvalues to be used by one thread.                         *)
(***************************************************************************)
EXTENDS Integers, Sequences, SequencesExt

CONSTANTS
    Handles,     \* rvalues an application keeps
    Loaded,      \* the one that load() returned
    Keys,        \* the keys of the members, in the order of the text
    Raw          \* the strings of the members as they stand in the text

VARIABLES
    chars, flag,    \* of each member: its place in the text, and the byte
                    \* before it: is there anything to unescape
    ends,           \* of each handle, the end_ of each member; <<>>: no handle
    order, cached,  \* of each handle, the order of its members, cached_bit
    answer_,        \* the last answer: [asked, got, ...]
    behind          \* history: <<handle, member>> copied before another
                    \* handle read the member first

vars == <<chars, flag, ends, order, cached, answer_, behind>>

Escape == 92
Members == DOMAIN Raw
Used(h) == ends[h] # <<>>

Init ==
    /\ chars = Raw
    /\ flag = [m \in Members |-> Contains(Raw[m], Escape)]
    /\ ends = [h \in Handles |-> IF h = Loaded THEN [m \in Members |-> Len(Raw[m])] ELSE <<>>]
    /\ order = [h \in Handles |-> [m \in Members |-> m]]
    /\ cached = [h \in Handles |-> FALSE]
    /\ answer_ = [asked |-> "nothing"]
    /\ behind = {}

(* The text of a string with one character for each escape.                *)
RECURSIVE unescape(_)
unescape(s) ==
    IF s = <<>> THEN <<>>
    ELSE IF s[1] # Escape THEN <<s[1]>> \o unescape(Tail(s))
    ELSE <<IF s[2] = 110 THEN 10 ELSE s[2]>> \o unescape(SubSeq(s, 3, Len(s)))

(* What stays of the raw text behind the shorter one, and the NUL between. *)
Shortened(s, n) ==
    LET short == unescape(SubSeq(s, 1, n)) IN
    short \o <<0>> \o SubSeq(s, Len(short) + 2, Len(s))

(* s() of the members ms through one handle: the others keep their ends.   *)
Read(h, ms) ==
    LET first == {m \in ms : flag[m]}
        new == [m \in Members |-> IF m \in first THEN Shortened(chars[m], ends[h][m])
                                  ELSE chars[m]]
        end == [m \in Members |->
                    IF m \in first THEN Len(unescape(SubSeq(chars[m], 1, ends[h][m])))
                    ELSE ends[h][m]]
    IN /\ chars' = new
       /\ flag' = [m \in Members |-> flag[m] /\ m \notin first]
       /\ ends' = [ends EXCEPT ![h] = end]
       /\ answer_' = [asked |-> "strings", of |-> h,
                      got |-> [m \in ms |-> SubSeq(new[m], 1, end[m])]]
       /\ behind' = behind \cup {<<g, m>> : g \in {g \in Handles \ {h} : Used(g)}, m \in first}

(* member.s(), or a comparison with a string.                              *)
ReadOne(h) ==
    /\ Used(h)
    /\ \E m \in Members : Read(h, {m})
    /\ UNCHANGED <<order, cached>>

(* operator <<, or a wvalue made of the whole.                             *)
ReadAll(h) ==
    /\ Used(h)
    /\ Read(h, Members)
    /\ UNCHANGED <<order, cached>>

(* A copy is deep but for the text (copy_l).                               *)
Copy(h, g) ==
    /\ Used(h) /\ g # h /\ g # Loaded
    /\ ends' = [ends EXCEPT ![g] = ends[h]]
    /\ order' = [order EXCEPT ![g] = order[h]]
    /\ cached' = [cached EXCEPT ![g] = cached[h]]
    /\ behind' = {b \in behind : b[1] # g} \cup {<<g, b[2]>> : b \in {b \in behind : b[1] = h}}
    /\ answer_' = [asked |-> "nothing"]
    /\ UNCHANGED <<chars, flag>>

Orders == {p \in [Members -> Members] : \A i, j \in Members : p[i] = p[j] => i = j}
InOrder(p) == \A i, j \in Members : i < j => Keys[p[i]] <= Keys[p[j]]

(* has(key) and operator [](key): std::sort once, then lower_bound.        *)
Find(h, key) ==
    /\ Used(h)
    /\ \E p \in Orders :
        /\ IF cached[h] THEN p = order[h] ELSE InOrder(p)
        /\ order' = [order EXCEPT ![h] = p]
        /\ LET at == CHOOSE i \in 1..(Len(Keys) + 1) :
                        /\ i > Len(Keys) \/ Keys[p[i]] >= key
                        /\ \A j \in 1..(i - 1) : Keys[p[j]] < key
           IN answer_' = [asked |-> "key", key |-> key,
                          found |-> IF at <= Len(Keys) /\ Keys[p[at]] = key
                                    THEN {p[at]} ELSE {}]
    /\ cached' = [cached EXCEPT ![h] = TRUE]
    /\ UNCHANGED <<chars, flag, ends, behind>>

Next ==
    \/ \E h \in Handles : ReadOne(h) \/ ReadAll(h)
    \/ \E h, g \in Handles : Copy(h, g)
    \/ \E h \in Handles, key \in {Keys[m] : m \in Members} \cup {0} : Find(h, key)

Spec == Init /\ [][Next]_vars
-----------------------------------------------------------------------------
TypeOK ==
    /\ DOMAIN chars = Members /\ flag \in [Members -> BOOLEAN]
    /\ \A h \in Handles : Used(h) =>
        \A m \in Members : ends[h][m] \in 0..Len(Raw[m]) /\ Len(chars[m]) = Len(Raw[m])
    /\ order \in [Handles -> Orders] /\ cached \in [Handles -> BOOLEAN]

Meant(m) == unescape(Raw[m])

(* Through whatever handle and as often as a string is read, it is the one  *)
(* of the text, unless the handle is a copy made before another one read it *)
(* first: then the old end shows the NUL and the rest of the raw text       *)
(* behind it (unescape, crow_all.h:962-1025).                               *)
StringsAreMeant ==
    answer_.asked = "strings" =>
        \A m \in DOMAIN answer_.got :
            IF <<answer_.of, m>> \in behind
            THEN IsPrefix(Append(Meant(m), 0), answer_.got[m])
            ELSE answer_.got[m] = Meant(m)

(* A member with the key is found whenever there is one, however the        *)
(* handle was copied, sorted or printed before (has, crow_all.h:1044).      *)
KeysAreFound ==
    answer_.asked = "key" =>
        LET with == {m \in Members : Keys[m] = answer_.key} IN
        /\ answer_.found \subseteq with
        /\ with # {} => answer_.found # {}
=============================================================================
