----------------------------- MODULE JsonBuilder -----------------------------
(***************************************************************************)
(* The wvalues (crow_all.h) of an application that builds an answer: two   *)
(* of them, x and y, assigned, indexed and moved, and what dump() writes   *)
(* of them.  Lists and objects hold scalars only.                          *)
(*                                                                         *)
(* A number is kept in a union, [as, n], and nt says which member it is;   *)
(* moving a wvalue copies the union and leaves nt alone.                   *)
(***************************************************************************)
EXTENDS Integers, Sequences

CONSTANTS
    Names,       \* of wvalues
    Scalars,     \* what is assigned: records [t] or [t, as, n]
    Fields,      \* keys of an object
    MaxItems,    \* bound on the items of a list
    MaxCalls     \* bound on the calls of a behaviour

VARIABLES
    calls_,      \* history: how many calls were made
    w,           \* each wvalue: [self, l, cap, o], its own scalar part, its
                 \* items and the capacity of their vector, and its members
    dumped       \* the last dump: [of, self, l, o], or [of |-> "nothing"]

vars == <<calls_, w, dumped>>

(* A scalar part: t_, nt and num, and two histories: the scalar meant, and *)
(* whether it got there by a move.                                         *)
Null == [t |-> "Null"]
Fresh == [t |-> "Null", nt |-> "Null", as |-> "ui", n |-> 0,
          meant |-> Null, moved |-> FALSE]
Member(nt) == CASE nt = "Floating_point" -> "d" [] nt = "Signed_integer" -> "si"
                [] OTHER -> "ui"
Type(as) == CASE as = "d" -> "Floating_point" [] as = "si" -> "Signed_integer"
              [] as = "ui" -> "Unsigned_integer"

(* operator = of a constant, a number or a string.                         *)
\* Mutant: a number is assigned without saying what it is.
AssignedUntyped(e, s) ==
    IF s.t = "Number"
    THEN [e EXCEPT !.t = "Number", !.as = s.as, !.n = s.n, !.meant = s, !.moved = FALSE]
    ELSE [e EXCEPT !.t = s.t, !.meant = s, !.moved = FALSE]
Assigned(e, s) ==
    IF s.t = "Number"
    THEN [t |-> "Number", nt |-> Type(s.as), as |-> s.as, n |-> s.n,
          meant |-> s, moved |-> FALSE]
    ELSE [e EXCEPT !.t = s.t, !.meant = s, !.moved = FALSE]
(* operator = (wvalue&&).                                                  *)
Received(e, r) ==
    [e EXCEPT !.t = r.t, !.as = r.as, !.n = r.n, !.meant = r.meant, !.moved = TRUE]
Cleared(e) == Assigned(e, Null)

Empty == [self |-> Fresh, l |-> <<>>, cap |-> 0, o |-> <<>>]

Init == /\ calls_ = 0
        /\ w = [x \in Names |-> Empty]
        /\ dumped = [of |-> "nothing"]

Calls == calls_ < MaxCalls /\ calls_' = calls_ + 1
Set(x, v) == Calls /\ w' = [w EXCEPT ![x] = v] /\ dumped' = [of |-> "nothing"]
Typed(v, t) == [v EXCEPT !.self.t = t, !.self.meant = [t |-> t], !.self.moved = FALSE]

(* reset() drops the list and the object; an element keeps its number.     *)
Reset(v) == [Empty EXCEPT !.self = Cleared(v.self)]

AssignScalar(x) ==
    \E s \in Scalars : Set(x, [Reset(w[x]) EXCEPT !.self = Assigned(w[x].self, s)])

(* vector::resize: a larger vector is filled by moves, wvalue's copies     *)
(* being deleted.                                                          *)
Resized(v, size) ==
    LET old == Len(v.l)
        grown == size > v.cap
        Kept(e) == IF grown THEN Received(Fresh, e) ELSE e
    IN IF size <= old THEN v
       ELSE [v EXCEPT !.l = [i \in 1..size |-> IF i <= old THEN Kept(v.l[i]) ELSE Fresh],
                      !.cap = IF ~grown THEN @
                              ELSE old + (IF old > size - old THEN old ELSE size - old)]

AsList(v) == Typed(IF v.self.t = "List" THEN v ELSE Reset(v), "List")
AsObject(v) == Typed(IF v.self.t = "Object" THEN v ELSE Reset(v), "Object")

(* x[i] = s.                                                               *)
AssignItem(x) ==
    \E i \in 1..MaxItems, s \in Scalars :
        LET v == Resized(AsList(w[x]), i) IN
        Set(x, [v EXCEPT !.l[i] = Assigned(@, s)])

(* x = a vector of two wvalues, and x = a vector of two T's.               *)
AssignWvalues(x) ==
    \E s \in Scalars :
        LET v == Resized([AsList(w[x]) EXCEPT !.l = <<>>], 2) IN
        Set(x, [v EXCEPT !.l = [i \in 1..2 |-> Received(@[i], Assigned(Fresh, s))]])
AssignVector(x) ==
    \E s \in Scalars :
        LET v == Resized([AsList(w[x]) EXCEPT !.l = <<>>], 2) IN
        Set(x, [v EXCEPT !.l = [i \in 1..2 |-> Assigned(@[i], s)]])

(* x[key] = s.                                                             *)
AssignField(x) ==
    \E k \in Fields, s \in Scalars :
        LET v == AsObject(w[x])
            old == IF k \in DOMAIN v.o THEN v.o[k] ELSE Fresh
        IN Set(x, [v EXCEPT !.o = [f \in {k} \cup DOMAIN @ |->
                                    IF f = k THEN Assigned(old, s) ELSE @[f]]])

(* x = std::move(y): y keeps its type and number, not its list or object.  *)
Left(e) == [e EXCEPT !.meant = [t |-> "anything"]]
Move(x, y) ==
    /\ x # y /\ Calls
    /\ w' = [w EXCEPT ![x] = [w[y] EXCEPT !.self = Received(w[x].self, w[y].self)],
                      ![y] = [Empty EXCEPT !.self = Left(w[y].self)]]
    /\ dumped' = [of |-> "nothing"]

(* x.clear().                                                              *)
Clear(x) == Set(x, Reset(w[x]))

(* What is written of a scalar.  The bits of one member read as another    *)
(* are some other number, but for an int64_t that is not negative.         *)
Written(e) ==
    IF e.t # "Number" THEN [t |-> e.t]
    ELSE LET real == Member(e.nt) = "d"
             exact == \/ Member(e.nt) = e.as
                      \/ ~real /\ e.as # "d" /\ e.n >= 0
         IN [t |-> "Number", real |-> real, exact |-> exact, n |-> IF exact THEN e.n ELSE 0]

Dump(x) ==
    /\ dumped' = [of |-> x, self |-> Written(w[x].self),
                  l |-> [i \in DOMAIN w[x].l |-> Written(w[x].l[i])],
                  o |-> [k \in DOMAIN w[x].o |-> Written(w[x].o[k])]]
    /\ UNCHANGED <<calls_, w>>

Next ==
    \E x \in Names :
        \/ AssignScalar(x) \/ AssignItem(x) \/ AssignField(x)
        \/ AssignWvalues(x) \/ AssignVector(x)
        \/ Clear(x) \/ Dump(x)
        \/ \E y \in Names : Move(x, y)

Spec == Init /\ [][Next]_vars
-----------------------------------------------------------------------------
TypeOK ==
    /\ calls_ \in 0..MaxCalls
    /\ \A x \in Names :
        /\ Len(w[x].l) <= w[x].cap
        /\ w[x].l # <<>> => w[x].self.t = "List"
        /\ DOMAIN w[x].o # {} => w[x].self.t = "Object"

(* What is written is what was meant, except for a number that was moved    *)
(* since, as every item of a list is when an index makes its vector grow:   *)
(* it is written as the member of the union that nt happens to name         *)
(* (operator = (wvalue&&), crow_all.h:1803-1816; dump_internal, 2073).      *)
IsMeant(e, out) ==
    LET s == e.meant IN
    CASE s.t = "anything" -> TRUE
      [] s.t = "Number" -> \/ out = [t |-> "Number", real |-> s.as = "d",
                                     exact |-> TRUE, n |-> s.n]
                           \/ e.moved /\ out.t = "Number"
      [] OTHER -> out.t = s.t
DumpIsMeant ==
    dumped.of # "nothing" =>
        LET v == w[dumped.of] IN
        /\ IsMeant(v.self, dumped.self)
        /\ DOMAIN dumped.l = DOMAIN v.l /\ DOMAIN dumped.o = DOMAIN v.o
        /\ \A i \in DOMAIN v.l : IsMeant(v.l[i], dumped.l[i])
        /\ \A k \in DOMAIN v.o : IsMeant(v.o[k], dumped.o[k])
=============================================================================
