------------------------------ MODULE JsonText ------------------------------
(***************************************************************************)
(* crow::json (crow_all.h) on the text a client sends: load() parses it in *)
(* place into an rvalue, a wvalue is made of that, dump() and << write the *)
(* two as text again.  Characters are byte numbers.                        *)
(*                                                                         *)
(* printf's %g is not modelled: a floating-point number is read and not    *)
(* written.  boost::lexical_cast is external: it refuses an integer that   *)
(* does not fit and a floating-point text that ends with e, E, + or -.     *)
(***************************************************************************)
EXTENDS JsonGrammar, Bitwise

CONSTANTS
    Chunks,      \* of every genre of texts, the pieces they are made of
    MaxChunks,   \* bound on the pieces of a text, by genre
    Bits         \* width of an integer, for 64

VARIABLES
    genre, text, typed,
    root,        \* what load() made of the text
    told         \* [done, shown, dumped, fits]: what << and dump() made of it

vars == <<genre, text, typed, root, told>>

-----------------------------------------------------------------------------
(* Parser: each decoder takes the place it starts at and returns how far    *)
(* it read and, if it succeeds, the value.                                  *)
At(t, i) == IF i > Len(t) THEN NUL ELSE t[i]
Fail(d) == [ok |-> FALSE, at |-> d]
Done(d, v) == [ok |-> TRUE, at |-> d, v |-> v]

ws_skip(t, d) == CHOOSE e \in d..(Len(t) + 1) :
    At(t, e) \notin Space /\ \A i \in d..(e - 1) : At(t, i) \in Space

RECURSIVE StringRest(_, _, _, _)
StringRest(t, start, d, escaping) ==
    LET next == At(t, d + 1) IN
    CASE At(t, d) = QUOTE ->
            Done(d + 1, [t |-> "String", raw |-> SubSeq(t, start, d - 1),
                         escaping |-> escaping])
      [] At(t, d) = BACKSLASH /\ next = 117 ->
            IF \A k \in 2..5 : At(t, d + k) \in Hex
            THEN StringRest(t, start, d + 6, TRUE)
            ELSE Fail(CHOOSE e \in (d + 2)..(d + 5) :
                        At(t, e) \notin Hex /\ \A i \in (d + 2)..(e - 1) : At(t, i) \in Hex)
      [] At(t, d) = BACKSLASH /\ next \in DOMAIN Unescaped ->
            StringRest(t, start, d + 2, TRUE)
      [] At(t, d) = BACKSLASH /\ next \notin DOMAIN Unescaped \cup {117} ->
            Fail(d + 1)
      [] At(t, d) = NUL -> Fail(d)
      [] OTHER -> StringRest(t, start, d + 1, escaping)

decode_string(t, d) ==
    IF At(t, d) = QUOTE THEN StringRest(t, d + 1, d + 1, FALSE) ELSE Fail(d)

(* The enumerators of NumberParsingState are 0 to 7: Minus, AfterMinus,     *)
(* ZeroFirst, Digits, DigitsAfterPoints, E, DigitsAfterE and Invalid.       *)
Invalid == 7
\* Mutant: digits may follow a leading zero.
LeadingZeros(c, state) ==
    (CASE c = 48         -> <<2, 2, 3, 3, 4, 6, 6>>
       [] c \in 49..57   -> <<3, 3, 3, 3, 4, 6, 6>>
       [] c = 46         -> <<7, 7, 4, 4, 7, 7, 7>>
       [] c = 45         -> <<1, 7, 7, 7, 7, 6, 7>>
       [] c = 43         -> <<7, 7, 7, 7, 7, 6, 7>>
       [] c \in {69, 101} -> <<7, 7, 7, 5, 5, 7, 7>>)[state + 1]
NextState(c, state) ==
    (CASE c = 48         -> <<2, 2, 7, 3, 4, 6, 6>>
       [] c \in 49..57   -> <<3, 3, 7, 3, 4, 6, 6>>
       [] c = 46         -> <<7, 7, 4, 4, 7, 7, 7>>
       [] c = 45         -> <<1, 7, 7, 7, 7, 6, 7>>
       [] c = 43         -> <<7, 7, 7, 7, 7, 6, 7>>
       [] c \in {69, 101} -> <<7, 7, 7, 5, 5, 7, 7>>)[state + 1]

determine_num_type(digits) ==
    IF \E i \in DOMAIN digits : digits[i] \in {46, 69, 101} THEN "Floating_point"
    ELSE IF \E i \in DOMAIN digits : digits[i] = 45 THEN "Signed_integer"
    ELSE "Unsigned_integer"

RECURSIVE NumberRest(_, _, _, _)
NumberRest(t, start, d, state) ==
    LET c == At(t, d) IN
    IF state = Invalid THEN Fail(d - 1)
    ELSE IF c \in Digit \cup {43, 45, 46, 69, 101}
    THEN LET end == CHOOSE e \in (d + 1)..(Len(t) + 1) :
                       At(t, e) \notin Digit /\ \A i \in (d + 1)..(e - 1) : At(t, i) \in Digit
         IN NumberRest(t, start, IF c \in 49..57 THEN end ELSE d + 1, NextState(c, state))
    ELSE IF state \in {2, 3, 4, 6}
    THEN LET digits == SubSeq(t, start, d - 1) IN
         Done(d, [t |-> "Number", digits |-> digits, nt |-> determine_num_type(digits)])
    ELSE Fail(d)

RECURSIVE decode_value(_, _), ListRest(_, _, _), ObjectRest(_, _, _)
ListRest(t, d, list) ==
    LET r == decode_value(t, d)
        e == ws_skip(t, r.at)
    IN IF ~r.ok THEN r
       ELSE CASE At(t, e) = 93 -> Done(e + 1, [t |-> "List", list |-> Append(list, r.v)])
              [] At(t, e) = COMMA -> ListRest(t, ws_skip(t, e + 1), Append(list, r.v))
              [] OTHER -> Fail(e)
decode_list(t, d) ==
    LET e == ws_skip(t, d + 1) IN
    IF At(t, e) = 93 THEN Done(e + 1, [t |-> "List", list |-> <<>>])
    ELSE ListRest(t, e, <<>>)

ObjectRest(t, d, members) ==
    LET k == decode_string(t, d)
        c == ws_skip(t, k.at)
        r == decode_value(t, ws_skip(t, c + 1))
        e == ws_skip(t, r.at)
        all == Append(members, [key |-> k.v, value |-> r.v])
    IN IF ~k.ok THEN k
       ELSE IF At(t, c) # COLON THEN Fail(c)
       ELSE IF ~r.ok THEN r
       ELSE CASE At(t, e) = 125 -> Done(e + 1, [t |-> "Object", members |-> all])
              [] At(t, e) = COMMA -> ObjectRest(t, ws_skip(t, e + 1), all)
              [] OTHER -> Fail(e)
decode_object(t, d) ==
    LET e == ws_skip(t, d + 1) IN
    IF At(t, e) = 125 THEN Done(e + 1, [t |-> "Object", members |-> <<>>])
    ELSE ObjectRest(t, e, <<>>)

Word(t, d, word, type) ==
    IF \A i \in DOMAIN word : At(t, d + i - 1) = word[i]
    THEN Done(d + Len(word), [t |-> type]) ELSE Fail(d)
decode_value(t, d) ==
    LET c == At(t, d) IN
    CASE c = 91 -> decode_list(t, d)
      [] c = 123 -> decode_object(t, d)
      [] c = QUOTE -> decode_string(t, d)
      [] c = True[1] -> Word(t, d, True, "True")
      [] c = False[1] -> Word(t, d, False, "False")
      [] c = Null[1] -> Word(t, d, Null, "Null")
      [] OTHER -> NumberRest(t, d, d, 0)

(* load() and parse(): nothing but space may follow the value.             *)
load(t) ==
    LET r == decode_value(t, ws_skip(t, 1))
        e == ws_skip(t, r.at)
    IN IF r.ok /\ At(t, e) # NUL THEN Fail(e) ELSE r
-----------------------------------------------------------------------------
from_hex(c) == IF c >= 97 THEN c - 97 + 10 ELSE IF c >= 65 THEN c - 65 + 10 ELSE c - 48

Encoded(code) ==
    IF code >= 2048
    THEN <<224 | (code \div 4096), 128 | ((code \div 64) & 63), 128 | (code & 63)>>
    ELSE IF code >= 128 THEN <<192 | (code \div 64), 128 | (code & 63)>>
    ELSE <<code>>

RECURSIVE unescape(_)
unescape(s) ==
    IF s = <<>> THEN <<>>
    ELSE IF s[1] # BACKSLASH THEN <<s[1]>> \o unescape(Tail(s))
    ELSE IF s[2] = 117
    THEN Encoded(from_hex(s[3]) * 4096 + from_hex(s[4]) * 256
                 + from_hex(s[5]) * 16 + from_hex(s[6]))
         \o unescape(SubSeq(s, 7, Len(s)))
    ELSE <<Unescaped[s[2]]>> \o unescape(SubSeq(s, 3, Len(s)))

(* rvalue::s(): unescaped only if the parser saw a backslash.              *)
S(v) == IF v.escaping THEN unescape(v.raw) ELSE v.raw

to_hex(n) == IF n < 10 THEN 48 + n ELSE 97 + n - 10
escape(s) == FlattenSeq([i \in DOMAIN s |->
    LET c == s[i] IN
    CASE c \in {QUOTE, BACKSLASH} -> <<BACKSLASH, c>>
      [] c = 10 -> <<BACKSLASH, 110>> [] c = 8 -> <<BACKSLASH, 98>>
      [] c = 12 -> <<BACKSLASH, 102>> [] c = 13 -> <<BACKSLASH, 114>>
      [] c = 9 -> <<BACKSLASH, 116>>
      [] c < 32 /\ c \notin 8..10 \cup {12, 13} ->
            <<BACKSLASH, 117, 48, 48, to_hex(c \div 16), to_hex(c % 16)>>
      [] OTHER -> <<c>>])
-----------------------------------------------------------------------------
(* boost::lexical_cast of a number's text, and whether it is refused.      *)
Number(v) == (IF v.nt = "Signed_integer" THEN -1 ELSE 1) * Magnitude(v.digits)
Fits(v) ==
    CASE v.nt = "Unsigned_integer" -> Magnitude(v.digits) < 2^Bits
      [] v.nt = "Signed_integer" -> Magnitude(v.digits) <= 2^(Bits - 1)
      [] v.nt = "Floating_point" -> Last(v.digits) \notin {43, 45, 69, 101}

RECURSIVE Numbers(_)
Numbers(v) ==
    CASE v.t = "Number" -> {v}
      [] v.t = "List" -> UNION {Numbers(v.list[i]) : i \in DOMAIN v.list}
      [] v.t = "Object" -> UNION {Numbers(v.members[i].value) : i \in DOMAIN v.members}
      [] OTHER -> {}
Writable(v) == \A n \in Numbers(v) : n.nt # "Floating_point"

(* wvalue(const rvalue&): of the members with one key the first stays.     *)
RECURSIVE Wvalue(_)
Wvalue(v) ==
    CASE v.t = "Number" ->
            IF v.nt = "Floating_point" THEN [t |-> "Number", d |-> v.digits]
            ELSE [t |-> "Number", nt |-> v.nt, num |-> Number(v)]
      [] v.t = "String" -> [t |-> "String", s |-> S(v)]
      [] v.t = "List" -> [t |-> "List", l |-> [i \in DOMAIN v.list |-> Wvalue(v.list[i])]]
      [] v.t = "Object" ->
            LET Key(i) == S(v.members[i].key)
                First(k) == CHOOSE i \in DOMAIN v.members :
                    Key(i) = k /\ \A j \in 1..(i - 1) : Key(j) # k
            IN [t |-> "Object", o |-> [k \in {Key(i) : i \in DOMAIN v.members} |->
                                        Wvalue(v.members[First(k)].value)]]
      [] OTHER -> v

RECURSIVE to_string(_)
to_string(n) ==
    IF n < 0 THEN <<45>> \o to_string(-n)
    ELSE IF n < 10 THEN <<48 + n>> ELSE to_string(n \div 10) \o <<48 + (n % 10)>>
Quoted(s) == <<QUOTE>> \o s \o <<QUOTE>>
Joined(parts) == FlattenSeq([i \in DOMAIN parts |->
                    IF i = 1 THEN parts[i] ELSE <<COMMA>> \o parts[i]])
Constant(t) == CASE t = "True" -> True [] t = "False" -> False [] t = "Null" -> Null

(* dump_internal(); the order of an unordered_map is any.                  *)
RECURSIVE dump(_)
dump(w) ==
    CASE w.t = "Number" -> to_string(w.num)
      [] w.t = "String" -> Quoted(escape(w.s))
      [] w.t = "List" -> <<91>> \o Joined([i \in DOMAIN w.l |-> dump(w.l[i])]) \o <<93>>
      [] w.t = "Object" ->
            LET keys == SetToSeq(DOMAIN w.o) IN
            <<123>> \o Joined([i \in DOMAIN keys |->
                Quoted(escape(keys[i])) \o <<COLON>> \o dump(w.o[keys[i]])]) \o <<125>>
      [] OTHER -> Constant(w.t)

(* operator << of an rvalue: a key is escaped and a string is not.         *)
RECURSIVE Shown(_)
Shown(v) ==
    CASE v.t = "Number" -> to_string(Number(v))
      [] v.t = "String" -> Quoted(S(v))
      [] v.t = "List" -> <<91>> \o Joined([i \in DOMAIN v.list |-> Shown(v.list[i])]) \o <<93>>
      [] v.t = "Object" ->
            <<123>> \o Joined([i \in DOMAIN v.members |->
                Quoted(escape(S(v.members[i].key))) \o <<COLON>>
                \o Shown(v.members[i].value)]) \o <<125>>
      [] OTHER -> Constant(v.t)
-----------------------------------------------------------------------------
Nothing == [done |-> FALSE, fits |-> FALSE, shown |-> <<>>, dumped |-> <<>>]

Init == /\ genre \in DOMAIN Chunks
        /\ text = <<>> /\ typed = 0 /\ root = Fail(0) /\ told = Nothing

(* The client adds a piece, unless the parser has given up before the end. *)
Type ==
    /\ typed < MaxChunks[genre] /\ root.at = 0
    /\ typed > 0 => LET r == load(text) IN r.ok \/ r.at > Len(text)
    /\ \E c \in Chunks[genre] : text' = text \o c
    /\ typed' = typed + 1
    /\ UNCHANGED <<genre, root, told>>

Load ==
    /\ root.at = 0 /\ text # <<>>
    /\ root' = load(text)
    /\ UNCHANGED <<genre, text, typed, told>>

(* Both throw if a number does not fit.                                    *)
Write ==
    /\ root.ok /\ ~told.done /\ Writable(root.v)
    /\ LET fits == \A n \in Numbers(root.v) : Fits(n) IN
       told' = [done |-> TRUE, fits |-> fits,
                shown |-> IF fits THEN Shown(root.v) ELSE <<>>,
                dumped |-> IF fits THEN dump(Wvalue(root.v)) ELSE <<>>]
    /\ UNCHANGED <<genre, text, typed, root>>

Next == Type \/ Load \/ Write
Spec == Init /\ [][Next]_vars
-----------------------------------------------------------------------------
TypeOK ==
    /\ typed \in 0..MaxChunks[genre]
    /\ root.at \in 0..(Len(text) + 1)
    /\ told.done => root.ok

(* A text is accepted exactly when the grammar gives it a value, and then   *)
(* it has that one; the parser never looks behind the NUL that load() puts  *)
(* at the end (load_nocopy_internal, crow_all.h:1349-1733).                 *)
ReadAsWritten ==
    root.at # 0 =>
        LET meant == Values(UpToNul(text)) IN
        /\ root.ok <=> meant # {}
        /\ root.ok => Wvalue(root.v) \in meant

(* What dump() writes is read again as the same value, whatever is in its   *)
(* strings; what << writes is, exactly when no string holds a quote, a      *)
(* backslash or a NUL.  Only -0 comes back as an unsigned zero (escape and  *)
(* unescape, crow_all.h:635 and 962; operator <<, 1252).                    *)
RECURSIVE Strings(_)
Strings(v) ==
    CASE v.t = "String" -> {S(v)}
      [] v.t = "List" -> UNION {Strings(v.list[i]) : i \in DOMAIN v.list}
      [] v.t = "Object" -> UNION {Strings(v.members[i].value) : i \in DOMAIN v.members}
      [] OTHER -> {}
IsReadAs(t, w) == LET r == load(t) IN r.ok /\ Wvalue(r.v) = w
WrittenIsReadAgain ==
    told.done /\ told.fits /\ (\A n \in Numbers(root.v) : n.digits # <<45, 48>>) =>
        /\ IsReadAs(told.dumped, Wvalue(root.v))
        /\ IsReadAs(told.shown, Wvalue(root.v)) <=>
            \A s \in Strings(root.v) : \A c \in {NUL, QUOTE, BACKSLASH} : ~Contains(s, c)
=============================================================================
