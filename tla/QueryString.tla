----------------------------- MODULE QueryString -----------------------------
(***************************************************************************)
(* query_string and qs_parse (crow_all.h): the parameters of a URL, whose  *)
(* values are decoded in place, and the three ways to ask for them.        *)
(* Characters are byte numbers.  The pairs of a query do not overlap, so   *)
(* each is kept as the C string its pointer leads to.                      *)
(***************************************************************************)
EXTENDS Integers, Sequences, FiniteSets, SequencesExt

CONSTANTS
    UrlStarts,   \* what URLs start with
    UrlChunks,   \* the pieces URLs are made of
    UrlLength,   \* bound on the pieces of a URL
    Asked,       \* the names that are asked for
    MaxPairs     \* MAX_KEY_VALUE_PAIRS_COUNT

VARIABLES
    url, pieces,
    pairs,       \* key_value_pairs_: [parsed, defined, kv]
    reply        \* the last answer: [how, name, value]

vars == <<url, pieces, pairs, reply>>

(* = 61, # 35, & 38, ? 63, + 43, % 37, [ 91, ] 93                          *)
IsHex(c) == c \in 48..57 \cup 65..70 \cup 97..102
Hex2Dec(c) == IF c <= 57 THEN c - 48 ELSE IF c <= 70 THEN c - 55 ELSE c - 87
IsQsChr(c) == c \notin {61, 35, 38, 0}

Char(s, i) == IF i > Len(s) THEN 0 ELSE s[i]
Rest(s, i) == SubSeq(s, i, Len(s))
(* strcspn: how many characters come before one of those, or the end.      *)
Span(s, stops) ==
    (CHOOSE i \in 1..(Len(s) + 1) :
        Char(s, i) \in stops \cup {0} /\ \A j \in 1..(i - 1) : s[j] \notin stops \cup {0}) - 1
(* The C string at the head of the characters.                             *)
CString(s) == SubSeq(s, 1, Span(s, {}))

RECURSIVE qs_decode(_)
qs_decode(s) ==
    IF ~IsQsChr(Char(s, 1)) THEN <<>>
    ELSE IF s[1] = 43 THEN <<32>> \o qs_decode(Tail(s))
    ELSE IF s[1] # 37 THEN <<s[1]>> \o qs_decode(Tail(s))
    ELSE IF ~IsHex(Char(s, 2)) \/ ~IsHex(Char(s, 3)) THEN <<>>
    ELSE <<Hex2Dec(s[2]) * 16 + Hex2Dec(s[3])>> \o qs_decode(Rest(s, 4))

(* One character of a name or of a pair's key: the character, and how many  *)
(* bytes stand for it.                                                      *)
Unit(s) ==
    LET c == Char(s, 1) IN
    IF ~IsQsChr(c) THEN [c |-> 0, n |-> 1]
    ELSE IF c = 43 THEN [c |-> 32, n |-> 1]
    ELSE IF c # 37 THEN [c |-> c, n |-> 1]
    ELSE [c |-> IF IsHex(Char(s, 2)) /\ IsHex(Char(s, 3))
                THEN Hex2Dec(s[2]) * 16 + Hex2Dec(s[3]) ELSE 0,
          n |-> 3]
RECURSIVE Same(_, _, _)
Same(name, pair, n) ==
    IF n = 0 THEN ~IsQsChr(Char(pair, 1))
    ELSE LET u1 == Unit(name) u2 == Unit(pair) IN
         /\ u1.c = u2.c
         /\ u1.c # 0 => Same(Rest(name, 1 + u1.n), Rest(pair, 1 + u2.n), n - 1)

(* The substrings between the &, behind the first ? or #.                  *)
RECURSIVE Substrings(_)
Substrings(s) ==
    LET n == Span(s, {38}) IN
    IF n = Len(s) THEN <<s>>
    ELSE <<SubSeq(s, 1, n)>> \o Substrings(Rest(s, n + 2))

Decoded(pair) ==
    LET n == Span(pair, {61, 38, 35}) IN
    IF n = Len(pair) THEN pair
    ELSE SubSeq(pair, 1, n + 1) \o qs_decode(Rest(pair, n + 2))

(* qs_parse: with more pairs than it has room for it counts one too many,   *)
(* and decodes through the pointer behind the last one.                     *)
qs_parse(s) ==
    LET start == Span(s, {63, 35})
        subs == Substrings(Rest(s, start + 2))
    IN IF start = Len(s) THEN [parsed |-> TRUE, defined |-> TRUE, kv |-> <<>>]
       ELSE IF Len(subs) > MaxPairs THEN [parsed |-> TRUE, defined |-> FALSE, kv |-> <<>>]
       ELSE [parsed |-> TRUE, defined |-> TRUE,
             kv |-> [i \in DOMAIN subs |-> CString(Decoded(subs[i]))]]

ValueOf(pair) == Rest(pair, Span(pair, {61}) + 2)
(* qs_k2v, for every nth.                                                  *)
Matching(kv, name) == SelectSeq(kv, LAMBDA pair : Same(name, pair, Len(name)))
get(kv, name) ==
    LET all == Matching(kv, name) IN
    IF all = <<>> THEN <<>> ELSE <<ValueOf(all[1])>>
get_list(kv, name) ==
    LET all == Matching(kv, name \o <<91, 93>>) IN [i \in DOMAIN all |-> ValueOf(all[i])]

(* qs_dict_name2kv, for every nth: a pair that starts with the name but     *)
(* closes its bracket before it opens it ends the dictionary.               *)
Open(pair) == IF Contains(pair, 91) THEN Span(pair, {91}) + 1 ELSE Len(pair)
Close(pair) == Span(pair, {93})
get_dict(kv, name) ==
    LET all == SelectSeq(kv, LAMBDA pair : IsPrefix(name, pair))
        Good(i) == Open(all[i]) <= Close(all[i]) /\ Open(all[i]) > 0 /\ Close(all[i]) > 0
        count == CHOOSE n \in 0..Len(all) :
            (\A i \in 1..n : Good(i)) /\ (n < Len(all) => ~Good(n + 1))
        Key(i) == SubSeq(all[i], Open(all[i]) + 1, Close(all[i]))
        First(k) == CHOOSE i \in 1..count : Key(i) = k /\ \A j \in 1..(i - 1) : Key(j) # k
    IN [k \in {Key(i) : i \in 1..count} |-> ValueOf(all[First(k)])]
-----------------------------------------------------------------------------
Unparsed == [parsed |-> FALSE, defined |-> TRUE, kv |-> <<>>]

Init == url \in UrlStarts /\ pieces = 0 /\ pairs = Unparsed /\ reply = [how |-> "none"]

Type ==
    /\ ~pairs.parsed /\ pieces < UrlLength
    /\ \E c \in UrlChunks : url' = url \o c
    /\ pieces' = pieces + 1
    /\ UNCHANGED <<pairs, reply>>

(* query_string(url).                                                      *)
Parse ==
    /\ ~pairs.parsed
    /\ pairs' = qs_parse(url)
    /\ UNCHANGED <<url, pieces, reply>>

Ask ==
    /\ pairs.parsed /\ pairs.defined /\ reply.how = "none"
    /\ \E name \in Asked :
        \/ reply' = [how |-> "get", name |-> name, value |-> get(pairs.kv, name)]
        \/ reply' = [how |-> "get_list", name |-> name, value |-> get_list(pairs.kv, name)]
        \/ reply' = [how |-> "get_dict", name |-> name, value |-> get_dict(pairs.kv, name)]
    /\ UNCHANGED <<url, pieces, pairs>>

Next == Type \/ Parse \/ Ask
Spec == Init /\ [][Next]_vars
-----------------------------------------------------------------------------
TypeOK ==
    /\ pieces \in 0..UrlLength
    /\ pairs.parsed /\ pairs.defined => Len(pairs.kv) <= MaxPairs

(* A query is plain if its parts are key=value or key, with whole escapes   *)
(* and no fragment.  Of other ones the code takes what it can.              *)
InOrder(ns) ==
    [k \in 1..Cardinality(ns) |-> CHOOSE n \in ns : Cardinality({m \in ns : m < n}) = k - 1]
Positions(s, c) == {i \in DOMAIN s : s[i] = c}
Query == Rest(url, (CHOOSE i \in DOMAIN url :
                        url[i] \in {63, 35} /\ \A j \in 1..(i - 1) : url[j] \notin {63, 35}) + 1)
Parts ==
    LET ends == InOrder(Positions(Query, 38) \cup {0, Len(Query) + 1}) IN
    [i \in 1..(Len(ends) - 1) |-> SubSeq(Query, ends[i] + 1, ends[i + 1] - 1)]
IsPlain ==
    /\ \E i \in DOMAIN url : url[i] \in {63, 35}
    /\ Positions(Query, 35) = {}
    /\ \A i \in Positions(Query, 37) :
        i + 2 <= Len(Query) /\ IsHex(Query[i + 1]) /\ IsHex(Query[i + 2])
    /\ \A i \in DOMAIN Parts : \A p, q \in Positions(Parts[i], 61) : p = q

KeyOf(part) == IF Contains(part, 61) THEN SubSeq(part, 1, (CHOOSE i \in Positions(part, 61) : TRUE) - 1)
               ELSE part
Behind(part) == Rest(part, Len(KeyOf(part)) + 2)
(* The bytes that escapes and plus signs stand for.                        *)
Meaning(s) ==
    LET inside == {i \in DOMAIN s : \E d \in 1..2 : i - d \in Positions(s, 37)}
        At(i) == CASE s[i] = 43 -> 32
                   [] s[i] = 37 -> Hex2Dec(s[i + 1]) * 16 + Hex2Dec(s[i + 2])
                   [] OTHER -> s[i]
        units == InOrder(DOMAIN s \ inside)
    IN [i \in DOMAIN units |-> At(units[i])]
Named(name) == {i \in DOMAIN Parts : Meaning(KeyOf(Parts[i])) = name}

(* The three answers are those the query asks for: the first value of the   *)
(* name, all values of name[] in their order, and the first value of every  *)
(* name[sub], however keys and values are escaped (crow_all.h:51-242,       *)
(* 364-400).                                                                *)
AnswersFollowTheQuery ==
    reply.how # "none" /\ IsPlain =>
        LET name == reply.name
            list == InOrder(Named(name \o <<91, 93>>))
            starts == {i \in DOMAIN Parts : IsPrefix(name, Parts[i])}
            Sub(i) == SubSeq(KeyOf(Parts[i]), Len(name) + 2, Len(KeyOf(Parts[i])) - 1)
            subscripted == \A i \in starts :
                /\ KeyOf(Parts[i]) = name \o <<91>> \o Sub(i) \o <<93>>
                /\ ~Contains(Sub(i), 91) /\ ~Contains(Sub(i), 93)
        IN CASE reply.how = "get" ->
                    reply.value = IF Named(name) = {} THEN <<>>
                                  ELSE <<Meaning(Behind(Parts[InOrder(Named(name))[1]]))>>
             [] reply.how = "get_list" ->
                    reply.value = [n \in DOMAIN list |-> Meaning(Behind(Parts[list[n]]))]
             [] reply.how = "get_dict" /\ subscripted ->
                    reply.value = [k \in {Sub(i) : i \in starts} |->
                        Meaning(Behind(Parts[InOrder({i \in starts : Sub(i) = k})[1]]))]
             [] OTHER -> TRUE
=============================================================================
