---------------------------- MODULE JsonGrammar ----------------------------
(***************************************************************************)
(* The grammar of JSON, on sequences of bytes: the values a text may have, *)
(* none or one, as the wvalues of JsonText.                                *)
(*                                                                         *)
(* Crow departs from the grammar in five ways, and so does this module: a  *)
(* NUL ends the text, a string may hold control characters and its \u's    *)
(* are encoded one by one (a surrogate pair is not joined), a fraction or  *)
(* a signed exponent may lack its digits, and no exponent follows a lone   *)
(* zero.                                                                   *)
(***************************************************************************)
EXTENDS Integers, Sequences, SequencesExt

NUL == 0
QUOTE == 34
COMMA == 44
COLON == 58
BACKSLASH == 92
Space == {9, 10, 13, 32}
Digit == 48..57
Hex   == Digit \cup 65..70 \cup 97..102
True  == <<116, 114, 117, 101>>
False == <<102, 97, 108, 115, 101>>
Null  == <<110, 117, 108, 108>>

(* The characters that may follow a backslash, and what they stand for.    *)
Unescaped == [c \in {34, 92, 47, 98, 102, 110, 114, 116} |->
                CASE c = 98 -> 8 [] c = 102 -> 12 [] c = 110 -> 10
                  [] c = 114 -> 13 [] c = 116 -> 9 [] OTHER -> c]

(* The number a sequence of digits stands for, its sign left aside.        *)
Magnitude(digits) ==
    FoldLeft(LAMBDA n, c : IF c = 45 THEN n ELSE n * 10 + (c - 48), 0, digits)
-----------------------------------------------------------------------------
Strip(t) ==
    LET solid == {i \in DOMAIN t : t[i] \notin Space} IN
    IF solid = {} THEN <<>>
    ELSE SubSeq(t, CHOOSE i \in solid : \A j \in solid : i <= j,
                   CHOOSE i \in solid : \A j \in solid : i >= j)
Inner(s) == SubSeq(s, 2, Len(s) - 1)
Before(s, i) == SubSeq(s, 1, i - 1)
After(s, i) == SubSeq(s, i + 1, Len(s))
Bracketed(s, open, close) == Len(s) >= 2 /\ s[1] = open /\ Last(s) = close

AllDigits(s) == \A i \in DOMAIN s : s[i] \in Digit
IsWhole(s) == s # <<>> /\ AllDigits(s) /\ (s[1] = 48 => Len(s) = 1)
IsFraction(s) == s = <<>> \/ (s[1] = 46 /\ AllDigits(Tail(s)))
IsExponent(s) ==
    s = <<>> \/ (/\ Len(s) >= 2 /\ s[1] \in {69, 101}
                /\ s[2] \in Digit \cup {43, 45} /\ AllDigits(SubSeq(s, 3, Len(s))))
(* The texts of a number as [whole, fraction, exponent].                   *)
Numerals(s) ==
    {[whole |-> SubSeq(s, 1, i), rest |-> After(s, i)] :
        i \in {i \in DOMAIN s :
            \E j \in i..Len(s) :
                LET whole == SubSeq(s, 1, i)
                    fraction == SubSeq(s, i + 1, j)
                    exponent == After(s, j)
                IN /\ IsWhole(whole) /\ IsFraction(fraction) /\ IsExponent(exponent)
                   /\ ~(whole = <<48>> /\ fraction = <<>> /\ exponent # <<>>)}}
Numeral(s, n, minus) ==
    IF n.rest # <<>> THEN [t |-> "Number", d |-> s]
    ELSE [t |-> "Number", num |-> IF minus THEN -Magnitude(n.whole) ELSE Magnitude(n.whole),
          nt |-> IF minus THEN "Signed_integer" ELSE "Unsigned_integer"]
NumberValues(s) ==
    LET minus == s[1] = 45 IN
    {Numeral(s, n, minus) : n \in Numerals(IF minus THEN Tail(s) ELSE s)}

(* The characters of a string, its code points below 2^16 in UTF-8.        *)
Utf8(c) ==
    IF c < 128 THEN <<c>>
    ELSE IF c < 2048 THEN <<192 + c \div 64, 128 + (c % 64)>>
    ELSE <<224 + c \div 4096, 128 + ((c \div 64) % 64), 128 + (c % 64)>>
HexValue(c) ==
    CHOOSE n \in 0..15 : IF n < 10 THEN c = 48 + n ELSE c \in {55 + n, 87 + n}
RECURSIVE Contents(_)
Contents(s) ==
    IF s = <<>> THEN {<<>>}
    ELSE IF s[1] \notin {QUOTE, BACKSLASH} THEN {<<s[1]>> \o r : r \in Contents(Tail(s))}
    ELSE IF s[1] = QUOTE \/ Len(s) = 1 THEN {}
    ELSE IF s[2] \in DOMAIN Unescaped
    THEN {<<Unescaped[s[2]]>> \o r : r \in Contents(SubSeq(s, 3, Len(s)))}
    ELSE IF s[2] = 117 /\ Len(s) >= 6 /\ \A i \in 3..6 : s[i] \in Hex
    THEN {Utf8(FoldLeft(LAMBDA n, c : 16 * n + HexValue(c), 0, SubSeq(s, 3, 6))) \o r :
            r \in Contents(SubSeq(s, 7, Len(s)))}
    ELSE {}

RECURSIVE Values(_), Items(_), Members(_)
Values(t) ==
    LET s == Strip(t) IN
    IF s = <<>> THEN {}
    ELSE {[t |-> w[2]] : w \in {w \in {<<True, "True">>, <<False, "False">>, <<Null, "Null">>} :
                                 w[1] = s}}
         \cup NumberValues(s)
         \cup (IF ~Bracketed(s, QUOTE, QUOTE) THEN {}
               ELSE {[t |-> "String", s |-> c] : c \in Contents(Inner(s))})
         \cup (IF ~Bracketed(s, 91, 93) THEN {}
               ELSE {[t |-> "List", l |-> l] :
                       l \in IF Strip(Inner(s)) = <<>> THEN {<<>>} ELSE Items(Inner(s))})
         \cup (IF ~Bracketed(s, 123, 125) THEN {}
               ELSE {[t |-> "Object", o |-> [k \in {m[i][1] : i \in DOMAIN m} |->
                                m[CHOOSE i \in DOMAIN m : m[i][1] = k
                                    /\ \A j \in 1..(i - 1) : m[j][1] # k][2]]] :
                       m \in IF Strip(Inner(s)) = <<>> THEN {<<>>} ELSE Members(Inner(s))})
Items(t) ==
    {<<v>> : v \in Values(t)}
    \cup UNION {{<<v>> \o r : v \in Values(Before(t, i)), r \in Items(After(t, i))} :
                i \in {i \in DOMAIN t : t[i] = COMMA}}
(* A member is a key and a value.                                          *)
Keys(t) ==
    LET s == Strip(t) IN
    IF Bracketed(s, QUOTE, QUOTE) THEN Contents(Inner(s)) ELSE {}
Pairs(t) ==
    UNION {{<<k, v>> : k \in Keys(Before(t, i)), v \in Values(After(t, i))} :
            i \in {i \in DOMAIN t : t[i] = COLON}}
Members(t) ==
    {<<p>> : p \in Pairs(t)}
    \cup UNION {{<<p>> \o r : p \in Pairs(Before(t, i)), r \in Members(After(t, i))} :
                i \in {i \in DOMAIN t : t[i] = COMMA}}

(* What is read of a text.                                                 *)
UpToNul(t) ==
    IF Contains(t, NUL) THEN Before(t, CHOOSE i \in DOMAIN t :
                                t[i] = NUL /\ \A j \in 1..(i - 1) : t[j] # NUL)
    ELSE t
=============================================================================
