----------------------------- MODULE GrinchKey -----------------------------
(***************************************************************************)
(* isValidKey of GrinchNet.ino: the equations an approved key satisfies,   *)
(* checked on keys typed character by character (getKey).                  *)
(***************************************************************************)
EXTENDS Integers, Sequences, Bitwise

CONSTANTS
  Candidates,   \* Candidates[i]: the characters tried at position i of a key
  MaxLength     \* bound: the longest key typed

VARIABLE key    \* the key typed so far, as its character codes

Hex == 48 .. 57 \cup 65 .. 70 \cup 97 .. 102

\* The characters of "GRINCHRULES!", which the commented-out line 84 of
\* isValidKey compares with.
Template == <<71, 82, 73, 78, 67, 72, 82, 85, 76, 69, 83, 33>>

\* The program's x[i] is the sequence's element i + 1.
isValidKey(k) ==
  LET x(i) == k[i + 1]
  IN  /\ Len(k) = 16
      /\ x(0) = x(5) - 1
      /\ (x(2) ^^ 66) = 11
      /\ (x(3) ^^ x(5)) = 6
      /\ x(4) - 1 = x(11) * 2
      /\ x(5) = x(2) - 1
      /\ (x(6) ^^ x(1)) = 0
      /\ (x(7) \div 16) * (x(7) % 16) = 25
      /\ x(8) = x(2) + 3
      /\ x(9) = x(4) + 2
      /\ x(10) = x(7) - 2
      /\ (x(11) \div 16) + 16 * (x(11) % 16) = 18
      /\ \A i \in 12 .. 15 : x(i) \in Hex

Init == key = <<>>

\* getKey reads one more character; isValidKey sees the key at a newline.
TypeChar(c) ==
  /\ Len(key) < MaxLength
  /\ c \in Candidates[Len(key) + 1]
  /\ key' = Append(key, c)

Next == \E c \in 1 .. 255 : TypeChar(c)

Spec == Init /\ [][Next]_key

----------------------------------------------------------------------------
(* Properties *)

\* isValidKey approves exactly the keys that follow the template, except that
\* one letter is free as long as it is the same at both its places, and that
\* end in four hexadecimal digits.
ApprovedKeys ==
  isValidKey(key) <=>
    /\ Len(key) = 16
    /\ \A i \in (1 .. 12) \ {2, 7} : key[i] = Template[i]
    /\ key[2] = key[7]
    /\ \A i \in 13 .. 16 : key[i] \in Hex
=============================================================================
