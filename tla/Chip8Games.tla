------------------------------ MODULE Chip8Games ------------------------------
(***************************************************************************)
(* Small games for the Chip-8 machine, written as instruction words.       *)
(***************************************************************************)
EXTENDS Integers, Sequences

Assembled(words) ==
    [n \in 1..2 * Len(words) |->
        IF n % 2 = 1 THEN words[(n + 1) \div 2] \div 256
        ELSE words[n \div 2] % 256]

(* Two random bytes, combined by every operation. *)
Sum(n) == <<49408 + 255, 49664 + 255, 33056 + n, 4608>>   \* C1FF C2FF 812n 1200
SumGames == {Assembled(Sum(n)) : n \in (0..7) \cup {14}}
    \cup {Assembled(<<49408 + 255, 28928 + 200, 4608>>)}  \* C1FF 71C8 1200
SumRands == {0, 1, 2, 127, 128, 200, 254}

(* 0x200: 00E0, A000, 6102, 6203, D125, 63NN, F329, D325, D125, C1FF,       *)
(* A240, F133, F155, A240, F165, 1218: pictures, digits, memory.            *)
Picture(n) == Assembled(<<224, 40960, 24832 + 2, 25088 + 3, 53541, 25344 + n,
    62249, 54053, 53541, 49408 + 255, 41536, 61747, 61781, 41536, 61797,
    61440 + 256 * 4 + 117, 0, 4642>>)
Pictures == {Picture(n) : n \in 0..2}

(* 0x200: 2208 (call), 2208, 1204 (stay); 0x208: 3100, 1210, 7101, 2208,    *)
(* then 00EE: a function that calls itself once.                            *)
Nested == Assembled(<<8712, 8712, 4612, 0, 12544, 4624, 28929, 8712, 238>>)

(* 0x200: 6103 F115 F118 F407 3400 1206 A001 F21E 4205 ---- 5210 9210      *)
(* ---- B21E ---- 8108: a delay, skips, a jump by V0, and an instruction    *)
(* that does not exist.                                                     *)
Delay == Assembled(<<24835, 61717, 61720, 62471, 13312, 4614, 40961, 61982,
    16901, 0, 21008, 37392, 0, 45598, 0, 33032>>)

(* 0x200: F30A E39E 1200 E3A1 1200 1200: wait for a key, look at it. *)
Keyed == Assembled(<<62218, 58270, 4608, 58273, 4608, 4608>>)

Programs == {Nested, Delay}
KeyGames == {Keyed}
=============================================================================
