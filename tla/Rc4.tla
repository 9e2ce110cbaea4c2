-------------------------------- MODULE Rc4 --------------------------------
(***************************************************************************)
(* The stream cipher of the GrinchNet stations (GrinchNet.ino), over an    *)
(* alphabet of ByteCount = 2^W bytes instead of 256.  A cipher is a record:*)
(* the array S and the indices rc4_i and rc4_j of the program.             *)
(***************************************************************************)
EXTENDS Integers, Sequences

CONSTANTS
  ByteCount,  \* the number of byte values
  W           \* the bits of a byte

\* 1 << i, and x >> i.
Power[i \in 0 .. W] == IF i = 0 THEN 1 ELSE 2 * Power[i - 1]

Shifted(x) ==
  LET from[i \in 0 .. W] == IF i = 0 THEN x ELSE from[i - 1] \div 2 IN from

ASSUME Rc4Assumption == W \in Nat \ {0} /\ ByteCount = Power[W]

Byte == 0 .. ByteCount - 1

Cipher == [S : [Byte -> Byte], i : Byte, j : Byte]

\* The array of a cipher holds every byte exactly once.
IsPermutation(S) == \A a, b \in Byte : S[a] = S[b] => a = b

Swap(S, a, b) == [S EXCEPT ![a] = S[b], ![b] = S[a]]

\* The W bits of a byte, most significant first, and back.
Bits(x) == LET shifted == Shifted(x) IN [k \in 1 .. W |-> shifted[W - k] % 2]

\* Mutant: the bits are read least significant first.
FromBitsMutant(bits) == CHOOSE x \in Byte : \A k \in 1 .. W : Bits(x)[k] = bits[W + 1 - k]

FromBits(bits) == CHOOSE x \in Byte : Bits(x) = bits

Xor(x, y) == CHOOSE z \in Byte :
               \A k \in 1 .. W : Bits(z)[k] = (Bits(x)[k] + Bits(y)[k]) % 2

\* One round of the key schedule: index i, with the key repeated over S.
Schedule(state, i, key) ==
  LET j == (state.j + state.S[i] + key[(i % Len(key)) + 1]) % ByteCount
  IN  [S |-> Swap(state.S, i, j), j |-> j]

rc4_init(key) ==
  LET round[k \in 0 .. ByteCount] ==
        IF k = 0 THEN [S |-> [x \in Byte |-> x], j |-> 0]
                 ELSE Schedule(round[k - 1], k - 1, key)
  IN  [S |-> round[ByteCount].S, i |-> 0, j |-> 0]

\* The cipher after one more byte of keystream, and that byte.
Advance(c) ==
  LET i == (c.i + 1) % ByteCount
      j == (c.j + c.S[i]) % ByteCount
  IN  [S |-> Swap(c.S, i, j), i |-> i, j |-> j]

Keystream(c) == c.S[(c.S[c.i] + c.S[c.j]) % ByteCount]

\* rc4_crypt: what a byte becomes; the cipher moves on to Advance(c).
rc4_crypt(c, x) == Xor(Keystream(Advance(c)), x)
=============================================================================
