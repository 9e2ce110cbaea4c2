-------------------------- MODULE GrinchNetProofs --------------------------
(***************************************************************************)
(* A conversation between two GrinchNet stations stays in step.            *)
(*                                                                         *)
(* The bits of a byte name it (BitsDecide, BitsMakeAByte), so the cipher   *)
(* undoes itself (CryptTwice); the key schedule and the keystream keep the *)
(* array of the cipher a permutation.  With that, the invariant says where *)
(* the bits of the byte on the wire are: printed, at the listener, on DATA *)
(* or still at the sender (Raised, Held, Lowered, Between), and who may    *)
(* take the next step.  Behind a newline both stations drive the wires, and *)
(* the new sender may have begun its pulse (Turning, Overlap).             *)
(***************************************************************************)
EXTENDS GrinchNet, SequenceTheorems, WellFoundedInduction, NaturalsInduction,
        TLAPS

-----------------------------------------------------------------------------
(* Counting up                                                             *)

LEMMA SmallestNat ==
    ASSUME NEW T, T \subseteq Nat, T # {}
    PROVE  \E m \in T : \A n \in T : m <= n
<1>1. PICK m \in T : \A n \in T : ~ (<< n, m >> \in OpToRel(<, Nat))
  BY WFMin, NatLessThanWellFounded
<1>2. \A n \in T : ~ (n < m)
  BY <1>1 DEF OpToRel
<1>. QED  BY <1>2

(* A set that holds 0, and with a number the next, holds 0..n.              *)
LEMMA CountUp ==
    ASSUME NEW n \in Nat, NEW Q, 0 \in Q,
           \A k \in 1..n : k - 1 \in Q => k \in Q
    PROVE  \A k \in 0..n : k \in Q
<1>. DEFINE T == {k \in 0..n : k \notin Q}
<1>. SUFFICES ASSUME T # {} PROVE FALSE
  OBVIOUS
<1>1. T \subseteq Nat
  OBVIOUS
<1>2. PICK m \in T : \A k \in T : m <= k
  <2>. HIDE DEF T
  <2>. QED  BY <1>1, SmallestNat
<1>3. m # 0 /\ m \in 1..n
  BY <1>2
<1>4. m - 1 \in 0..n /\ m - 1 \notin T
  BY <1>2, <1>3
<1>. QED  BY <1>3, <1>4

(* A rule for each round makes a function of the rounds.                    *)
Follows(f, c, n, g) == f[0] = c /\ \A k \in 1..n : f[k] = g[k][f[k - 1]]

LEMMA Rounds ==
    ASSUME NEW T, NEW c \in T, NEW n \in Nat, NEW g \in [1..n -> [T -> T]]
    PROVE  \E f \in [0..n -> T] : Follows(f, c, n, g)
<1>. DEFINE Good(m) == \E f \in [0..m -> T] :
                         f[0] = c /\ \A k \in 1..m : f[k] = g[k][f[k - 1]]
            Q == {m \in 0..n : Good(m)}
<1>1. 0 \in Q
  <2>. DEFINE f == [k \in 0..0 |-> c]
  <2>1. f \in [0..0 -> T] /\ f[0] = c /\ \A k \in 1..0 : f[k] = g[k][f[k - 1]]
    OBVIOUS
  <2>2. Good(0)
    <3>. HIDE DEF f
    <3>. QED  BY <2>1
  <2>. QED  BY <2>2
<1>2. ASSUME NEW m \in 1..n, m - 1 \in Q PROVE m \in Q
  <2>1. PICK f \in [0..(m - 1) -> T] :
          f[0] = c /\ \A k \in 1..(m - 1) : f[k] = g[k][f[k - 1]]
    BY <1>2
  <2>. DEFINE h == [k \in 0..m |-> IF k = m THEN g[m][f[m - 1]] ELSE f[k]]
  <2>2. g[m][f[m - 1]] \in T
    BY <2>1
  <2>3. h \in [0..m -> T]
    BY <2>1, <2>2
  <2>4. h[0] = c
    BY <2>1
  <2>5. ASSUME NEW k \in 1..m PROVE h[k] = g[k][h[k - 1]]
    <3>1. k - 1 \in 0..m /\ k - 1 # m /\ k \in 0..m
      OBVIOUS
    <3>2. h[k - 1] = f[k - 1]
      BY <3>1
    <3>3. CASE k = m
      BY <3>2, <3>3
    <3>4. CASE k # m
      <4>1. k \in 1..(m - 1)
        BY <3>4
      <4>2. h[k] = f[k] /\ f[k] = g[k][f[k - 1]]
        BY <2>1, <3>4, <4>1
      <4>. QED  BY <3>2, <4>2
    <3>. QED  BY <3>3, <3>4
  <2>6. Good(m)
    <3>. HIDE DEF h
    <3>. QED  BY <2>3, <2>4, <2>5
  <2>7. m \in 0..n
    OBVIOUS
  <2>. HIDE DEF Good
  <2>. QED  BY <2>6, <2>7
<1>3. \A k \in 0..n : k \in Q
  <2>. HIDE DEF Q
  <2>. QED  BY <1>1, <1>2, CountUp
<1>4. Good(n)
  BY <1>3
<1>. QED  BY <1>4 DEF Follows

-----------------------------------------------------------------------------
(* The bits of a byte                                                      *)

LEMMA Powers ==
    /\ W \in Nat /\ W >= 1
    /\ Power[0] = 1
    /\ \A k \in 1..W : Power[k] = 2 * Power[k - 1]
    /\ \A k \in 0..W : Power[k] \in Nat \ {0}
    /\ ByteCount = Power[W] /\ ByteCount \in Nat \ {0}
<1>1. W \in Nat /\ W >= 1 /\ ByteCount = Power[W]
  BY Rc4Assumption
<1>. DEFINE Step(f) == [i \in 0..W |-> IF i = 0 THEN 1 ELSE 2 * f[i - 1]]
            g == [k \in 1..W |-> [x \in Nat |-> 2 * x]]
<1>2. PICK f \in [0..W -> Nat] : Follows(f, 1, W, g)
  <2>1. g \in [1..W -> [Nat -> Nat]]
    OBVIOUS
  <2>2. 1 \in Nat
    OBVIOUS
  <2>. HIDE DEF g
  <2>. QED  BY <1>1, <2>1, <2>2, Rounds, Zenon
<1>3. f = Step(f)
  <2>1. ASSUME NEW k \in 0..W PROVE f[k] = Step(f)[k]
    <3>1. CASE k = 0
      BY <1>2, <3>1 DEF Follows
    <3>2. CASE k # 0
      <4>1. k \in 1..W /\ k - 1 \in 0..W
        BY <1>1, <3>2
      <4>2. f[k - 1] \in Nat /\ f[k] = g[k][f[k - 1]]
        BY <1>2, <4>1 DEF Follows
      <4>. QED  BY <3>2, <4>1, <4>2
    <3>. QED  BY <3>1, <3>2
  <2>. QED  BY <2>1
<1>4. Power = Step(Power)
  <2>1. Power = CHOOSE h : h = Step(h)
    BY DEF Power
  <2>. HIDE DEF Step
  <2>. QED  BY <1>3, <2>1
<1>5. Power[0] = 1 /\ \A k \in 1..W : Power[k] = 2 * Power[k - 1]
  <2>1. \A k \in 0..W : Power[k] = Step(Power)[k]
    BY <1>4
  <2>. HIDE DEF Power
  <2>. QED  BY <1>1, <2>1
<1>6. \A k \in 0..W : Power[k] \in Nat \ {0}
  <2>. HIDE DEF Power
  <2>. DEFINE Q == {k \in 0..W : Power[k] \in Nat \ {0}}
  <2>1. 0 \in Q
    BY <1>1, <1>5
  <2>2. \A k \in 1..W : k - 1 \in Q => k \in Q
    BY <1>1, <1>5
  <2>3. \A k \in 0..W : k \in Q
    <3>. HIDE DEF Q
    <3>. QED  BY <1>1, <2>1, <2>2, CountUp
  <2>. QED  BY <2>3
<1>7. ByteCount \in Nat \ {0}
  BY <1>1, <1>6
<1>. QED  BY <1>1, <1>5, <1>6, <1>7

LEMMA Shifts ==
    ASSUME NEW x \in Nat
    PROVE  /\ Shifted(x)[0] = x
           /\ \A k \in 1..W : Shifted(x)[k] = Shifted(x)[k - 1] \div 2
           /\ \A k \in 0..W : Shifted(x)[k] \in Nat
<1>1. W \in Nat
  BY Powers
<1>. DEFINE Step(f) == [i \in 0..W |-> IF i = 0 THEN x ELSE f[i - 1] \div 2]
            g == [k \in 1..W |-> [y \in Nat |-> y \div 2]]
            s == Shifted(x)
<1>2. PICK f \in [0..W -> Nat] : Follows(f, x, W, g)
  <2>1. g \in [1..W -> [Nat -> Nat]]
    OBVIOUS
  <2>. HIDE DEF g
  <2>. QED  BY <1>1, <2>1, Rounds, Zenon
<1>3. f = Step(f)
  <2>1. ASSUME NEW k \in 0..W PROVE f[k] = Step(f)[k]
    <3>1. CASE k = 0
      BY <1>2, <3>1 DEF Follows
    <3>2. CASE k # 0
      <4>1. k \in 1..W /\ k - 1 \in 0..W
        BY <1>1, <3>2
      <4>2. f[k - 1] \in Nat /\ f[k] = g[k][f[k - 1]]
        BY <1>2, <4>1 DEF Follows
      <4>. QED  BY <3>2, <4>1, <4>2
    <3>. QED  BY <3>1, <3>2
  <2>. QED  BY <2>1
<1>4. s = Step(s)
  <2>1. s = CHOOSE h : h = Step(h)
    BY DEF Shifted
  <2>. HIDE DEF Step
  <2>. QED  BY <1>3, <2>1
<1>5. s[0] = x /\ \A k \in 1..W : s[k] = s[k - 1] \div 2
  <2>1. \A k \in 0..W : s[k] = Step(s)[k]
    BY <1>4
  <2>. HIDE DEF s
  <2>. QED  BY <1>1, <2>1
<1>6. \A k \in 0..W : s[k] \in Nat
  <2>. HIDE DEF s
  <2>. DEFINE Q == {k \in 0..W : s[k] \in Nat}
  <2>1. 0 \in Q
    BY <1>1, <1>5
  <2>2. \A k \in 1..W : k - 1 \in Q => k \in Q
    BY <1>1, <1>5
  <2>3. \A k \in 0..W : k \in Q
    <3>. HIDE DEF Q
    <3>. QED  BY <1>1, <2>1, <2>2, CountUp
  <2>. QED  BY <2>3
<1>. QED  BY <1>5, <1>6

LEMMA BitsTypes ==
    ASSUME NEW x \in Nat
    PROVE  /\ Bits(x) \in [1..W -> {0, 1}] /\ Bits(x) \in Seq({0, 1})
           /\ Len(Bits(x)) = W /\ Bits(x) # <<>>
           /\ \A k \in 1..W : Bits(x)[k] = Shifted(x)[W - k] % 2
<1>1. W \in Nat /\ W >= 1
  BY Powers
<1>2. Bits(x) = [k \in 1..W |-> Shifted(x)[W - k] % 2]
  BY DEF Bits
<1>3. \A k \in 1..W : Shifted(x)[W - k] % 2 \in {0, 1}
  <2>. TAKE k \in 1..W
  <2>1. W - k \in 0..W
    BY <1>1
  <2>2. Shifted(x)[W - k] \in Nat
    BY <2>1, Shifts
  <2>. QED  BY <2>2
<1>. QED  BY <1>1, <1>2, <1>3

(* A byte that is shifted k times has W - k bits.                           *)
LEMMA ShiftsShrink ==
    ASSUME NEW x \in Byte
    PROVE  x \in Nat /\ \A k \in 0..W : Shifted(x)[k] < Power[W - k]
<1>1. W \in Nat /\ x \in Nat
  BY Powers DEF Byte
<1>. DEFINE Q == {k \in 0..W : Shifted(x)[k] < Power[W - k]}
<1>2. 0 \in Q
  <2>1. x < Power[W]
    BY Powers DEF Byte
  <2>. QED  BY <1>1, <2>1, Shifts
<1>3. ASSUME NEW k \in 1..W, k - 1 \in Q PROVE k \in Q
  <2>1. k - 1 \in 0..W /\ k \in 0..W /\ W - k \in 0..W /\ W - (k - 1) \in 1..W
        /\ (W - (k - 1)) - 1 = W - k
    BY <1>1
  <2>2. Power[W - (k - 1)] = 2 * Power[W - k] /\ Power[W - k] \in Nat
    BY <2>1, Powers
  <2>3. Shifted(x)[k] = Shifted(x)[k - 1] \div 2 /\ Shifted(x)[k - 1] \in Nat
    BY <1>1, <2>1, Shifts
  <2>4. Shifted(x)[k - 1] < Power[W - (k - 1)]
    BY <1>3
  <2>5. \A s, p \in Nat : s < 2 * p => s \div 2 < p
    OBVIOUS
  <2>6. Shifted(x)[k] < Power[W - k]
    BY <2>2, <2>3, <2>4, <2>5
  <2>. QED  BY <2>1, <2>6
<1>4. \A k \in 0..W : k \in Q
  <2>. HIDE DEF Q
  <2>. QED  BY <1>1, <1>2, <1>3, CountUp
<1>. QED  BY <1>1, <1>4

(* The bits of a byte name it.                                              *)
LEMMA BitsDecide ==
    ASSUME NEW x \in Byte, NEW y \in Byte, Bits(x) = Bits(y)
    PROVE  x = y
<1>1. W \in Nat /\ x \in Nat /\ y \in Nat /\ Power[0] = 1
  BY Powers DEF Byte
<1>. DEFINE Q == {k \in 0..W : Shifted(x)[W - k] = Shifted(y)[W - k]}
<1>2. 0 \in Q
  <2>1. W \in 0..W /\ W - W = 0
    BY <1>1
  <2>2. Shifted(x)[W] < 1 /\ Shifted(y)[W] < 1
    BY <1>1, <2>1, ShiftsShrink
  <2>3. Shifted(x)[W] \in Nat /\ Shifted(y)[W] \in Nat
    BY <1>1, <2>1, Shifts
  <2>. QED  BY <1>1, <2>2, <2>3
<1>3. ASSUME NEW k \in 1..W, k - 1 \in Q PROVE k \in Q
  <2>1. W - k \in 0..W /\ W - (k - 1) \in 1..W /\ (W - (k - 1)) - 1 = W - k
    BY <1>1
  <2>2. Shifted(x)[W - (k - 1)] = Shifted(y)[W - (k - 1)]
    BY <1>3
  <2>3. /\ Shifted(x)[W - (k - 1)] = Shifted(x)[W - k] \div 2
        /\ Shifted(y)[W - (k - 1)] = Shifted(y)[W - k] \div 2
        /\ Shifted(x)[W - k] \in Nat /\ Shifted(y)[W - k] \in Nat
    BY <1>1, <2>1, Shifts
  <2>4. Shifted(x)[W - k] % 2 = Shifted(y)[W - k] % 2
    BY <1>1, BitsTypes
  <2>5. \A s, t \in Nat : s \div 2 = t \div 2 /\ s % 2 = t % 2 => s = t
    OBVIOUS
  <2>6. Shifted(x)[W - k] = Shifted(y)[W - k]
    BY <2>2, <2>3, <2>4, <2>5
  <2>. QED  BY <1>1, <2>6
<1>4. \A k \in 0..W : k \in Q
  <2>. HIDE DEF Q
  <2>. QED  BY <1>1, <1>2, <1>3, CountUp
<1>5. W \in 0..W /\ W - W = 0
  BY <1>1
<1>6. Shifted(x)[0] = Shifted(y)[0]
  BY <1>4, <1>5
<1>. QED  BY <1>1, <1>6, Shifts

LEMMA DecodeBits ==
    ASSUME NEW x \in Byte
    PROVE  FromBits(Bits(x)) = x
BY BitsDecide DEF FromBits

(* Any W bits are those of a byte.                                          *)
LEMMA BitsMakeAByte ==
    ASSUME NEW b \in [1..W -> {0, 1}]
    PROVE  \E x \in Byte : Bits(x) = b
<1>1. W \in Nat /\ Power[0] = 1 /\ ByteCount = Power[W] /\ ByteCount \in Nat
  BY Powers
<1>. DEFINE g == [k \in 1..W |-> [v \in Nat |-> 2 * v + b[k]]]
<1>2. PICK f \in [0..W -> Nat] : Follows(f, 0, W, g)
  <2>1. g \in [1..W -> [Nat -> Nat]]
    OBVIOUS
  <2>2. 0 \in Nat
    OBVIOUS
  <2>. HIDE DEF g
  <2>. QED  BY <1>1, <2>1, <2>2, Rounds, Zenon
<1>3. f[0] = 0 /\ \A k \in 1..W : f[k] = 2 * f[k - 1] + b[k]
  <2>1. ASSUME NEW k \in 1..W PROVE f[k] = 2 * f[k - 1] + b[k]
    <3>1. k - 1 \in 0..W /\ f[k - 1] \in Nat /\ b[k] \in {0, 1}
      BY <1>1
    <3>2. f[k] = g[k][f[k - 1]]
      BY <1>2 DEF Follows
    <3>. QED  BY <3>1, <3>2
  <2>. QED  BY <1>2, <2>1 DEF Follows
<1>. HIDE DEF g
<1>4. \A k \in 0..W : f[k] < Power[k]
  <2>. DEFINE Q == {k \in 0..W : f[k] < Power[k]}
  <2>1. 0 \in Q
    BY <1>1, <1>3
  <2>2. ASSUME NEW k \in 1..W, k - 1 \in Q PROVE k \in Q
    <3>1. k - 1 \in 0..W /\ k \in 0..W
      BY <1>1
    <3>2. f[k - 1] \in Nat /\ f[k] = 2 * f[k - 1] + b[k] /\ b[k] \in {0, 1}
      BY <1>3, <3>1
    <3>3. Power[k] = 2 * Power[k - 1] /\ Power[k - 1] \in Nat
      BY <3>1, Powers
    <3>4. f[k - 1] < Power[k - 1]
      BY <2>2
    <3>. QED  BY <3>1, <3>2, <3>3, <3>4
  <2>3. \A k \in 0..W : k \in Q
    <3>. HIDE DEF Q
    <3>. QED  BY <1>1, <2>1, <2>2, CountUp
  <2>. QED  BY <2>3
<1>5. f[W] \in Byte /\ f[W] \in Nat
  BY <1>1, <1>4 DEF Byte
<1>6. \A i \in 0..W : Shifted(f[W])[i] = f[W - i]
  <2>. DEFINE Q == {i \in 0..W : Shifted(f[W])[i] = f[W - i]}
  <2>1. 0 \in Q
    BY <1>1, <1>5, Shifts
  <2>2. ASSUME NEW i \in 1..W, i - 1 \in Q PROVE i \in Q
    <3>1. W - (i - 1) \in 1..W /\ (W - (i - 1)) - 1 = W - i /\ W - i \in 0..W
      BY <1>1
    <3>2. Shifted(f[W])[i] = f[W - (i - 1)] \div 2
      BY <1>5, <2>2, Shifts
    <3>3. /\ f[W - (i - 1)] = 2 * f[W - i] + b[W - (i - 1)]
          /\ b[W - (i - 1)] \in {0, 1} /\ f[W - i] \in Nat
      BY <1>3, <3>1
    <3>4. \A v \in Nat : \A u \in {0, 1} : (2 * v + u) \div 2 = v
      OBVIOUS
    <3>5. f[W - (i - 1)] \div 2 = f[W - i]
      BY <3>3, <3>4
    <3>6. Shifted(f[W])[i] = f[W - i]
      BY <3>2, <3>5
    <3>. QED  BY <1>1, <3>6
  <2>3. \A i \in 0..W : i \in Q
    <3>. HIDE DEF Q
    <3>. QED  BY <1>1, <2>1, <2>2, CountUp
  <2>. QED  BY <2>3
<1>7. ASSUME NEW k \in 1..W PROVE Bits(f[W])[k] = b[k]
  <2>1. W - k \in 0..W /\ W - (W - k) = k /\ k - 1 \in 0..W
    BY <1>1
  <2>2. Bits(f[W])[k] = f[k] % 2
    <3>1. Shifted(f[W])[W - k] = f[W - (W - k)]
      BY <1>6, <2>1
    <3>2. Bits(f[W])[k] = Shifted(f[W])[W - k] % 2
      BY <1>5, BitsTypes
    <3>. QED  BY <2>1, <3>1, <3>2
  <2>3. f[k] = 2 * f[k - 1] + b[k] /\ f[k - 1] \in Nat /\ b[k] \in {0, 1}
    BY <1>3, <2>1
  <2>4. \A v \in Nat : \A u \in {0, 1} : (2 * v + u) % 2 = u
    OBVIOUS
  <2>. QED  BY <2>2, <2>3, <2>4
<1>8. Bits(f[W]) \in [1..W -> {0, 1}]
  BY <1>5, BitsTypes
<1>9. Bits(f[W]) = b
  <2>1. Bits(f[W]) = [k \in 1..W |-> Bits(f[W])[k]] /\ b = [k \in 1..W |-> b[k]]
    BY <1>8
  <2>. QED  BY <1>7, <2>1
<1>. QED  BY <1>5, <1>9

LEMMA XorBits ==
    ASSUME NEW x \in Byte, NEW y \in Byte
    PROVE  /\ Xor(x, y) \in Byte
           /\ \A k \in 1..W : Bits(Xor(x, y))[k] = (Bits(x)[k] + Bits(y)[k]) % 2
<1>. DEFINE b == [k \in 1..W |-> (Bits(x)[k] + Bits(y)[k]) % 2]
<1>1. Bits(x) \in [1..W -> {0, 1}] /\ Bits(y) \in [1..W -> {0, 1}]
  BY Powers, BitsTypes DEF Byte
<1>2. b \in [1..W -> {0, 1}]
  BY <1>1
<1>3. PICK z \in Byte : Bits(z) = b
  <2>. HIDE DEF b
  <2>. QED  BY <1>2, BitsMakeAByte
<1>4. \A k \in 1..W : Bits(z)[k] = (Bits(x)[k] + Bits(y)[k]) % 2
  BY <1>3
<1>. QED  BY <1>4 DEF Xor

(* What a byte of keystream did, it undoes.                                 *)
LEMMA XorTwice ==
    ASSUME NEW x \in Byte, NEW y \in Byte
    PROVE  Xor(x, Xor(x, y)) = y
<1>1. Xor(x, y) \in Byte /\ Xor(x, Xor(x, y)) \in Byte
  BY XorBits
<1>. DEFINE z == Xor(x, y)
            u == Xor(x, z)
<1>2. /\ Bits(x) \in [1..W -> {0, 1}] /\ Bits(y) \in [1..W -> {0, 1}]
      /\ Bits(u) \in [1..W -> {0, 1}]
  BY <1>1, Powers, BitsTypes DEF Byte
<1>3. ASSUME NEW k \in 1..W PROVE Bits(u)[k] = Bits(y)[k]
  <2>1. Bits(z)[k] = (Bits(x)[k] + Bits(y)[k]) % 2
    BY XorBits
  <2>2. Bits(u)[k] = (Bits(x)[k] + Bits(z)[k]) % 2
    BY <1>1, XorBits
  <2>3. \A a, b \in {0, 1} : (a + ((a + b) % 2)) % 2 = b
    OBVIOUS
  <2>4. Bits(x)[k] \in {0, 1} /\ Bits(y)[k] \in {0, 1}
    BY <1>2
  <2>. QED  BY <2>1, <2>2, <2>3, <2>4
<1>4. Bits(u) = Bits(y)
  <2>. HIDE DEF u
  <2>1. /\ Bits(u) = [k \in 1..W |-> Bits(u)[k]]
        /\ Bits(y) = [k \in 1..W |-> Bits(y)[k]]
    BY <1>2
  <2>. QED  BY <1>3, <2>1
<1>. QED  BY <1>1, <1>4, BitsDecide

-----------------------------------------------------------------------------
(* The cipher                                                              *)

LEMMA ModByte == \A x \in Nat : x % ByteCount \in Byte
BY Powers DEF Byte

LEMMA ByteIsNat == Byte \subseteq Nat /\ 0 \in Byte
BY Powers DEF Byte

LEMMA SwapKeeps ==
    ASSUME NEW S \in [Byte -> Byte], IsPermutation(S),
           NEW a \in Byte, NEW b \in Byte
    PROVE  Swap(S, a, b) \in [Byte -> Byte] /\ IsPermutation(Swap(S, a, b))
<1>1. Swap(S, a, b) = [x \in Byte |-> IF x = b THEN S[a] ELSE IF x = a THEN S[b] ELSE S[x]]
  BY DEF Swap
<1>2. Swap(S, a, b) \in [Byte -> Byte]
  BY <1>1
<1>3. ASSUME NEW x \in Byte, NEW y \in Byte, Swap(S, a, b)[x] = Swap(S, a, b)[y]
      PROVE  x = y
  <2>1. \A u, v \in Byte : S[u] = S[v] => u = v
    BY DEF IsPermutation
  <2>. QED  BY <1>1, <1>3, <2>1
<1>. QED  BY <1>2, <1>3 DEF IsPermutation

(* Every state of the key schedule.                                         *)
Shuffled == {st \in [S : [Byte -> Byte], j : Byte] : IsPermutation(st.S)}

LEMMA ScheduleKeeps ==
    ASSUME NEW st \in Shuffled, NEW i \in Byte, NEW k \in Seq(Nat) \ {<<>>}
    PROVE  Schedule(st, i, k) \in Shuffled
<1>1. /\ st.S \in [Byte -> Byte] /\ st.j \in Byte /\ IsPermutation(st.S)
      /\ i \in Nat /\ st.S[i] \in Byte
  BY ByteIsNat DEF Shuffled
<1>2. k[(i % Len(k)) + 1] \in Nat
  <2>1. Len(k) \in Nat /\ Len(k) # 0
    OBVIOUS
  <2>2. (i % Len(k)) + 1 \in 1..Len(k)
    BY <1>1, <2>1
  <2>. QED  BY <2>2
<1>. DEFINE j == (st.j + st.S[i] + k[(i % Len(k)) + 1]) % ByteCount
<1>3. j \in Byte
  <2>1. st.j \in Nat /\ st.S[i] \in Nat
    BY <1>1, ByteIsNat
  <2>2. \A a, b, c \in Nat : a + b + c \in Nat
    OBVIOUS
  <2>3. st.j + st.S[i] + k[(i % Len(k)) + 1] \in Nat
    BY <1>2, <2>1, <2>2
  <2>. QED  BY <2>3, ModByte
<1>4. Schedule(st, i, k) = [S |-> Swap(st.S, i, j), j |-> j]
  BY DEF Schedule
<1>. HIDE DEF j
<1>5. Swap(st.S, i, j) \in [Byte -> Byte] /\ IsPermutation(Swap(st.S, i, j))
  BY <1>1, <1>3, SwapKeeps
<1>. QED  BY <1>3, <1>4, <1>5 DEF Shuffled

LEMMA InitShuffles ==
    ASSUME NEW k \in Seq(Nat) \ {<<>>}
    PROVE  rc4_init(k) \in Cipher /\ IsPermutation(rc4_init(k).S)
<1>1. ByteCount \in Nat
  BY Powers
<1>. DEFINE first == [S |-> [x \in Byte |-> x], j |-> 0]
            Step(f) == [i \in 0..ByteCount |-> IF i = 0 THEN first
                                       ELSE Schedule(f[i - 1], i - 1, k)]
            g == [i \in 1..ByteCount |-> [st \in Shuffled |-> Schedule(st, i - 1, k)]]
            round == CHOOSE f : f = Step(f)
<1>2. first \in Shuffled
  BY ByteIsNat DEF Shuffled, IsPermutation
<1>. HIDE DEF first
<1>3. \A i \in 1..ByteCount : i - 1 \in 0..ByteCount /\ i - 1 \in Byte
  BY <1>1 DEF Byte
<1>4. PICK f \in [0..ByteCount -> Shuffled] : Follows(f, first, ByteCount, g)
  <2>1. g \in [1..ByteCount -> [Shuffled -> Shuffled]]
    BY <1>3, ScheduleKeeps
  <2>. HIDE DEF g
  <2>. QED  BY <1>1, <1>2, <2>1, Rounds, Zenon
<1>5. f = Step(f)
  <2>1. ASSUME NEW i \in 0..ByteCount PROVE f[i] = Step(f)[i]
    <3>1. CASE i = 0
      BY <1>4, <3>1 DEF Follows
    <3>2. CASE i # 0
      <4>1. i \in 1..ByteCount /\ i - 1 \in 0..ByteCount
        BY <1>1, <3>2
      <4>2. f[i - 1] \in Shuffled /\ f[i] = g[i][f[i - 1]]
        BY <1>4, <4>1 DEF Follows
      <4>. QED  BY <3>2, <4>1, <4>2
    <3>. QED  BY <3>1, <3>2
  <2>. QED  BY <2>1
<1>6. round = Step(round)
  <2>. HIDE DEF Step
  <2>. QED  BY <1>5
<1>7. rc4_init(k) = [S |-> round[ByteCount].S, i |-> 0, j |-> 0]
  BY DEF rc4_init, first
<1>. HIDE DEF round
<1>8. round[0] = first /\ \A i \in 1..ByteCount : round[i] = Schedule(round[i - 1], i - 1, k)
  <2>1. \A i \in 0..ByteCount : round[i] = Step(round)[i]
    BY <1>6
  <2>. QED  BY <1>1, <2>1
<1>9. round[ByteCount] \in Shuffled
  <2>. DEFINE Q == {i \in 0..ByteCount : round[i] \in Shuffled}
  <2>1. 0 \in Q
    BY <1>1, <1>2, <1>8
  <2>2. ASSUME NEW i \in 1..ByteCount, i - 1 \in Q PROVE i \in Q
    <3>1. round[i] = Schedule(round[i - 1], i - 1, k)
      BY <1>8
    <3>2. i - 1 \in Byte /\ round[i - 1] \in Shuffled
      BY <1>3, <2>2
    <3>. QED  BY <3>1, <3>2, ScheduleKeeps
  <2>3. \A i \in 0..ByteCount : i \in Q
    <3>. HIDE DEF Q
    <3>. QED  BY <1>1, <2>1, <2>2, CountUp
  <2>. QED  BY <1>1, <2>3
<1>. QED  BY <1>7, <1>9, ByteIsNat DEF Shuffled, Cipher

LEMMA AdvanceShuffles ==
    ASSUME NEW c \in Cipher, IsPermutation(c.S)
    PROVE  Advance(c) \in Cipher /\ IsPermutation(Advance(c).S)
<1>. DEFINE i == (c.i + 1) % ByteCount
            j == (c.j + c.S[i]) % ByteCount
<1>1. c.S \in [Byte -> Byte] /\ c.i \in Byte /\ c.j \in Byte
  BY DEF Cipher
<1>2. i \in Byte
  BY <1>1, ByteIsNat, ModByte
<1>. HIDE DEF i
<1>3. j \in Byte
  <2>1. c.j \in Nat /\ c.S[i] \in Nat
    BY <1>1, <1>2, ByteIsNat
  <2>. QED  BY <2>1, ModByte
<1>4. Advance(c) = [S |-> Swap(c.S, i, j), i |-> i, j |-> j]
  BY DEF Advance, i
<1>. HIDE DEF j
<1>5. Swap(c.S, i, j) \in [Byte -> Byte] /\ IsPermutation(Swap(c.S, i, j))
  BY <1>1, <1>2, <1>3, SwapKeeps
<1>. QED  BY <1>2, <1>3, <1>4, <1>5 DEF Cipher

(* The listener's cipher undoes what the sender's did.                      *)
LEMMA CryptTwice ==
    ASSUME NEW c \in Cipher, IsPermutation(c.S), NEW x \in Byte
    PROVE  /\ rc4_crypt(c, x) \in Byte
           /\ rc4_crypt(c, rc4_crypt(c, x)) = x
<1>. DEFINE d == Advance(c)
            k == Keystream(d)
<1>1. d \in Cipher
  BY AdvanceShuffles
<1>. HIDE DEF d
<1>2. d.S \in [Byte -> Byte] /\ d.i \in Byte /\ d.j \in Byte
  BY <1>1 DEF Cipher
<1>3. k \in Byte
  <2>1. d.S[d.i] \in Nat /\ d.S[d.j] \in Nat
    BY <1>2, ByteIsNat
  <2>2. \A a, b \in Nat : a + b \in Nat
    OBVIOUS
  <2>3. (d.S[d.i] + d.S[d.j]) % ByteCount \in Byte
    BY <2>1, <2>2, ModByte
  <2>. QED  BY <1>2, <2>3 DEF Keystream
<1>. HIDE DEF k
<1>4. \A y : rc4_crypt(c, y) = Xor(k, y)
  BY DEF rc4_crypt, k, d
<1>. QED  BY <1>3, <1>4, XorBits, XorTwice
-----------------------------------------------------------------------------
(* The phases of a byte                                                    *)

(* s sends and r listens.                                                   *)
Sending(s, r) ==
    /\ ~expecting[s] /\ output[s] /\ expecting[r] /\ ~output[r]
    /\ signal[r] = 0 /\ serial[r] = <<>> /\ heard[s] = said[r]

(* Nothing is on its way, and r has printed what s typed.                   *)
AllHeard(s, r) == /\ bits[s] = <<>> /\ bits[r] = <<>> /\ signal[s] = 0
                  /\ cipher[s] = cipher[r] /\ heard[r] = said[s]

(* The pulses of a byte that s took from the operator and r has not printed.*)
Code(s, r) == Bits(rc4_crypt(cipher[r], byte[s]))

InByte(s, r) ==
    /\ Sending(s, r) /\ serial[s] = <<>>
    /\ cipher[s] = Advance(cipher[r]) /\ said[s] = Append(heard[r], byte[s])

Quiet(s, r) ==
    /\ Sending(s, r) /\ AllHeard(s, r) /\ Len(serial[s]) <= 1
    /\ pc[s] = "loop" /\ pc[r] = "loop"

(* The pulse has begun, and r does not know it yet.                         *)
Raised(s, r) ==
    /\ InByte(s, r) /\ pc[s] = "high" /\ pc[r] = "loop"
    /\ signal[s] = 1 /\ wait[s] > 0
    /\ (bits[r] \o <<data[s]>>) \o bits[s] = Code(s, r)

(* r has read the bit; the pulse goes on.                                   *)
Held(s, r) ==
    /\ InByte(s, r) /\ pc[s] = "high" /\ pc[r] = "hold"
    /\ signal[s] = 1 /\ bits[r] \o bits[s] = Code(s, r)

(* The pulse has ended, and r does not know it yet.                         *)
Lowered(s, r) ==
    /\ InByte(s, r) /\ pc[s] = "low" /\ pc[r] = "hold"
    /\ signal[s] = 0 /\ wait[s] = D /\ bits[r] \o bits[s] = Code(s, r)

(* r waits for the next pulse of the byte.                                  *)
Between(s, r) ==
    /\ InByte(s, r) /\ pc[s] = "low" /\ pc[r] = "loop"
    /\ signal[s] = 0 /\ bits[r] \o bits[s] = Code(s, r) /\ bits[s] # <<>>

(* r has printed the byte; s is still in the delay after the last pulse.    *)
Printed(s, r) ==
    /\ Sending(s, r) /\ AllHeard(s, r) /\ serial[s] = <<>>
    /\ pc[s] = "low" /\ pc[r] = "loop" /\ ~Turns(byte[s])

(* The byte was a newline: r drives the wires too.  When its operator has   *)
(* typed, s has begun its last delay before that.                           *)
Turning(s, r) ==
    /\ ~expecting[s] /\ output[s] /\ ~expecting[r] /\ output[r]
    /\ signal[r] = 0 /\ Len(serial[r]) <= 1 /\ heard[s] = said[r]
    /\ AllHeard(s, r) /\ serial[s] = <<>>
    /\ pc[s] = "low" /\ pc[r] = "loop" /\ Turns(byte[s])
    /\ calm[r] \/ serial[r] # <<>> => wait[s] < D

(* s has begun a byte while r is in its last delay behind a newline: the    *)
(* pulse outlasts the delay.                                                *)
Overlap(s, r) ==
    /\ ~expecting[s] /\ output[s] /\ ~expecting[r] /\ output[r]
    /\ signal[s] = 1 /\ signal[r] = 0 /\ serial[s] = <<>> /\ serial[r] = <<>>
    /\ pc[s] = "high" /\ pc[r] = "low" /\ bits[r] = <<>> /\ Turns(byte[r])
    /\ wait[r] < wait[s] /\ heard[s] = said[r]
    /\ cipher[s] = Advance(cipher[r]) /\ said[s] = Append(heard[r], byte[s])
    /\ (bits[r] \o <<data[s]>>) \o bits[s] = Code(s, r)

Talking(s, r) ==
    \/ Quiet(s, r) \/ Raised(s, r) \/ Held(s, r) \/ Lowered(s, r)
    \/ Between(s, r) \/ Printed(s, r) \/ Turning(s, r) \/ Overlap(s, r)

(* Before that: the stations are set up one after the other.                *)
Untouched(b) ==
    /\ pc[b] \in {"role", "key", "loop"} /\ signal[b] = 0
    /\ bits[b] = <<>> /\ serial[b] = <<>> /\ said[b] = <<>> /\ heard[b] = <<>>
    /\ pc[b] # "loop" => ~output[b] /\ key[b] = NoKey
    /\ pc[b] = "loop" => /\ ~expecting[b] /\ output[b]
                         /\ key[b] \in Approved /\ cipher[b] = rc4_init(key[b])

SettingUp(s, r) ==
    /\ Untouched(s) /\ Untouched(r) /\ pc[r] # "loop"
    /\ pc[s] # "role" /\ pc[r] # "role" => expecting[s] # expecting[r]

(* The two stations are s and r.                                            *)
Pair(s, r) == s \in Stations /\ r \in Stations /\ s # r /\ Stations = {s, r}

Conversation ==
    /\ NetTypeOK
    /\ \E s, r \in Stations : Pair(s, r) /\ (SettingUp(s, r) \/ Talking(s, r))

-----------------------------------------------------------------------------
(* Wires and bits                                                          *)

LEMMA PairFacts ==
    ASSUME NEW s, NEW r, Pair(s, r)
    PROVE  /\ s \in Stations /\ r \in Stations /\ s # r /\ Stations = {s, r}
           /\ Other(s) = r /\ Other(r) = s
BY DEF Pair, Other

LEMMA ThereIsAPair == \E s, r \in Stations : Pair(s, r)
BY NetAssumption DEF Pair

LEMMA Constants == D \in Nat /\ D >= 1 /\ NoKey \notin Approved
BY NetAssumption DEF NoKey

(* One station drives a wire: the other one reads its level.                *)
LEMMA OneDriver ==
    ASSUME NEW s, NEW r, Pair(s, r), output[s], ~output[r],
           NEW level \in [Stations -> {0, 1}]
    PROVE  Reads(level) = {level[s]}
<1>1. {b \in Stations : output[b]} = {s}
  BY PairFacts
<1>2. {level[b] : b \in {b \in Stations : output[b]}} = {level[s]}
  BY <1>1
<1>3. level[s] \in {0, 1}
  BY PairFacts
<1>. QED  BY <1>2, <1>3 DEF Reads

(* The first bit still to be written goes on the wire, and to the listener. *)
LEMMA TakeBit ==
    ASSUME NEW T, NEW a \in Seq(T), NEW b \in Seq(T), b # <<>>
    PROVE  (a \o <<Head(b)>>) \o Tail(b) = a \o b
OBVIOUS

LEMMA AppendBit ==
    ASSUME NEW T, NEW a \in Seq(T), NEW x \in T
    PROVE  /\ Append(a, x) = a \o <<x>> /\ Append(a, x) \in Seq(T)
           /\ Len(Append(a, x)) = Len(a) + 1
OBVIOUS

LEMMA BitCount ==
    ASSUME NEW T, NEW a \in Seq(T), NEW b \in Seq(T)
    PROVE  /\ Len(a \o b) = Len(a) + Len(b) /\ Len(a) \in Nat /\ Len(b) \in Nat
           /\ b = <<>> => a \o b = a
           /\ a = <<>> => a \o b = b
           /\ Len(b) = 0 => b = <<>>
OBVIOUS

LEMMA RestOf ==
    ASSUME NEW T, NEW a \in Seq(T), a # <<>>
    PROVE  /\ Head(a) \in T /\ Tail(a) \in Seq(T) /\ Len(Tail(a)) = Len(a) - 1
           /\ Len(a) \in Nat /\ Len(a) >= 1
           /\ Len(a) <= 1 => Tail(a) = <<>>
OBVIOUS

-----------------------------------------------------------------------------
(* Who may take the next step                                              *)

(* The guards of the steps.                                                 *)
Move(b) ==
    \/ pc[b] \in {"role", "key"} /\ Setup(b)
    \/ pc[b] = "loop" /\ ~expecting[b] /\ serial[b] # <<>> /\ SendByte(b)
    \/ pc[b] = "high" /\ wait[b] = 0 /\ Lower(b)
    \/ pc[b] = "low" /\ wait[b] = 0 /\ bits[b] # <<>> /\ NextBit(b)
    \/ pc[b] = "low" /\ wait[b] = 0 /\ bits[b] = <<>> /\ EndOfByte(b)
    \/ pc[b] = "loop" /\ expecting[b] /\ 1 \in Reads(signal) /\ SeeHigh(b)
    \/ pc[b] = "hold" /\ 0 \in Reads(signal) /\ SeeLow(b)
    \/ /\ pc[b] = "loop" /\ ~expecting[b] /\ serial[b] = <<>> /\ calm[b]
       /\ \E x \in Byte : Type(b, x)

LEMMA Moves ==
    ASSUME Prompted, NEW s, NEW r, Pair(s, r), NetNext
    PROVE  Move(s) \/ Move(r) \/ Tick
<1>1. ASSUME NEW b \in Stations, Setup(b) PROVE Move(b)
  BY <1>1 DEF Move, Setup, InitConnection, EnterKey
<1>2. ASSUME NEW b \in Stations, Send(b) PROVE Move(b)
  BY <1>2 DEF Move, Send, SendByte, Lower, NextBit, EndOfByte
<1>3. ASSUME NEW b \in Stations, Receive(b) PROVE Move(b)
  BY <1>3 DEF Move, Receive, SeeHigh, SeeLow
<1>4. ASSUME NEW b \in Stations, NEW x \in Byte, Type(b, x) PROVE Move(b)
  <2>1. pc[b] = "loop" /\ ~expecting[b] /\ serial[b] = <<>> /\ calm[b]
    BY <1>4 DEF Type
  <2>. QED  BY <1>4, <2>1 DEF Move
<1>5. Tick \/ \E b \in Stations : Move(b)
  BY <1>1, <1>2, <1>3, <1>4 DEF NetNext
<1>. QED  BY <1>5, PairFacts

(* In the phases of a byte that has not been printed, SIGNAL has the level  *)
(* of the sender.                                                           *)
LEMMA SignalIsRead ==
    ASSUME NEW s, NEW r, Pair(s, r), NetTypeOK, Sending(s, r)
    PROVE  Reads(signal) = {signal[s]} /\ Reads(data) = {data[s]}
BY OneDriver DEF NetTypeOK, Sending

LEMMA QuietMoves ==
    ASSUME Prompted, NEW s, NEW r, Pair(s, r), NetTypeOK, Quiet(s, r), NetNext
    PROVE  SendByte(s) \/ (\E x \in Byte : serial[s] = <<>> /\ Type(s, x)) \/ Tick
<1>1. Reads(signal) = {0}
  BY SignalIsRead DEF Quiet, AllHeard
<1>2. Move(s) \/ Move(r) \/ Tick
  BY Moves
<1>3. ~Move(r)
  BY <1>1 DEF Move, Quiet, Sending
<1>4. Move(s) => SendByte(s) \/ \E x \in Byte : serial[s] = <<>> /\ Type(s, x)
  BY DEF Move, Quiet, Sending
<1>. QED  BY <1>2, <1>3, <1>4

LEMMA RaisedMoves ==
    ASSUME Prompted, NEW s, NEW r, Pair(s, r), NetTypeOK, Raised(s, r), NetNext
    PROVE  SeeHigh(r)
<1>1. Reads(signal) = {1}
  BY SignalIsRead DEF Raised, InByte
<1>2. Move(s) \/ Move(r) \/ Tick
  BY Moves
<1>3. ~Move(s)
  BY Constants DEF Move, Raised, InByte, Sending
<1>4. Move(r) => SeeHigh(r)
  BY DEF Move, Raised, InByte, Sending
<1>5. ~Tick
  BY <1>1, PairFacts DEF Tick, Due, Raised, InByte, Sending
<1>. QED  BY <1>2, <1>3, <1>4, <1>5

LEMMA HeldMoves ==
    ASSUME Prompted, NEW s, NEW r, Pair(s, r), NetTypeOK, Held(s, r), NetNext
    PROVE  Lower(s) \/ Tick
<1>1. Reads(signal) = {1}
  BY SignalIsRead DEF Held, InByte
<1>2. Move(s) \/ Move(r) \/ Tick
  BY Moves
<1>3. ~Move(r)
  BY <1>1 DEF Move, Held, InByte, Sending
<1>4. Move(s) => Lower(s)
  BY DEF Move, Held, InByte, Sending
<1>. QED  BY <1>2, <1>3, <1>4

LEMMA LoweredMoves ==
    ASSUME Prompted, NEW s, NEW r, Pair(s, r), NetTypeOK, Lowered(s, r), NetNext
    PROVE  SeeLow(r)
<1>1. Reads(signal) = {0}
  BY SignalIsRead DEF Lowered, InByte
<1>2. Move(s) \/ Move(r) \/ Tick
  BY Moves
<1>3. ~Move(s)
  BY Constants DEF Move, Lowered, InByte, Sending
<1>4. Move(r) => SeeLow(r)
  BY DEF Move, Lowered, InByte, Sending
<1>5. ~Tick
  BY <1>1, PairFacts DEF Tick, Due, Lowered, InByte, Sending
<1>. QED  BY <1>2, <1>3, <1>4, <1>5

LEMMA BetweenMoves ==
    ASSUME Prompted, NEW s, NEW r, Pair(s, r), NetTypeOK, Between(s, r), NetNext
    PROVE  NextBit(s) \/ Tick
<1>1. Reads(signal) = {0}
  BY SignalIsRead DEF Between, InByte
<1>2. Move(s) \/ Move(r) \/ Tick
  BY Moves
<1>3. ~Move(r)
  BY <1>1 DEF Move, Between, InByte, Sending
<1>4. Move(s) => NextBit(s)
  BY DEF Move, Between, InByte, Sending
<1>. QED  BY <1>2, <1>3, <1>4

LEMMA PrintedMoves ==
    ASSUME Prompted, NEW s, NEW r, Pair(s, r), NetTypeOK, Printed(s, r), NetNext
    PROVE  EndOfByte(s) \/ Tick
<1>1. Reads(signal) = {0}
  BY SignalIsRead DEF Printed, AllHeard
<1>2. Move(s) \/ Move(r) \/ Tick
  BY Moves
<1>3. ~Move(r)
  BY <1>1 DEF Move, Printed, Sending
<1>4. Move(s) => EndOfByte(s)
  BY DEF Move, Printed, AllHeard
<1>. QED  BY <1>2, <1>3, <1>4

LEMMA TurningMoves ==
    ASSUME Prompted, NEW s, NEW r, Pair(s, r), NetTypeOK, Turning(s, r), NetNext
    PROVE  \/ EndOfByte(s) \/ SendByte(r) \/ (Tick /\ wait[s] # 0)
           \/ \E x \in Byte : serial[r] = <<>> /\ calm[r] /\ Type(r, x)
<1>1. Move(s) \/ Move(r) \/ Tick
  BY Moves
<1>2. Move(r) =>
        SendByte(r) \/ \E x \in Byte : serial[r] = <<>> /\ calm[r] /\ Type(r, x)
  BY DEF Move, Turning
<1>3. Move(s) => EndOfByte(s)
  BY DEF Move, Turning, AllHeard
<1>4. Tick => wait[s] # 0
  BY PairFacts DEF Tick, Due, Turning
<1>. QED  BY <1>1, <1>2, <1>3, <1>4

LEMMA OverlapMoves ==
    ASSUME Prompted, NEW s, NEW r, Pair(s, r), NetTypeOK, Overlap(s, r), NetNext
    PROVE  EndOfByte(r) \/ (Tick /\ wait[r] # 0)
<1>1. Move(s) \/ Move(r) \/ Tick
  BY Moves
<1>2. wait[r] \in 0..D /\ wait[s] \in 0..D
  BY PairFacts DEF NetTypeOK
<1>3. wait[s] # 0
  BY <1>2, Constants DEF Overlap
<1>4. ~Move(s)
  BY <1>3 DEF Move, Overlap
<1>5. Move(r) => EndOfByte(r)
  BY DEF Move, Overlap
<1>6. Tick => wait[r] # 0
  BY PairFacts DEF Tick, Due, Overlap
<1>. QED  BY <1>1, <1>4, <1>5, <1>6

LEMMA SetupMoves ==
    ASSUME Prompted, NEW s, NEW r, Pair(s, r), NetTypeOK, SettingUp(s, r), NetNext
    PROVE  Setup(s) \/ Setup(r) \/ Tick
<1>1. Move(s) \/ Move(r) \/ Tick
  BY Moves
<1>2. \A x \in Byte : ~Type(s, x)
  BY PairFacts DEF Type, Ready, SettingUp, Untouched
<1>3. Move(s) => Setup(s)
  BY <1>2 DEF Move, SettingUp, Untouched
<1>4. Move(r) => Setup(r)
  BY DEF Move, SettingUp, Untouched
<1>. QED  BY <1>1, <1>3, <1>4

-----------------------------------------------------------------------------
(* Types                                                                   *)

(* The bits of the byte that a station is about to send.                    *)
LEMMA CodeTypes ==
    ASSUME NetTypeOK, NEW b \in Stations, NEW x \in Byte
    PROVE  /\ rc4_crypt(cipher[b], x) \in Byte
           /\ rc4_crypt(cipher[b], rc4_crypt(cipher[b], x)) = x
           /\ FromBits(Bits(rc4_crypt(cipher[b], x))) = rc4_crypt(cipher[b], x)
           /\ Bits(rc4_crypt(cipher[b], x)) \in Seq({0, 1})
           /\ Bits(rc4_crypt(cipher[b], x)) # <<>>
           /\ Len(Bits(rc4_crypt(cipher[b], x))) = W
           /\ Advance(cipher[b]) \in Cipher /\ IsPermutation(Advance(cipher[b]).S)
<1>1. cipher[b] \in Cipher /\ IsPermutation(cipher[b].S)
  BY DEF NetTypeOK
<1>2. /\ rc4_crypt(cipher[b], x) \in Byte
      /\ rc4_crypt(cipher[b], rc4_crypt(cipher[b], x)) = x
  BY <1>1, CryptTwice
<1>. QED  BY <1>1, <1>2, DecodeBits, BitsTypes, ByteIsNat, AdvanceShuffles

LEMMA TypesInit == NetInit => NetTypeOK
<1>1. NoCipher \in Cipher /\ IsPermutation(NoCipher.S)
  BY ByteIsNat DEF NoCipher, Cipher, IsPermutation
<1>. QED  BY <1>1, Constants, ByteIsNat, Powers DEF NetInit, NetTypeOK

LEMMA TypesConfig ==
    ASSUME NetTypeOK, NEW b \in Stations, NEW m \in BOOLEAN, Config(b, m)
    PROVE  /\ expecting' \in [Stations -> BOOLEAN] /\ output' \in [Stations -> BOOLEAN]
           /\ data' \in [Stations -> {0, 1}] /\ signal' \in [Stations -> {0, 1}]
           /\ calm' \in [Stations -> BOOLEAN]
<1>1. expecting' \in [Stations -> BOOLEAN]
  BY DEF Config, NetTypeOK
<1>2. output' \in [Stations -> BOOLEAN]
  <2>1. (~m) = TRUE \/ (~m) = FALSE
    BY Zenon
  <2>. QED  BY <2>1 DEF Config, NetTypeOK
<1>3. data' \in [Stations -> {0, 1}] /\ signal' \in [Stations -> {0, 1}]
  BY DEF Config, NetTypeOK
<1>4. calm' \in [Stations -> BOOLEAN]
  BY Constants DEF Config, NetTypeOK
<1>. QED  BY <1>1, <1>2, <1>3, <1>4

LEMMA TypesSetup ==
    ASSUME NetTypeOK, NEW b \in Stations, Setup(b)
    PROVE  NetTypeOK'
<1>1. ASSUME NEW m \in BOOLEAN, InitConnection(b, m) PROVE NetTypeOK'
  <2>1. /\ expecting' = [expecting EXCEPT ![b] = m] /\ pc' = [pc EXCEPT ![b] = "key"]
        /\ UNCHANGED <<output, data, signal, wait, bits, byte, cipher, key, serial,
                       calm, said, heard>>
    BY <1>1 DEF InitConnection, wires, setupVars
  <2>2. expecting' \in [Stations -> BOOLEAN]
    BY <2>1 DEF NetTypeOK
  <2>. QED  BY <2>1, <2>2 DEF NetTypeOK
<1>2. ASSUME NEW k \in Keys, EnterKey(b, k) PROVE NetTypeOK'
  <2>1. k \in Approved /\ rc4_init(k) \in Cipher /\ IsPermutation(rc4_init(k).S)
    BY <1>2, NetAssumption, InitShuffles DEF EnterKey
  <2>2. expecting[b] \in BOOLEAN /\ Config(b, expecting[b])
    BY <1>2 DEF EnterKey, NetTypeOK
  <2>3. /\ expecting' \in [Stations -> BOOLEAN] /\ output' \in [Stations -> BOOLEAN]
        /\ data' \in [Stations -> {0, 1}] /\ signal' \in [Stations -> {0, 1}]
        /\ calm' \in [Stations -> BOOLEAN]
    BY <2>2, TypesConfig
  <2>4. /\ pc' = [pc EXCEPT ![b] = "loop"] /\ key' = [key EXCEPT ![b] = k]
        /\ cipher' = [cipher EXCEPT ![b] = rc4_init(k)]
        /\ UNCHANGED <<wait, bits, byte, serial, said, heard>>
    BY <1>2 DEF EnterKey
  <2>. QED  BY <2>1, <2>3, <2>4 DEF NetTypeOK
<1>. QED  BY <1>1, <1>2 DEF Setup

LEMMA TypesType ==
    ASSUME NetTypeOK, NEW b \in Stations, NEW x \in Byte, Type(b, x)
    PROVE  NetTypeOK'
BY DEF Type, NetTypeOK, wires

LEMMA TypesRaise ==
    ASSUME NetTypeOK, NEW b \in Stations, NEW todo \in Seq({0, 1}),
           todo # <<>>, Len(todo) <= W, Raise(b, todo)
    PROVE  /\ pc' \in [Stations -> {"role", "key", "loop", "high", "low", "hold"}]
           /\ data' \in [Stations -> {0, 1}] /\ signal' \in [Stations -> {0, 1}]
           /\ wait' \in [Stations -> 0..D] /\ bits' \in [Stations -> Seq({0, 1})]
           /\ \A c \in Stations : Len(bits'[c]) <= W
<1>1. Head(todo) \in {0, 1} /\ Tail(todo) \in Seq({0, 1}) /\ Len(Tail(todo)) <= W
  BY RestOf, Powers
<1>. QED  BY <1>1, Constants DEF Raise, NetTypeOK

LEMMA TypesSend ==
    ASSUME NetTypeOK, NEW b \in Stations, Send(b)
    PROVE  NetTypeOK'
<1>1. CASE SendByte(b)
  <2>. DEFINE x == Head(serial[b])
              code == Bits(rc4_crypt(cipher[b], x))
  <2>1. serial[b] \in Seq(Byte) /\ serial[b] # <<>>
    BY <1>1 DEF SendByte, NetTypeOK
  <2>2. x \in Byte /\ Tail(serial[b]) \in Seq(Byte)
    BY <2>1
  <2>3. /\ code \in Seq({0, 1}) /\ code # <<>> /\ Len(code) <= W
        /\ Advance(cipher[b]) \in Cipher /\ IsPermutation(Advance(cipher[b]).S)
    BY <2>2, CodeTypes, Powers
  <2>4. Raise(b, code)
    BY <1>1 DEF SendByte
  <2>. HIDE DEF code
  <2>5. /\ byte' = [byte EXCEPT ![b] = x] /\ said' = [said EXCEPT ![b] = Append(@, x)]
        /\ cipher' = [cipher EXCEPT ![b] = Advance(@)]
        /\ serial' = [serial EXCEPT ![b] = Tail(@)]
        /\ UNCHANGED <<expecting, output, key, calm, heard>>
    BY <1>1 DEF SendByte
  <2>6. /\ byte' \in [Stations -> Byte] /\ said' \in [Stations -> Seq(Byte)]
        /\ serial' \in [Stations -> Seq(Byte)]
    BY <2>2, <2>5 DEF NetTypeOK
  <2>7. /\ cipher' \in [Stations -> Cipher]
        /\ \A c \in Stations : IsPermutation(cipher'[c].S)
    BY <2>3, <2>5 DEF NetTypeOK
  <2>8. /\ pc' \in [Stations -> {"role", "key", "loop", "high", "low", "hold"}]
        /\ data' \in [Stations -> {0, 1}] /\ signal' \in [Stations -> {0, 1}]
        /\ wait' \in [Stations -> 0..D] /\ bits' \in [Stations -> Seq({0, 1})]
        /\ \A c \in Stations : Len(bits'[c]) <= W
    BY <2>3, <2>4, TypesRaise
  <2>9. /\ expecting' \in [Stations -> BOOLEAN] /\ output' \in [Stations -> BOOLEAN]
        /\ calm' \in [Stations -> BOOLEAN] /\ heard' \in [Stations -> Seq(Byte)]
        /\ key' \in [Stations -> Approved \cup {NoKey}]
    BY <2>5 DEF NetTypeOK
  <2>. QED  BY <2>6, <2>7, <2>8, <2>9 DEF NetTypeOK
<1>2. CASE Lower(b)
  BY <1>2, Constants DEF Lower, NetTypeOK, setupVars
<1>3. CASE NextBit(b)
  <2>1. bits[b] \in Seq({0, 1}) /\ bits[b] # <<>> /\ Len(bits[b]) <= W
        /\ Raise(b, bits[b])
    BY <1>3 DEF NextBit, NetTypeOK
  <2>2. /\ pc' \in [Stations -> {"role", "key", "loop", "high", "low", "hold"}]
        /\ data' \in [Stations -> {0, 1}] /\ signal' \in [Stations -> {0, 1}]
        /\ wait' \in [Stations -> 0..D] /\ bits' \in [Stations -> Seq({0, 1})]
        /\ \A c \in Stations : Len(bits'[c]) <= W
    BY <2>1, TypesRaise
  <2>3. UNCHANGED <<expecting, output, byte, cipher, key, serial, calm, said, heard>>
    BY <1>3 DEF NextBit, setupVars
  <2>. QED  BY <2>2, <2>3 DEF NetTypeOK
<1>4. CASE EndOfByte(b)
  <2>1. /\ pc' = [pc EXCEPT ![b] = "loop"]
        /\ UNCHANGED <<wait, bits, byte, cipher, setupVars, said, heard>>
        /\ Config(b, TRUE) \/ UNCHANGED <<expecting, wires, calm>>
    BY <1>4 DEF EndOfByte
  <2>2. /\ expecting' \in [Stations -> BOOLEAN] /\ output' \in [Stations -> BOOLEAN]
        /\ data' \in [Stations -> {0, 1}] /\ signal' \in [Stations -> {0, 1}]
        /\ calm' \in [Stations -> BOOLEAN]
    BY <2>1, TypesConfig DEF NetTypeOK, wires
  <2>. QED  BY <2>1, <2>2 DEF NetTypeOK, setupVars
<1>. QED  BY <1>1, <1>2, <1>3, <1>4 DEF Send

LEMMA TypesReceive ==
    ASSUME NetTypeOK, NEW b \in Stations, Receive(b),
           SeeHigh(b) => Len(bits[b]) < W /\ Reads(data) \subseteq {0, 1},
           SeeLow(b) /\ Len(bits[b]) >= W =>
               rc4_crypt(cipher[b], FromBits(bits[b])) \in Byte
    PROVE  NetTypeOK'
<1>1. CASE SeeHigh(b)
  <2>1. PICK v \in Reads(data) : bits' = [bits EXCEPT ![b] = Append(@, v)]
    BY <1>1 DEF SeeHigh
  <2>2. Append(bits[b], v) \in Seq({0, 1}) /\ Len(Append(bits[b], v)) <= W
    BY <1>1, AppendBit, Powers DEF NetTypeOK
  <2>3. bits' \in [Stations -> Seq({0, 1})] /\ \A c \in Stations : Len(bits'[c]) <= W
    BY <2>1, <2>2 DEF NetTypeOK
  <2>4. /\ pc' = [pc EXCEPT ![b] = "hold"]
        /\ UNCHANGED <<expecting, wires, wait, byte, cipher, setupVars, calm, said, heard>>
    BY <1>1 DEF SeeHigh
  <2>. QED  BY <2>3, <2>4 DEF NetTypeOK, wires, setupVars
<1>2. CASE SeeLow(b) /\ Len(bits[b]) < W
  BY <1>2 DEF SeeLow, NetTypeOK, wires, setupVars
<1>3. CASE SeeLow(b) /\ ~(Len(bits[b]) < W)
  <2>. DEFINE x == rc4_crypt(cipher[b], FromBits(bits[b]))
  <2>1. x \in Byte
    BY <1>3, Powers DEF NetTypeOK
  <2>2. Advance(cipher[b]) \in Cipher /\ IsPermutation(Advance(cipher[b]).S)
    BY CodeTypes, ByteIsNat
  <2>3. /\ pc' = [pc EXCEPT ![b] = "loop"]
        /\ bits' = [bits EXCEPT ![b] = <<>>]
        /\ cipher' = [cipher EXCEPT ![b] = Advance(@)]
        /\ heard' = [heard EXCEPT ![b] = Append(@, x)]
        /\ IF Turns(x) THEN Config(b, FALSE) ELSE UNCHANGED <<expecting, wires, calm>>
        /\ UNCHANGED <<wait, byte, setupVars, said>>
    BY <1>3 DEF SeeLow
  <2>. HIDE DEF x
  <2>4. /\ cipher' \in [Stations -> Cipher]
        /\ \A c \in Stations : IsPermutation(cipher'[c].S)
    BY <2>2, <2>3 DEF NetTypeOK
  <2>5. /\ bits' \in [Stations -> Seq({0, 1})] /\ heard' \in [Stations -> Seq(Byte)]
        /\ \A c \in Stations : Len(bits'[c]) <= W
    BY <2>1, <2>3, Powers DEF NetTypeOK
  <2>6. /\ expecting' \in [Stations -> BOOLEAN] /\ output' \in [Stations -> BOOLEAN]
        /\ data' \in [Stations -> {0, 1}] /\ signal' \in [Stations -> {0, 1}]
        /\ calm' \in [Stations -> BOOLEAN]
    <3>1. Config(b, FALSE) \/ UNCHANGED <<expecting, wires, calm>>
      BY <2>3
    <3>. QED  BY <3>1, TypesConfig DEF NetTypeOK, wires
  <2>7. pc' \in [Stations -> {"role", "key", "loop", "high", "low", "hold"}]
    BY <2>3 DEF NetTypeOK
  <2>. QED  BY <2>3, <2>4, <2>5, <2>6, <2>7 DEF NetTypeOK, setupVars
<1>. QED  BY <1>1, <1>2, <1>3 DEF Receive

LEMMA TypesTick == NetTypeOK /\ Tick => NetTypeOK'
<1>. SUFFICES ASSUME NetTypeOK, Tick PROVE NetTypeOK'
  OBVIOUS
<1>1. wait' \in [Stations -> 0..D] /\ calm' \in [Stations -> BOOLEAN]
  <2>1. /\ wait' = [b \in Stations |-> IF wait[b] > 0 THEN wait[b] - 1 ELSE 0]
        /\ calm' = [b \in Stations |-> TRUE]
    BY DEF Tick
  <2>2. \A b \in Stations : wait[b] \in 0..D
    BY DEF NetTypeOK
  <2>. QED  BY <2>1, <2>2, Constants
<1>. QED  BY <1>1 DEF Tick, NetTypeOK, wires, setupVars

-----------------------------------------------------------------------------
(* From phase to phase                                                     *)

(* A byte that is taken from the operator: its first bit is on DATA.        *)
LEMMA ByteIsTaken ==
    ASSUME NEW s, NEW r, Pair(s, r), NetTypeOK, AllHeard(s, r),
           Len(serial[s]) <= 1, SendByte(s)
    PROVE  /\ (<<>> \o <<data'[s]>>) \o bits'[s] = Code(s, r)'
           /\ bits'[r] = <<>> /\ signal'[s] = 1 /\ signal'[r] = signal[r]
           /\ pc'[s] = "high" /\ pc'[r] = pc[r] /\ wait'[s] = D /\ wait'[r] = wait[r]
           /\ cipher'[s] = Advance(cipher'[r]) /\ said'[s] = Append(heard'[r], byte'[s])
           /\ byte'[r] = byte[r] /\ serial'[s] = <<>> /\ serial'[r] = serial[r]
           /\ said'[r] = said[r] /\ heard' = heard
           /\ expecting' = expecting /\ output' = output
<1>. DEFINE x == Head(serial[s])
            code == Bits(rc4_crypt(cipher[s], x))
<1>1. serial[s] \in Seq(Byte) /\ serial[s] # <<>> /\ Len(serial[s]) <= 1
  BY PairFacts DEF SendByte, NetTypeOK
<1>2. x \in Byte /\ Tail(serial[s]) = <<>>
  BY <1>1, RestOf
<1>3. code \in Seq({0, 1}) /\ code # <<>>
  BY <1>2, PairFacts, CodeTypes
<1>4. /\ data' = [data EXCEPT ![s] = Head(code)]
      /\ signal' = [signal EXCEPT ![s] = 1]
      /\ bits' = [bits EXCEPT ![s] = Tail(code)]
      /\ wait' = [wait EXCEPT ![s] = D]
      /\ pc' = [pc EXCEPT ![s] = "high"]
  BY DEF SendByte, Raise
<1>5. /\ byte' = [byte EXCEPT ![s] = x] /\ said' = [said EXCEPT ![s] = Append(@, x)]
      /\ cipher' = [cipher EXCEPT ![s] = Advance(@)]
      /\ serial' = [serial EXCEPT ![s] = Tail(@)]
      /\ UNCHANGED <<expecting, output, key, calm, heard>>
  BY DEF SendByte
<1>6. ((<<>> \o <<Head(code)>>) \o Tail(code)) = code
  <2>1. <<>> \in Seq({0, 1}) /\ <<>> \o code = code
    BY <1>3, BitCount
  <2>. HIDE DEF code
  <2>. QED  BY <1>3, <2>1, TakeBit
<1>7. Code(s, r)' = code
  <2>1. cipher'[r] = cipher[s] /\ byte'[s] = x
    BY <1>5, PairFacts DEF NetTypeOK, AllHeard
  <2>. QED  BY <2>1 DEF Code
<1>. HIDE DEF code, x
<1>8. /\ bits'[s] = Tail(code) /\ bits'[r] = <<>> /\ data'[s] = Head(code)
      /\ signal'[s] = 1 /\ signal'[r] = signal[r] /\ wait'[s] = D /\ wait'[r] = wait[r]
      /\ pc'[s] = "high" /\ pc'[r] = pc[r]
  BY <1>4, PairFacts DEF NetTypeOK, AllHeard
<1>9. /\ cipher'[s] = Advance(cipher'[r]) /\ said'[s] = Append(heard'[r], byte'[s])
      /\ serial'[s] = <<>> /\ serial'[r] = serial[r] /\ said'[r] = said[r]
      /\ byte'[r] = byte[r] /\ heard' = heard
  BY <1>2, <1>5, PairFacts DEF NetTypeOK, AllHeard
<1>. QED  BY <1>5, <1>6, <1>7, <1>8, <1>9

LEMMA QuietSends ==
    ASSUME NEW s, NEW r, Pair(s, r), NetTypeOK, Quiet(s, r), SendByte(s)
    PROVE  Raised(s, r)'
<1>1. AllHeard(s, r) /\ Len(serial[s]) <= 1 /\ signal[r] = 0 /\ serial[r] = <<>>
      /\ heard[s] = said[r] /\ pc[r] = "loop"
      /\ ~expecting[s] /\ output[s] /\ expecting[r] /\ ~output[r]
  BY DEF Quiet, Sending
<1>2. /\ (<<>> \o <<data'[s]>>) \o bits'[s] = Code(s, r)'
      /\ bits'[r] = <<>> /\ signal'[s] = 1 /\ signal'[r] = 0
      /\ pc'[s] = "high" /\ pc'[r] = "loop" /\ wait'[s] = D
      /\ cipher'[s] = Advance(cipher'[r]) /\ said'[s] = Append(heard'[r], byte'[s])
      /\ serial'[s] = <<>> /\ serial'[r] = <<>> /\ heard'[s] = said'[r]
      /\ ~expecting'[s] /\ output'[s] /\ expecting'[r] /\ ~output'[r]
  BY <1>1, ByteIsTaken
<1>3. wait'[s] > 0
  BY <1>2, Constants
<1>4. Sending(s, r)' /\ InByte(s, r)'
  BY <1>2 DEF InByte, Sending
<1>. QED  BY <1>2, <1>3, <1>4 DEF Raised

LEMMA QuietTypes ==
    ASSUME NEW s, NEW r, Pair(s, r), NetTypeOK, Quiet(s, r),
           NEW x \in Byte, serial[s] = <<>>, Type(s, x)
    PROVE  Quiet(s, r)'
<1>1. /\ serial' = [serial EXCEPT ![s] = Append(@, x)]
      /\ UNCHANGED <<pc, expecting, wires, wait, bits, byte, cipher, key, calm,
                     said, heard>>
  BY DEF Type
<1>2. serial'[s] = <<x>> /\ serial'[r] = serial[r]
  BY <1>1, PairFacts DEF NetTypeOK
<1>3. Len(<<x>>) <= 1
  OBVIOUS
<1>. QED  BY <1>1, <1>2, <1>3 DEF Quiet, Sending, AllHeard, wires

LEMMA RaisedIsSeen ==
    ASSUME NEW s, NEW r, Pair(s, r), NetTypeOK, Raised(s, r), SeeHigh(r)
    PROVE  Held(s, r)' /\ Len(bits[r]) < W
<1>1. Reads(data) = {data[s]}
  BY SignalIsRead DEF Raised, InByte
<1>2. /\ bits' = [bits EXCEPT ![r] = Append(@, data[s])]
      /\ pc' = [pc EXCEPT ![r] = "hold"]
      /\ UNCHANGED <<expecting, wires, wait, byte, cipher, setupVars, calm, said, heard>>
  BY <1>1 DEF SeeHigh
<1>3. bits[r] \in Seq({0, 1}) /\ bits[s] \in Seq({0, 1}) /\ data[s] \in {0, 1}
  BY PairFacts DEF NetTypeOK
<1>4. /\ Append(bits[r], data[s]) = bits[r] \o <<data[s]>>
      /\ Append(bits[r], data[s]) \in Seq({0, 1})
      /\ Len(Append(bits[r], data[s])) = Len(bits[r]) + 1
  BY <1>3, AppendBit
<1>5. Append(bits[r], data[s]) \o bits[s] = Code(s, r)
  BY <1>4 DEF Raised
<1>6. Len(bits[r]) < W
  <2>1. Len(Code(s, r)) = W
    BY PairFacts, CodeTypes DEF Code, NetTypeOK
  <2>2. /\ Len(Append(bits[r], data[s]) \o bits[s]) = Len(bits[r]) + 1 + Len(bits[s])
        /\ Len(bits[r]) \in Nat /\ Len(bits[s]) \in Nat
    BY <1>3, <1>4, BitCount
  <2>3. \A a, b \in Nat : a + 1 + b = W => a < W
    BY Powers
  <2>. QED  BY <1>5, <2>1, <2>2, <2>3
<1>7. Code(s, r)' = Code(s, r)
  BY <1>2 DEF Code
<1>8. /\ bits'[r] = Append(bits[r], data[s]) /\ bits'[s] = bits[s]
      /\ pc'[s] = pc[s] /\ pc'[r] = "hold"
  BY <1>2, PairFacts DEF NetTypeOK
<1>9. InByte(s, r)' /\ signal' = signal
  BY <1>2 DEF InByte, Sending, Raised, wires, setupVars
<1>. QED  BY <1>5, <1>6, <1>7, <1>8, <1>9 DEF Held, Raised

LEMMA HeldIsLowered ==
    ASSUME NEW s, NEW r, Pair(s, r), NetTypeOK, Held(s, r), Lower(s)
    PROVE  Lowered(s, r)'
<1>1. /\ signal' = [signal EXCEPT ![s] = 0]
      /\ wait' = [wait EXCEPT ![s] = D] /\ pc' = [pc EXCEPT ![s] = "low"]
      /\ UNCHANGED <<expecting, output, data, bits, byte, cipher, setupVars, calm,
                     said, heard>>
  BY DEF Lower
<1>2. /\ signal'[s] = 0 /\ signal'[r] = signal[r] /\ wait'[s] = D
      /\ pc'[s] = "low" /\ pc'[r] = pc[r]
  BY <1>1, PairFacts DEF NetTypeOK
<1>. QED  BY <1>1, <1>2 DEF Held, Lowered, InByte, Sending, Code, setupVars

LEMMA BetweenIsRaised ==
    ASSUME NEW s, NEW r, Pair(s, r), NetTypeOK, Between(s, r), NextBit(s)
    PROVE  Raised(s, r)'
<1>1. /\ data' = [data EXCEPT ![s] = Head(bits[s])]
      /\ signal' = [signal EXCEPT ![s] = 1]
      /\ bits' = [bits EXCEPT ![s] = Tail(bits[s])]
      /\ wait' = [wait EXCEPT ![s] = D] /\ pc' = [pc EXCEPT ![s] = "high"]
      /\ UNCHANGED <<expecting, output, byte, cipher, setupVars, calm, said, heard>>
  BY DEF NextBit, Raise
<1>2. /\ data'[s] = Head(bits[s]) /\ signal'[s] = 1 /\ signal'[r] = signal[r]
      /\ bits'[s] = Tail(bits[s]) /\ bits'[r] = bits[r] /\ wait'[s] = D
      /\ pc'[s] = "high" /\ pc'[r] = pc[r]
  BY <1>1, PairFacts DEF NetTypeOK
<1>3. (bits[r] \o <<Head(bits[s])>>) \o Tail(bits[s]) = Code(s, r)
  <2>1. bits[r] \in Seq({0, 1}) /\ bits[s] \in Seq({0, 1}) /\ bits[s] # <<>>
    BY PairFacts DEF NetTypeOK, Between
  <2>2. (bits[r] \o <<Head(bits[s])>>) \o Tail(bits[s]) = bits[r] \o bits[s]
    BY <2>1, TakeBit
  <2>. QED  BY <2>2 DEF Between
<1>4. InByte(s, r)' /\ Code(s, r)' = Code(s, r)
  BY <1>1, <1>2 DEF Between, InByte, Sending, Code, setupVars
<1>5. wait'[s] > 0
  BY <1>2, Constants
<1>. QED  BY <1>2, <1>3, <1>4, <1>5 DEF Raised, Between

(* The operator of the new sender types while the line turns, and the new   *)
(* sender begins: it is D ticks before its pulse ends.                      *)
LEMMA TurningTypes ==
    ASSUME NEW s, NEW r, Pair(s, r), NetTypeOK, Turning(s, r),
           NEW x \in Byte, serial[r] = <<>>, calm[r], Type(r, x)
    PROVE  Turning(s, r)'
<1>1. /\ serial' = [serial EXCEPT ![r] = Append(@, x)]
      /\ UNCHANGED <<pc, expecting, wires, wait, bits, byte, cipher, key, calm,
                     said, heard>>
  BY DEF Type
<1>2. serial'[r] = <<x>> /\ serial'[s] = serial[s]
  BY <1>1, PairFacts DEF NetTypeOK
<1>3. Len(<<x>>) <= 1
  OBVIOUS
<1>4. wait'[s] < D
  BY <1>1 DEF Turning
<1>. QED  BY <1>1, <1>2, <1>3, <1>4 DEF Turning, AllHeard, wires

LEMMA TurningSends ==
    ASSUME NEW s, NEW r, Pair(s, r), NetTypeOK, Turning(s, r), SendByte(r)
    PROVE  Overlap(r, s)'
<1>1. Pair(r, s) /\ AllHeard(r, s)
  <2>1. Pair(r, s)
    BY DEF Pair
  <2>2. heard[s] = said[r] /\ bits[s] = <<>> /\ bits[r] = <<>> /\ signal[r] = 0
        /\ cipher[r] = cipher[s]
    BY DEF Turning, AllHeard
  <2>. QED  BY <2>1, <2>2 DEF AllHeard
<1>2. /\ ~expecting[s] /\ output[s] /\ ~expecting[r] /\ output[r]
      /\ signal[s] = 0 /\ serial[s] = <<>> /\ heard[r] = said[s]
      /\ pc[s] = "low" /\ Turns(byte[s]) /\ Len(serial[r]) <= 1 /\ wait[s] < D
  <2>1. serial[r] # <<>>
    BY DEF SendByte
  <2>. QED  BY <2>1 DEF Turning, AllHeard
<1>3. /\ (<<>> \o <<data'[r]>>) \o bits'[r] = Code(r, s)'
      /\ bits'[s] = <<>> /\ signal'[r] = 1 /\ signal'[s] = signal[s]
      /\ pc'[r] = "high" /\ pc'[s] = pc[s] /\ wait'[r] = D /\ wait'[s] = wait[s]
      /\ cipher'[r] = Advance(cipher'[s]) /\ said'[r] = Append(heard'[s], byte'[r])
      /\ byte'[s] = byte[s] /\ serial'[r] = <<>> /\ serial'[s] = serial[s]
      /\ said'[s] = said[s] /\ heard' = heard
      /\ expecting' = expecting /\ output' = output
  BY <1>1, <1>2, ByteIsTaken
<1>4. Turns(byte'[s])
  BY <1>2, <1>3
<1>. QED  BY <1>2, <1>3, <1>4 DEF Overlap

(* The old sender leaves the wires, and the pulse is still there.           *)
LEMMA OverlapIsRaised ==
    ASSUME NEW s, NEW r, Pair(s, r), NetTypeOK, Overlap(s, r), EndOfByte(r)
    PROVE  Raised(s, r)'
<1>1. /\ pc' = [pc EXCEPT ![r] = "loop"] /\ Config(r, TRUE)
      /\ UNCHANGED <<wait, bits, byte, cipher, setupVars, said, heard>>
  BY DEF EndOfByte, Overlap
<1>2. /\ expecting' = [expecting EXCEPT ![r] = TRUE]
      /\ output' = [output EXCEPT ![r] = ~TRUE] /\ signal' = [signal EXCEPT ![r] = 0]
      /\ data' = [data EXCEPT ![r] = 0]
  BY <1>1 DEF Config
<1>3. /\ pc'[r] = "loop" /\ pc'[s] = "high" /\ expecting'[r] /\ ~output'[r]
      /\ ~expecting'[s] /\ output'[s] /\ signal'[r] = 0 /\ signal'[s] = 1
      /\ data'[s] = data[s]
  BY <1>1, <1>2, PairFacts DEF NetTypeOK, Overlap
<1>4. wait'[s] > 0
  <2>1. wait[r] \in 0..D /\ wait[s] \in 0..D /\ wait[r] < wait[s]
    BY PairFacts DEF NetTypeOK, Overlap
  <2>. QED  BY <1>1, <2>1, Constants
<1>5. Code(s, r)' = Code(s, r)
  BY <1>1 DEF Code
<1>. QED  BY <1>1, <1>3, <1>4, <1>5 DEF Overlap, Raised, InByte, Sending, setupVars

(* The end of a pulse: the listener goes on, or prints the byte.            *)
LEMMA LoweredIsSeen ==
    ASSUME NEW s, NEW r, Pair(s, r), NetTypeOK, Lowered(s, r), SeeLow(r)
    PROVE  /\ Between(s, r)' \/ Printed(s, r)' \/ Turning(s, r)'
           /\ Len(bits[r]) >= W => rc4_crypt(cipher[r], FromBits(bits[r])) \in Byte
<1>1. /\ bits[r] \in Seq({0, 1}) /\ bits[s] \in Seq({0, 1})
      /\ Len(bits[r]) \in Nat /\ Len(bits[s]) \in Nat
      /\ Len(bits[r]) + Len(bits[s]) = W /\ W \in Nat
  <2>1. bits[r] \in Seq({0, 1}) /\ bits[s] \in Seq({0, 1})
    BY PairFacts DEF NetTypeOK
  <2>2. Len(Code(s, r)) = W
    BY PairFacts, CodeTypes DEF Code, NetTypeOK
  <2>3. /\ Len(bits[r]) \in Nat /\ Len(bits[s]) \in Nat
        /\ Len(bits[r] \o bits[s]) = Len(bits[r]) + Len(bits[s])
    BY <2>1, BitCount
  <2>4. Len(bits[r] \o bits[s]) = W
    BY <2>2 DEF Lowered
  <2>. QED  BY <2>1, <2>3, <2>4, Powers
<1>2. CASE Len(bits[r]) < W
  <2>1. /\ pc' = [pc EXCEPT ![r] = "loop"]
        /\ UNCHANGED <<expecting, wires, bits, cipher, calm, heard>>
        /\ UNCHANGED <<wait, byte, setupVars, said>>
    BY <1>2 DEF SeeLow
  <2>2. pc'[r] = "loop" /\ pc'[s] = pc[s]
    BY <2>1, PairFacts DEF NetTypeOK
  <2>3. bits[s] # <<>>
    <3>1. \A a, b \in Nat : a < W /\ a + b = W => b # 0
      BY <1>1
    <3>2. Len(bits[s]) # 0
      BY <1>1, <1>2, <3>1
    <3>. QED  BY <3>2, EmptySeq
  <2>4. Between(s, r)'
    BY <2>1, <2>2, <2>3 DEF Lowered, Between, InByte, Sending, Code, wires, setupVars
  <2>. QED  BY <1>1, <1>2, <2>4
<1>3. CASE ~(Len(bits[r]) < W)
  <2>. DEFINE x == rc4_crypt(cipher[r], FromBits(bits[r]))
  <2>1. bits[s] = <<>> /\ bits[r] = Code(s, r)
    <3>0. \A a, b \in Nat : ~(a < W) /\ a + b = W => b = 0
      BY <1>1
    <3>1. Len(bits[s]) = 0
      BY <1>1, <1>3, <3>0
    <3>2. bits[s] = <<>> /\ bits[r] \o bits[s] = bits[r]
      BY <1>1, <3>1, BitCount
    <3>. QED  BY <3>2 DEF Lowered
  <2>2. x = byte[s] /\ x \in Byte
    <3>1. byte[s] \in Byte
      BY PairFacts DEF NetTypeOK
    <3>. QED  BY <2>1, <3>1, PairFacts, CodeTypes DEF Code
  <2>3. /\ pc' = [pc EXCEPT ![r] = "loop"]
        /\ bits' = [bits EXCEPT ![r] = <<>>]
        /\ cipher' = [cipher EXCEPT ![r] = Advance(@)]
        /\ heard' = [heard EXCEPT ![r] = Append(@, x)]
        /\ IF Turns(x) THEN Config(r, FALSE) ELSE UNCHANGED <<expecting, wires, calm>>
        /\ UNCHANGED <<wait, byte, setupVars, said>>
    BY <1>3 DEF SeeLow
  <2>. HIDE DEF x
  <2>4. /\ pc'[r] = "loop" /\ pc'[s] = "low" /\ bits'[r] = <<>> /\ bits'[s] = <<>>
        /\ cipher'[s] = cipher'[r] /\ heard'[r] = said'[s] /\ heard'[s] = said'[r]
        /\ serial'[s] = <<>> /\ serial'[r] = <<>> /\ byte'[s] = x
    BY <2>1, <2>2, <2>3, PairFacts DEF NetTypeOK, Lowered, InByte, Sending, setupVars
  <2>5. CASE ~Turns(x)
    <3>1. UNCHANGED <<expecting, output, signal>>
      BY <2>3, <2>5 DEF wires
    <3>2. Printed(s, r)'
      BY <2>4, <2>5, <3>1 DEF Printed, AllHeard, Sending, Lowered, InByte, Turns
    <3>. QED  BY <2>2, <3>2 DEF x
  <2>6. CASE Turns(x)
    <3>1. /\ expecting' = [expecting EXCEPT ![r] = FALSE]
          /\ output' = [output EXCEPT ![r] = ~FALSE] /\ signal' = [signal EXCEPT ![r] = @]
          /\ calm' = [calm EXCEPT ![r] = FALSE]
      BY <2>3, <2>6 DEF Config
    <3>2. /\ ~expecting'[r] /\ output'[r] /\ signal'[r] = 0 /\ ~calm'[r]
          /\ ~expecting'[s] /\ output'[s] /\ signal'[s] = 0 /\ wait'[s] = D
      BY <2>3, <3>1, PairFacts DEF NetTypeOK, Lowered, InByte, Sending
    <3>3. Len(serial'[r]) <= 1 /\ ~(calm'[r] \/ serial'[r] # <<>>)
      BY <2>4, <3>2, EmptySeq
    <3>4. Turning(s, r)'
      BY <2>4, <2>6, <3>2, <3>3 DEF Turning, AllHeard, Turns
    <3>. QED  BY <2>2, <3>4 DEF x
  <2>. QED  BY <2>5, <2>6
<1>. QED  BY <1>2, <1>3

LEMMA PrintedIsQuiet ==
    ASSUME NEW s, NEW r, Pair(s, r), NetTypeOK, Printed(s, r), EndOfByte(s)
    PROVE  Quiet(s, r)'
<1>1. /\ pc' = [pc EXCEPT ![s] = "loop"] /\ UNCHANGED <<expecting, wires, calm>>
      /\ UNCHANGED <<wait, bits, byte, cipher, setupVars, said, heard>>
  BY DEF EndOfByte, Printed
<1>2. pc'[s] = "loop" /\ pc'[r] = pc[r]
  BY <1>1, PairFacts DEF NetTypeOK
<1>3. Len(<<>>) <= 1
  BY EmptySeq
<1>. QED  BY <1>1, <1>2, <1>3 DEF Printed, Quiet, Sending, AllHeard, wires, setupVars

(* The line turns: the station that spoke listens.                          *)
LEMMA TurningIsQuiet ==
    ASSUME NEW s, NEW r, Pair(s, r), NetTypeOK, Turning(s, r), EndOfByte(s)
    PROVE  Quiet(r, s)'
<1>1. /\ pc' = [pc EXCEPT ![s] = "loop"] /\ Config(s, TRUE)
      /\ UNCHANGED <<wait, bits, byte, cipher, setupVars, said, heard>>
  BY DEF EndOfByte, Turning
<1>2. /\ expecting' = [expecting EXCEPT ![s] = TRUE]
      /\ output' = [output EXCEPT ![s] = ~TRUE] /\ signal' = [signal EXCEPT ![s] = 0]
  BY <1>1 DEF Config
<1>3. /\ pc'[s] = "loop" /\ pc'[r] = "loop" /\ expecting'[s] /\ ~output'[s]
      /\ ~expecting'[r] /\ output'[r] /\ signal'[s] = 0 /\ signal'[r] = 0
  BY <1>1, <1>2, PairFacts DEF NetTypeOK, Turning
<1>. QED  BY <1>1, <1>3 DEF Turning, Quiet, Sending, AllHeard, setupVars

(* Time passes only in the phases that have a delay to wait for.            *)
LEMMA TalkingTicks ==
    ASSUME NEW s, NEW r, Pair(s, r), NetTypeOK, Tick
    PROVE  /\ Quiet(s, r) => Quiet(s, r)'
           /\ Held(s, r) => Held(s, r)'
           /\ Between(s, r) => Between(s, r)'
           /\ Printed(s, r) => Printed(s, r)'
           /\ Turning(s, r) /\ wait[s] # 0 => Turning(s, r)'
           /\ Overlap(s, r) /\ wait[r] # 0 => Overlap(s, r)'
           /\ SettingUp(s, r) => SettingUp(s, r)'
<1>1. /\ wait' = [b \in Stations |-> IF wait[b] > 0 THEN wait[b] - 1 ELSE 0]
      /\ UNCHANGED <<pc, expecting, output, data, signal, bits, byte, cipher, key,
                     serial, said, heard>>
  BY DEF Tick, wires, setupVars
<1>2. Code(s, r)' = Code(s, r)
  BY <1>1 DEF Code
<1>3. /\ Sending(s, r)' <=> Sending(s, r)
      /\ InByte(s, r)' <=> InByte(s, r)
      /\ AllHeard(s, r)' <=> AllHeard(s, r)
  BY <1>1 DEF Sending, InByte, AllHeard
<1>4. Turning(s, r) /\ wait[s] # 0 => Turning(s, r)'
  <2>. SUFFICES ASSUME Turning(s, r), wait[s] # 0 PROVE Turning(s, r)'
    OBVIOUS
  <2>1. wait'[s] < D
    <3>1. wait[s] \in 0..D /\ wait'[s] = IF wait[s] > 0 THEN wait[s] - 1 ELSE 0
      BY <1>1, PairFacts DEF NetTypeOK
    <3>. QED  BY <3>1, Constants
  <2>. QED  BY <1>1, <1>3, <2>1 DEF Turning
<1>6. Overlap(s, r) /\ wait[r] # 0 => Overlap(s, r)'
  <2>. SUFFICES ASSUME Overlap(s, r), wait[r] # 0 PROVE Overlap(s, r)'
    OBVIOUS
  <2>1. wait'[r] < wait'[s]
    <3>1. wait[s] \in 0..D /\ wait[r] \in 0..D /\ wait[r] < wait[s]
      BY PairFacts DEF NetTypeOK, Overlap
    <3>2. /\ wait'[s] = IF wait[s] > 0 THEN wait[s] - 1 ELSE 0
          /\ wait'[r] = IF wait[r] > 0 THEN wait[r] - 1 ELSE 0
      BY <1>1, PairFacts
    <3>. QED  BY <3>1, <3>2, Constants
  <2>. QED  BY <1>1, <1>2, <2>1 DEF Overlap
<1>5. SettingUp(s, r) => SettingUp(s, r)'
  BY <1>1 DEF SettingUp, Untouched
<1>. QED  BY <1>1, <1>2, <1>3, <1>4, <1>5, <1>6 DEF Quiet, Held, Between, Printed

(* An operator sets up a station; the last one starts the conversation.     *)
LEMMA SetupGoesOn ==
    ASSUME NEW s, NEW r, Pair(s, r), NetTypeOK, SettingUp(s, r),
           Setup(s) \/ Setup(r)
    PROVE  SettingUp(s, r)' \/ SettingUp(r, s)' \/ Quiet(s, r)'
<1>1. ASSUME NEW m \in BOOLEAN, InitConnection(s, m) \/ InitConnection(r, m)
      PROVE  SettingUp(s, r)'
  <2>1. CASE InitConnection(s, m)
    <3>1. /\ pc[s] = "role" /\ (pc[r] = "role" \/ expecting[r] # m)
          /\ expecting' = [expecting EXCEPT ![s] = m] /\ pc' = [pc EXCEPT ![s] = "key"]
          /\ UNCHANGED <<wires, wait, bits, byte, cipher, setupVars, calm, said, heard>>
      BY <2>1, PairFacts DEF InitConnection
    <3>2. /\ pc'[s] = "key" /\ pc'[r] = pc[r]
          /\ expecting'[s] = m /\ expecting'[r] = expecting[r]
      BY <3>1, PairFacts DEF NetTypeOK
    <3>. QED  BY <3>1, <3>2 DEF SettingUp, Untouched, wires, setupVars
  <2>2. CASE InitConnection(r, m)
    <3>1. /\ pc[r] = "role" /\ (pc[s] = "role" \/ expecting[s] # m)
          /\ expecting' = [expecting EXCEPT ![r] = m] /\ pc' = [pc EXCEPT ![r] = "key"]
          /\ UNCHANGED <<wires, wait, bits, byte, cipher, setupVars, calm, said, heard>>
      BY <2>2, PairFacts DEF InitConnection
    <3>2. /\ pc'[r] = "key" /\ pc'[s] = pc[s]
          /\ expecting'[r] = m /\ expecting'[s] = expecting[s]
      BY <3>1, PairFacts DEF NetTypeOK
    <3>. QED  BY <3>1, <3>2 DEF SettingUp, Untouched, wires, setupVars
  <2>. QED  BY <1>1, <2>1, <2>2
<1>2. ASSUME NEW k, EnterKey(s, k)
      PROVE  SettingUp(s, r)'
  <2>1. /\ pc[s] = "key" /\ k \in Approved /\ (expecting[s] => pc[r] = "loop")
        /\ key' = [key EXCEPT ![s] = k] /\ cipher' = [cipher EXCEPT ![s] = rc4_init(k)]
        /\ expecting' = [expecting EXCEPT ![s] = @]
        /\ output' = [output EXCEPT ![s] = ~expecting[s]]
        /\ signal' = [signal EXCEPT ![s] = IF expecting[s] THEN 0 ELSE @]
        /\ pc' = [pc EXCEPT ![s] = "loop"]
        /\ UNCHANGED <<wait, bits, byte, serial, said, heard>>
    BY <1>2, PairFacts DEF EnterKey, Config
  <2>2. /\ ~expecting[s] /\ pc'[s] = "loop" /\ pc'[r] = pc[r]
        /\ key'[s] = k /\ key'[r] = key[r]
        /\ cipher'[s] = rc4_init(k) /\ cipher'[r] = cipher[r]
        /\ signal'[s] = 0 /\ signal'[r] = 0
    BY <2>1, PairFacts DEF NetTypeOK, SettingUp, Untouched
  <2>3. /\ expecting'[s] = expecting[s] /\ expecting'[r] = expecting[r]
        /\ output'[s] /\ output'[r] = output[r]
    BY <2>1, <2>2, PairFacts DEF NetTypeOK
  <2>4. pc[r] # "role" => expecting[s] # expecting[r]
    BY <2>1 DEF SettingUp
  <2>5. Untouched(s)'
    BY <2>1, <2>2, <2>3 DEF SettingUp, Untouched
  <2>6. Untouched(r)'
    BY <2>1, <2>2, <2>3 DEF SettingUp, Untouched
  <2>. QED  BY <2>2, <2>3, <2>4, <2>5, <2>6 DEF SettingUp
<1>3. ASSUME NEW k, EnterKey(r, k)
      PROVE  SettingUp(r, s)' \/ Quiet(s, r)'
  <2>1. /\ pc[r] = "key" /\ k \in Approved /\ (expecting[r] => pc[s] = "loop")
        /\ key[s] \in {NoKey, k}
        /\ key' = [key EXCEPT ![r] = k] /\ cipher' = [cipher EXCEPT ![r] = rc4_init(k)]
        /\ expecting' = [expecting EXCEPT ![r] = @]
        /\ output' = [output EXCEPT ![r] = ~expecting[r]]
        /\ signal' = [signal EXCEPT ![r] = IF expecting[r] THEN 0 ELSE @]
        /\ pc' = [pc EXCEPT ![r] = "loop"]
        /\ UNCHANGED <<wait, bits, byte, serial, said, heard>>
    BY <1>3, PairFacts DEF EnterKey, Config
  <2>2. /\ pc'[r] = "loop" /\ pc'[s] = pc[s] /\ key'[r] = k /\ key'[s] = key[s]
        /\ cipher'[r] = rc4_init(k) /\ cipher'[s] = cipher[s]
        /\ signal'[s] = 0 /\ signal'[r] = 0
    BY <2>1, PairFacts DEF NetTypeOK, SettingUp, Untouched
  <2>3. /\ expecting'[s] = expecting[s] /\ expecting'[r] = expecting[r]
        /\ (output'[r] <=> ~expecting[r]) /\ output'[s] = output[s]
    BY <2>1, PairFacts DEF NetTypeOK
  <2>4. pc[s] # "role" => expecting[s] # expecting[r]
    BY <2>1 DEF SettingUp
  <2>5. CASE pc[s] = "loop"
    <3>1. ~expecting[s] /\ output[s] /\ key[s] = k /\ cipher[s] = rc4_init(k)
      BY <2>1, <2>5, Constants DEF SettingUp, Untouched
    <3>2. expecting[r]
      BY <2>4, <2>5, <3>1, PairFacts DEF NetTypeOK
    <3>3. Sending(s, r)'
      BY <2>1, <2>2, <2>3, <3>1, <3>2 DEF Sending, SettingUp, Untouched
    <3>4. AllHeard(s, r)'
      BY <2>1, <2>2, <3>1 DEF AllHeard, SettingUp, Untouched
    <3>5. Len(serial'[s]) <= 1
      BY <2>1, EmptySeq DEF SettingUp, Untouched
    <3>. QED  BY <2>2, <2>5, <3>3, <3>4, <3>5 DEF Quiet
  <2>6. CASE pc[s] # "loop"
    <3>1. ~expecting[r]
      BY <2>1, <2>6
    <3>2. Untouched(r)' /\ Untouched(s)'
      BY <2>1, <2>2, <2>3, <3>1 DEF SettingUp, Untouched
    <3>. QED  BY <2>2, <2>3, <2>4, <2>6, <3>2 DEF SettingUp
  <2>. QED  BY <2>5, <2>6
<1>. QED  BY <1>1, <1>2, <1>3 DEF Setup

-----------------------------------------------------------------------------
(* The conversation                                                        *)

LEMMA ConversationStarts == NetInit => Conversation
<1>. SUFFICES ASSUME NetInit PROVE Conversation
  OBVIOUS
<1>1. PICK s, r \in Stations : Pair(s, r)
  BY ThereIsAPair
<1>2. SettingUp(s, r)
  BY <1>1 DEF NetInit, SettingUp, Untouched
<1>. QED  BY <1>1, <1>2, TypesInit DEF Conversation

LEMMA TypesStep ==
    ASSUME Prompted, NEW s, NEW r, Pair(s, r), NetTypeOK,
           SettingUp(s, r) \/ Talking(s, r), NetNext
    PROVE  NetTypeOK'
<1>1. /\ SettingUp(s, r) => Setup(s) \/ Setup(r) \/ Tick
      /\ Quiet(s, r) => SendByte(s) \/ (\E x \in Byte : Type(s, x)) \/ Tick
      /\ Raised(s, r) => SeeHigh(r)
      /\ Held(s, r) => Lower(s) \/ Tick
      /\ Lowered(s, r) => SeeLow(r)
      /\ Between(s, r) => NextBit(s) \/ Tick
      /\ Printed(s, r) => EndOfByte(s) \/ Tick
      /\ Turning(s, r) =>
            EndOfByte(s) \/ SendByte(r) \/ Tick \/ (\E x \in Byte : Type(r, x))
      /\ Overlap(s, r) => EndOfByte(r) \/ Tick
  BY SetupMoves, QuietMoves, RaisedMoves, HeldMoves, LoweredMoves, BetweenMoves,
     PrintedMoves, TurningMoves, OverlapMoves
<1>2. Setup(s) \/ Setup(r) => NetTypeOK'
  BY PairFacts, TypesSetup
<1>3. (\E x \in Byte : Type(s, x) \/ Type(r, x)) => NetTypeOK'
  BY PairFacts, TypesType
<1>4. /\ SendByte(s) \/ Lower(s) \/ NextBit(s) \/ EndOfByte(s) => NetTypeOK'
      /\ SendByte(r) \/ EndOfByte(r) => NetTypeOK'
  BY PairFacts, TypesSend DEF Send
<1>5. Raised(s, r) /\ SeeHigh(r) => NetTypeOK'
  <2>. SUFFICES ASSUME Raised(s, r), SeeHigh(r) PROVE NetTypeOK'
    OBVIOUS
  <2>1. Len(bits[r]) < W
    BY RaisedIsSeen
  <2>2. Reads(data) = {data[s]}
    BY SignalIsRead DEF Raised, InByte
  <2>3. Reads(data) \subseteq {0, 1} /\ r \in Stations
    BY <2>2, PairFacts DEF NetTypeOK
  <2>4. ~SeeLow(r)
    BY DEF SeeLow, Raised
  <2>. QED  BY <2>1, <2>3, <2>4, TypesReceive DEF Receive
<1>6. Lowered(s, r) /\ SeeLow(r) => NetTypeOK'
  <2>. SUFFICES ASSUME Lowered(s, r), SeeLow(r) PROVE NetTypeOK'
    OBVIOUS
  <2>1. Len(bits[r]) >= W => rc4_crypt(cipher[r], FromBits(bits[r])) \in Byte
    BY LoweredIsSeen
  <2>2. ~SeeHigh(r) /\ r \in Stations
    BY PairFacts DEF SeeHigh, Lowered
  <2>. QED  BY <2>1, <2>2, TypesReceive DEF Receive
<1>. QED  BY <1>1, <1>2, <1>3, <1>4, <1>5, <1>6, TypesTick DEF Talking

LEMMA ConversationGoesOn ==
    ASSUME Prompted, Conversation, [NetNext]_netVars
    PROVE  Conversation'
<1>1. PICK s, r \in Stations : Pair(s, r) /\ (SettingUp(s, r) \/ Talking(s, r))
  BY DEF Conversation
<1>2. NetTypeOK
  BY DEF Conversation
<1>3. Pair(r, s) /\ Pair(s, r)
  BY <1>1 DEF Pair
<1>4. CASE UNCHANGED netVars
  <2>1. NetTypeOK'
    BY <1>2, <1>4 DEF netVars, wires, setupVars, NetTypeOK
  <2>2. SettingUp(s, r) => SettingUp(s, r)'
    BY <1>4 DEF netVars, wires, setupVars, SettingUp, Untouched
  <2>3. Talking(s, r) => Talking(s, r)'
    <3>1. /\ Sending(s, r)' <=> Sending(s, r)
          /\ InByte(s, r)' <=> InByte(s, r)
          /\ AllHeard(s, r)' <=> AllHeard(s, r)
          /\ Code(s, r)' = Code(s, r)
      BY <1>4 DEF netVars, wires, setupVars, Sending, InByte, AllHeard, Code
    <3>. QED  BY <1>4, <3>1 DEF netVars, wires, setupVars, Talking, Quiet, Raised,
           Held, Lowered, Between, Printed, Turning, Overlap
  <2>. QED  BY <1>1, <1>3, <2>1, <2>2, <2>3 DEF Conversation, Pair
<1>5. CASE NetNext
  <2>1. NetTypeOK'
    BY <1>1, <1>2, <1>5, TypesStep
  <2>2. SettingUp(s, r) => SettingUp(s, r)' \/ SettingUp(r, s)' \/ Quiet(s, r)'
    BY <1>2, <1>3, <1>5, SetupMoves, SetupGoesOn, TalkingTicks
  <2>3. Quiet(s, r) => Quiet(s, r)' \/ Raised(s, r)'
    BY <1>2, <1>3, <1>5, QuietMoves, QuietSends, QuietTypes, TalkingTicks
  <2>4. Raised(s, r) => Held(s, r)'
    BY <1>2, <1>3, <1>5, RaisedMoves, RaisedIsSeen
  <2>5. Held(s, r) => Held(s, r)' \/ Lowered(s, r)'
    BY <1>2, <1>3, <1>5, HeldMoves, HeldIsLowered, TalkingTicks
  <2>6. Lowered(s, r) => Between(s, r)' \/ Printed(s, r)' \/ Turning(s, r)'
    BY <1>2, <1>3, <1>5, LoweredMoves, LoweredIsSeen
  <2>7. Between(s, r) => Between(s, r)' \/ Raised(s, r)'
    BY <1>2, <1>3, <1>5, BetweenMoves, BetweenIsRaised, TalkingTicks
  <2>8. Printed(s, r) => Printed(s, r)' \/ Quiet(s, r)'
    BY <1>2, <1>3, <1>5, PrintedMoves, PrintedIsQuiet, TalkingTicks
  <2>9. Turning(s, r) => Turning(s, r)' \/ Quiet(r, s)' \/ Overlap(r, s)'
    BY <1>2, <1>3, <1>5, TurningMoves, TurningIsQuiet, TurningTypes, TurningSends,
       TalkingTicks
  <2>11. Overlap(s, r) => Overlap(s, r)' \/ Raised(s, r)'
    BY <1>2, <1>3, <1>5, OverlapMoves, OverlapIsRaised, TalkingTicks
  <2>10. \/ SettingUp(s, r)' \/ Talking(s, r)'
         \/ SettingUp(r, s)' \/ Talking(r, s)'
    BY <1>1, <2>2, <2>3, <2>4, <2>5, <2>6, <2>7, <2>8, <2>9,
       <2>11 DEF Talking
  <2>. QED  BY <1>1, <1>3, <2>1, <2>10 DEF Conversation, Pair
<1>. QED  BY <1>4, <1>5

LEMMA PrefixOf ==
    ASSUME NEW T, NEW a \in Seq(T), NEW x \in T
    PROVE  /\ IsPrefix(a, a) /\ Len(a) <= Len(a) + 1
           /\ IsPrefix(a, Append(a, x)) /\ Len(Append(a, x)) <= Len(a) + 1
BY DEF IsPrefix

LEMMA ConversationIsInStep ==
    ASSUME Conversation
    PROVE  /\ NetTypeOK /\ CiphersInStep /\ SomebodySends
           /\ PulseOutlastsTurn /\ HeardIsSaid
<1>1. PICK s, r \in Stations : Pair(s, r) /\ (SettingUp(s, r) \/ Talking(s, r))
  BY DEF Conversation
<1>2. NetTypeOK
  BY DEF Conversation
<1>3. CASE SettingUp(s, r)
  <2>1. ~Ready
    BY <1>3, PairFacts DEF Ready, SettingUp, Untouched
  <2>2. signal[s] = 0 /\ signal[r] = 0
    BY <1>3 DEF SettingUp, Untouched
  <2>3. PulseOutlastsTurn
    BY <1>1, <2>2, PairFacts DEF PulseOutlastsTurn
  <2>4. HeardIsSaid
    <3>1. \A b \in Stations : heard[Other(b)] = <<>> /\ said[b] = <<>>
      BY <1>1, <1>3, PairFacts DEF SettingUp, Untouched
    <3>2. IsPrefix(<<>>, <<>>) /\ Len(<<>>) <= Len(<<>>) + 1
      BY EmptySeq DEF IsPrefix
    <3>. QED  BY <3>1, <3>2 DEF HeardIsSaid
  <2>. QED  BY <1>2, <2>1, <2>3, <2>4 DEF CiphersInStep, SomebodySends
<1>4. CASE Talking(s, r)
  <2>1. CiphersInStep
    <3>1. CASE Quiet(s, r)
      <4>1. \A a, b \in Stations : cipher[a] = cipher[b]
        BY <1>1, <3>1, PairFacts DEF Quiet, AllHeard
      <4>. QED  BY <4>1 DEF CiphersInStep
    <3>2. CASE ~Quiet(s, r)
      <4>1. InTransit(s)
        BY <1>4, <3>2 DEF Talking, Raised, Held, Lowered, Between, Printed, Turning,
                          Overlap, InTransit
      <4>. QED  BY <4>1 DEF CiphersInStep
    <3>. QED  BY <3>1, <3>2
  <2>2. SomebodySends
    <3>1. ~expecting[s]
      BY <1>4 DEF Talking, Quiet, Raised, Held, Lowered, Between, Printed, Turning,
                  Overlap, InByte, Sending
    <3>. QED  BY <3>1 DEF SomebodySends
  <2>3. PulseOutlastsTurn
    <3>1. CASE Overlap(s, r)
      <4>1. /\ signal[s] = 1 /\ signal[r] = 0 /\ wait[r] < wait[s]
            /\ pc[r] = "low" /\ bits[r] = <<>> /\ Turns(byte[r])
        BY <3>1 DEF Overlap
      <4>. QED  BY <1>1, <4>1, PairFacts DEF PulseOutlastsTurn
    <3>2. CASE ~Overlap(s, r)
      <4>1. output[s] /\ output[r] => signal[s] = signal[r]
        BY <1>4, <3>2 DEF Talking, Quiet, Raised, Held, Lowered, Between, Printed,
                          Turning, InByte, Sending, AllHeard
      <4>2. \A a, b \in Stations : output[a] /\ output[b] => signal[a] = signal[b]
        BY <1>1, <4>1, PairFacts
      <4>. QED  BY <4>2 DEF PulseOutlastsTurn
    <3>. QED  BY <3>1, <3>2
  <2>4. HeardIsSaid
    <3>1. /\ heard[s] = said[r]
          /\ heard[r] = said[s] \/ said[s] = Append(heard[r], byte[s])
      BY <1>4 DEF Talking, Quiet, Raised, Held, Lowered, Between, Printed, Turning,
                  Overlap, InByte, Sending, AllHeard
    <3>2. /\ heard[s] \in Seq(Byte) /\ heard[r] \in Seq(Byte) /\ byte[s] \in Byte
          /\ said[s] \in Seq(Byte) /\ said[r] \in Seq(Byte)
      BY <1>2, <1>1, PairFacts DEF NetTypeOK
    <3>3. /\ IsPrefix(heard[r], said[s]) /\ Len(said[s]) <= Len(heard[r]) + 1
          /\ IsPrefix(heard[s], said[r]) /\ Len(said[r]) <= Len(heard[s]) + 1
      BY <3>1, <3>2, PrefixOf
    <3>. QED  BY <1>1, <3>3, PairFacts DEF HeardIsSaid
  <2>. QED  BY <1>2, <2>1, <2>2, <2>3, <2>4
<1>. QED  BY <1>1, <1>3, <1>4

(* A pulse ends in the phase Held, or it goes on.                           *)
LEMMA ConversationReadsPulses ==
    ASSUME Prompted, Conversation, [NetNext]_netVars
    PROVE  [PulseIsRead]_netVars
<1>. SUFFICES ASSUME NetNext, NEW b \in Stations, signal[b] = 1, signal'[b] = 0
              PROVE  pc[Other(b)] = "hold"
  BY DEF PulseIsRead
<1>1. PICK s, r \in Stations : Pair(s, r) /\ (SettingUp(s, r) \/ Talking(s, r))
  BY DEF Conversation
<1>2. NetTypeOK
  BY DEF Conversation
<1>3. b = s \/ b = r
  BY <1>1, PairFacts
<1>4. b = s /\ (Raised(s, r) \/ Held(s, r) \/ Overlap(s, r))
  <2>1. signal[r] = 0
    BY <1>1 DEF SettingUp, Untouched, Talking, Quiet, Raised, Held, Lowered,
                Between, Printed, Turning, Overlap, InByte, Sending
  <2>2. signal[s] = 0 \/ Raised(s, r) \/ Held(s, r) \/ Overlap(s, r)
    BY <1>1 DEF SettingUp, Untouched, Talking, Quiet, Lowered, Between, Printed,
                Turning, AllHeard
  <2>3. signal[b] # 0
    OBVIOUS
  <2>. QED  BY <1>3, <2>1, <2>2, <2>3
<1>5. ~Raised(s, r) /\ ~Overlap(s, r)
  <2>1. Raised(s, r) => SeeHigh(r)
    BY <1>1, <1>2, RaisedMoves
  <2>2. SeeHigh(r) \/ Tick => signal' = signal
    BY DEF SeeHigh, Tick, wires
  <2>3. Overlap(s, r) => EndOfByte(r) \/ Tick
    BY <1>1, <1>2, OverlapMoves
  <2>4. Overlap(s, r) /\ EndOfByte(r) => Raised(s, r)'
    BY <1>1, <1>2, OverlapIsRaised
  <2>5. Raised(s, r)' => signal'[s] = 1
    BY DEF Raised
  <2>6. signal'[s] = 0
    BY <1>4
  <2>. QED  BY <2>1, <2>2, <2>3, <2>4, <2>5, <2>6
<1>6. pc[r] = "hold"
  BY <1>4, <1>5 DEF Held
<1>. QED  BY <1>1, <1>4, <1>6, PairFacts

(* The cipher undoes itself: what one station encrypts with a state of the  *)
(* cipher, the other one reads with that state (rc4_crypt is its own        *)
(* inverse, GrinchNet.ino), for every width of a byte.                      *)
THEOREM CipherUndoesItself ==
    \A c \in Cipher, x \in Byte :
        IsPermutation(c.S) => rc4_crypt(c, rc4_crypt(c, x)) = x
BY CryptTwice

(* The key schedule shuffles: whatever the key, rc4_init leaves every byte  *)
(* exactly once in the array (GrinchNet.ino, rc4_init).                     *)
THEOREM KeySchedulePermutes ==
    \A k \in Seq(Nat) \ {<<>>} :
        rc4_init(k) \in Cipher /\ IsPermutation(rc4_init(k).S)
BY InitShuffles

(* At every moment of a call the stations are being set up, or one of them  *)
(* speaks and the byte on its way is in one of its phases (the delays of    *)
(* gpio_write_bit and the loops of gpio_read_bit, GrinchNet.ino).           *)
THEOREM StationsKeepTheirPhase ==
    ASSUME Prompted
    PROVE  NetSpec => []Conversation
<1>1. NetInit => Conversation
  BY ConversationStarts
<1>2. Conversation /\ [NetNext]_netVars => Conversation'
  BY ConversationGoesOn
<1>. QED  BY <1>1, <1>2, PTL DEF NetSpec

(* A call between operators who wait for their prompts and for each echo    *)
(* stays in step, however soon after the prompt they type, for every        *)
(* alphabet, bit time, set of keys and length of the conversation: who      *)
(* listens has printed what was typed, both ciphers are in the same state   *)
(* between bytes, the stations never both listen, and no pulse is missed,   *)
(* not even one that begins before the line is turned                       *)
(* (GrinchNet.ino:105-217).                                                 *)
THEOREM StationsStayInStep ==
    ASSUME Prompted
    PROVE  NetSpec => ConversationInStep
<1>1. NetSpec => []Conversation
  BY StationsKeepTheirPhase
<1>2. Conversation =>
        NetTypeOK /\ CiphersInStep /\ SomebodySends /\ PulseOutlastsTurn /\ HeardIsSaid
  BY ConversationIsInStep
<1>3. Conversation /\ [NetNext]_netVars => [PulseIsRead]_netVars
  BY ConversationReadsPulses
<1>. QED  BY <1>1, <1>2, <1>3, PTL DEF NetSpec, ConversationInStep
=============================================================================
