------------------------- MODULE HeapPlaygroundProofs -------------------------
(***************************************************************************)
(* The heap playground implements the store of numbered texts, wherever    *)
(* malloc puts the chunks, until an edit at the most negative index writes *)
(* in front of a text.                                                     *)
(*                                                                         *)
(* List is computed by a loop over the pointers, so nothing can be said of *)
(* it before one knows that the loop ends.  The proofs name a sequence of  *)
(* addresses that is Strung on the pointers instead: Create puts the new   *)
(* address behind it, Delete takes one out.  Such a sequence is what the   *)
(* loop visits (VisitedIsStrung), and what the store sees (TextsOfStrung). *)
(***************************************************************************)
EXTENDS HeapPlayground, SequenceTheorems, FiniteSetTheorems, WellFoundedInduction,
        NaturalsInduction, TLAPS

-----------------------------------------------------------------------------
(* Sequences that follow the pointers *)

(* l starts at first, goes from pointer to pointer through all of the       *)
(* chunks, and ends at a null pointer; the numbers of the chunks ascend.    *)
Strung(l, first, mem) ==
    /\ l \in Seq(DOMAIN mem)
    /\ \A a \in DOMAIN mem : \E p \in 1..Len(l) : l[p] = a
    /\ first = IF l = <<>> THEN Null ELSE l[1]
    /\ \A p \in 1..Len(l) : mem[l[p]].next = IF p = Len(l) THEN Null ELSE l[p + 1]
    /\ \A p \in 1..Len(l) : mem[l[p]].id \in Nat
    /\ \A p, q \in 1..Len(l) : p < q => mem[l[p]].id < mem[l[q]].id

LEMMA StrungOnce ==
    ASSUME NEW l, NEW first, NEW mem, Strung(l, first, mem),
           NEW p \in 1..Len(l), NEW q \in 1..Len(l),
           l[p] = l[q] \/ mem[l[p]].id = mem[l[q]].id
    PROVE  p = q
<1>. DEFINE id(r) == mem[l[r]].id
<1>1. Len(l) \in Nat
  BY DEF Strung
<1>2. id(p) \in Nat /\ (p < q => id(p) < id(q)) /\ (q < p => id(q) < id(p))
  BY DEF Strung
<1>3. id(p) = id(q)
  OBVIOUS
<1>. HIDE DEF id
<1>. QED  BY <1>1, <1>2, <1>3

(* It visits each chunk once, and so there are as many.                     *)
LEMMA StrungLength ==
    ASSUME NEW l, NEW first, NEW mem, Strung(l, first, mem),
           DOMAIN mem \subseteq Addresses
    PROVE  /\ Range(l) = DOMAIN mem
           /\ Len(l) \in Nat /\ Len(l) = Cardinality(DOMAIN mem)
           /\ Len(l) <= Cardinality(Addresses) /\ Cardinality(Addresses) \in Nat
<1>1. l \in Seq(DOMAIN mem) /\ Len(l) \in Nat /\ DOMAIN l = 1..Len(l)
  BY DEF Strung
<1>2. l \in Bijection(1..Len(l), DOMAIN mem)
  <2>1. l \in [1..Len(l) -> DOMAIN mem]
    BY <1>1
  <2>2. \A p, q \in 1..Len(l) : l[p] = l[q] => p = q
    BY StrungOnce
  <2>3. \A a \in DOMAIN mem : \E p \in 1..Len(l) : l[p] = a
    BY DEF Strung
  <2>. QED  BY <2>1, <2>2, <2>3 DEF Bijection, Injection, Surjection, IsInjective
<1>3. Len(l) = Cardinality(DOMAIN mem)
  <2>1. ExistsBijection(1..Len(l), DOMAIN mem)
    BY <1>2 DEF ExistsBijection
  <2>. QED  BY <1>1, <2>1, FS_CountingElements, Zenon
<1>4. Cardinality(DOMAIN mem) <= Cardinality(Addresses) /\ Cardinality(Addresses) \in Nat
  BY HeapAssumption, FS_Subset, FS_CardinalityType, Zenon
<1>5. Range(l) = DOMAIN mem
  <2>1. \A a \in DOMAIN mem : \E p \in 1..Len(l) : l[p] = a
    BY DEF Strung
  <2>2. \A p \in 1..Len(l) : l[p] \in DOMAIN mem
    BY <1>1
  <2>. QED  BY <1>1, <2>1, <2>2 DEF Range
<1>. QED  BY <1>1, <1>3, <1>4, <1>5

LEMMA SmallestNat ==
    ASSUME NEW T, T \subseteq Nat, T # {}
    PROVE  \E m \in T : \A n \in T : m <= n
<1>1. PICK m \in T : \A n \in T : ~ (<< n, m >> \in OpToRel(<, Nat))
  BY WFMin, NatLessThanWellFounded
<1>2. \A n \in T : ~ (n < m)
  BY <1>1 DEF OpToRel
<1>. QED  BY <1>2

(* The first n + 1 of a sequence that has them.                             *)
Upto(l, n) == [p \in 1..(IF n + 1 < Len(l) THEN n + 1 ELSE Len(l)) |-> l[p]]

LEMMA OnwardUpto ==
    ASSUME NEW l, NEW first, NEW mem, Strung(l, first, mem),
           DOMAIN mem \subseteq Addresses, NEW n \in Nat
    PROVE  Onward(Upto(l, n), mem) = Upto(l, n + 1)
<1>. DEFINE u == Upto(l, n)
            e == IF n + 1 < Len(l) THEN n + 1 ELSE Len(l)
<1>1. Len(l) \in Nat /\ e \in Nat /\ e <= Len(l) /\ l \in Seq(DOMAIN mem)
  BY DEF Strung
<1>2. /\ u \in Seq(DOMAIN mem) /\ Len(u) = e
      /\ \A p \in 1..e : u[p] = l[p]
  BY <1>1 DEF Upto
<1>3. CASE l = <<>>
  <2>1. Len(l) = 0 /\ u = <<>> /\ Upto(l, n + 1) = <<>>
    BY <1>1, <1>2, <1>3 DEF Upto
  <2>. QED  BY <2>1 DEF Onward
<1>4. CASE l # <<>>
  <2>1. e >= 1 /\ u # <<>> /\ u[Len(u)] = l[e] /\ l[e] \in DOMAIN mem
    BY <1>1, <1>2, <1>4
  <2>2. mem[l[e]].next = IF e = Len(l) THEN Null ELSE l[e + 1]
    <3>1. e \in 1..Len(l)
      BY <1>1, <2>1
    <3>. QED  BY <3>1 DEF Strung
  <2>3. CASE e = Len(l)
    <3>1. Onward(u, mem) = u
      BY <2>1, <2>2, <2>3 DEF Onward
    <3>2. Upto(l, n + 1) = u
      BY <1>1, <2>3 DEF Upto
    <3>. QED  BY <3>1, <3>2
  <2>4. CASE e # Len(l)
    <3>1. e = n + 1 /\ n + 2 <= Len(l) /\ l[n + 2] \in DOMAIN mem
      BY <1>1, <2>4
    <3>2. l[n + 2] # Null
      <4>1. l[n + 2] \in Addresses
        BY <3>1
      <4>. QED BY <4>1, HeapAssumption DEF Null
    <3>3. Onward(u, mem) = Append(u, l[n + 2])
      BY <2>1, <2>2, <2>4, <3>1, <3>2 DEF Onward
    <3>4. Upto(l, n + 1) = Append(u, l[n + 2])
      BY <1>1, <1>2, <3>1 DEF Upto
    <3>. QED  BY <3>3, <3>4
  <2>. QED  BY <2>3, <2>4
<1>. QED  BY <1>3, <1>4

(* The loop visits a sequence that is strung on the pointers: the function  *)
(* of its beginnings satisfies the recursion, and so does no other.         *)
LEMMA VisitedIsStrung ==
    ASSUME NEW l, NEW first, NEW mem, Strung(l, first, mem),
           DOMAIN mem \subseteq Addresses
    PROVE  Visited(first, mem) = l
<1>. DEFINE C == Cardinality(Addresses)
            Step(f) == [n \in 0..C |->
                IF n = 0 THEN (IF first = Null THEN <<>> ELSE <<first>>)
                ELSE CHOOSE r \in {Onward(k, mem) : k \in {f[n - 1]}} : TRUE]
            known == [n \in 0..C |-> Upto(l, n)]
            From == CHOOSE f : f = Step(f)
<1>1. l \in Seq(DOMAIN mem) /\ Len(l) \in Nat /\ C \in Nat /\ Len(l) <= C
  BY StrungLength DEF Strung
<1>2. Upto(l, 0) = IF first = Null THEN <<>> ELSE <<first>>
  <2>1. CASE l = <<>>
    BY <2>1, <1>1 DEF Upto, Strung
  <2>2. CASE l # <<>>
    <3>1. Len(l) >= 1 /\ first = l[1] /\ l[1] \in DOMAIN mem
      BY <1>1, <2>2 DEF Strung
    <3>2. first # Null
      BY <3>1, HeapAssumption DEF Null
    <3>3. Upto(l, 0) = <<l[1]>>
      BY <1>1, <3>1 DEF Upto
    <3>. QED  BY <3>1, <3>2, <3>3
  <2>. QED  BY <2>1, <2>2
<1>3. \A k : (CHOOSE r \in {Onward(j, mem) : j \in {k}} : TRUE) = Onward(k, mem)
  <2>. TAKE k
  <2>1. {Onward(j, mem) : j \in {k}} = {Onward(k, mem)}
    OBVIOUS
  <2>. QED  BY <2>1
<1>. HIDE DEF C
<1>4. known = Step(known)
  <2>1. ASSUME NEW n \in 0..C, n # 0
        PROVE  known[n] = Onward(known[n - 1], mem)
    <3>1. n - 1 \in 0..C /\ n - 1 \in Nat /\ (n - 1) + 1 = n
      BY <1>1, <2>1
    <3>2. Onward(Upto(l, n - 1), mem) = Upto(l, (n - 1) + 1)
      BY <3>1, OnwardUpto
    <3>. QED  BY <3>1, <3>2
  <2>2. \A n \in 0..C : known[n] = Step(known)[n]
    BY <1>1, <1>2, <1>3, <2>1
  <2>. QED  BY <2>2
<1>5. From = Step(From)
  BY <1>4
<1>6. \A n \in 0..C : From[n] = Upto(l, n)
  <2>. DEFINE T == {n \in 0..C : From[n] # Upto(l, n)}
  <2>. SUFFICES ASSUME T # {} PROVE FALSE
    OBVIOUS
  <2>. HIDE DEF From
  <2>0. T \subseteq Nat
    BY <1>1
  <2>1. PICK n \in T : \A k \in T : n <= k
    <3>. HIDE DEF T
    <3>. QED  BY <2>0, SmallestNat
  <2>2. n # 0
    BY <1>1, <1>2, <1>5, <2>1
  <2>3. n - 1 \in 0..C /\ n - 1 \in Nat /\ (n - 1) + 1 = n /\ n - 1 \notin T
    BY <1>1, <2>1, <2>2
  <2>4. From[n - 1] = Upto(l, n - 1)
    BY <2>3
  <2>5. From[n] = CHOOSE r \in {Onward(k, mem) : k \in {From[n - 1]}} : TRUE
    BY <1>5, <2>1, <2>2
  <2>6. From[n] = Onward(From[n - 1], mem)
    BY <1>3, <2>5
  <2>7. Onward(Upto(l, n - 1), mem) = Upto(l, (n - 1) + 1)
    BY <2>3, OnwardUpto
  <2>8. From[n] = Upto(l, n)
    BY <2>3, <2>4, <2>6, <2>7
  <2>. QED  BY <2>1, <2>8
<1>7. Upto(l, C) = l
  BY <1>1 DEF Upto
<1>8. Visited(first, mem) = From[C]
  BY DEF Visited, C
<1>. QED  BY <1>1, <1>6, <1>7, <1>8

-----------------------------------------------------------------------------
(* What the commands do to a strung sequence                               *)

LEMMA AppendedSeq ==
    ASSUME NEW T, NEW U, T \subseteq U, NEW s \in Seq(T), NEW x \in U
    PROVE  /\ Append(s, x) \in Seq(U) /\ Append(s, x) # <<>>
           /\ Len(Append(s, x)) = Len(s) + 1 /\ Append(s, x)[Len(s) + 1] = x
           /\ \A p \in 1..Len(s) : Append(s, x)[p] = s[p] /\ s[p] \in T
           /\ Len(s) \in Nat /\ (s = <<>> <=> Len(s) = 0)
<1>1. s \in Seq(U)
  OBVIOUS
<1>2. /\ Append(s, x) \in Seq(U) /\ Len(Append(s, x)) = Len(s) + 1
      /\ Append(s, x)[Len(s) + 1] = x /\ Len(s) \in Nat
      /\ \A p \in 1..Len(s) : Append(s, x)[p] = s[p]
  BY <1>1
<1>3. \A p \in 1..Len(s) : s[p] \in T
  OBVIOUS
<1>4. Append(s, x) # <<>> /\ (s = <<>> <=> Len(s) = 0)
  BY <1>2, EmptySeq
<1>. QED  BY <1>2, <1>3, <1>4

LEMMA SeqOfFunction ==
    ASSUME NEW T, NEW k \in Nat, NEW f \in [1..k -> T]
    PROVE  f \in Seq(T) /\ Len(f) = k /\ (f = <<>> <=> k = 0)
OBVIOUS

(* Create: the new chunk, with the highest number, is put behind.           *)
LEMMA StrungAppended ==
    ASSUME NEW l, NEW first, NEW mem, NEW mem2, NEW a, NEW i \in Nat,
           Strung(l, first, mem), a \notin DOMAIN mem, a # Null,
           \A p \in 1..Len(l) : mem[l[p]].id < i,
           DOMAIN mem2 = DOMAIN mem \cup {a},
           mem2[a].id = i, mem2[a].next = Null,
           \A b \in DOMAIN mem : mem2[b].id = mem[b].id,
           \A b \in DOMAIN mem : mem2[b].next =
               IF l # <<>> /\ b = l[Len(l)] THEN a ELSE mem[b].next
    PROVE  Strung(Append(l, a), IF l = <<>> THEN a ELSE first, mem2)
<1>. DEFINE r == Append(l, a)
            n == Len(l)
<1>1. /\ l \in Seq(DOMAIN mem) /\ n \in Nat /\ (l = <<>> <=> n = 0)
      /\ r \in Seq(DOMAIN mem2) /\ Len(r) = n + 1 /\ r[n + 1] = a /\ r # <<>>
      /\ \A p \in 1..n : r[p] = l[p] /\ l[p] \in DOMAIN mem
  <2>1. l \in Seq(DOMAIN mem) /\ DOMAIN mem \subseteq DOMAIN mem2 /\ a \in DOMAIN mem2
    BY DEF Strung
  <2>. QED  BY <2>1, AppendedSeq
<1>2. \A b \in DOMAIN mem2 : \E p \in 1..Len(r) : r[p] = b
  <2>1. \A b \in DOMAIN mem : \E p \in 1..n : l[p] = b
    BY DEF Strung
  <2>2. \A p \in 1..n : p \in 1..Len(r)
    BY <1>1
  <2>3. n + 1 \in 1..Len(r)
    BY <1>1
  <2>. QED  BY <1>1, <2>1, <2>2, <2>3
<1>3. (IF l = <<>> THEN a ELSE first) = IF r = <<>> THEN Null ELSE r[1]
  <2>1. l # <<>> => 1 \in 1..n /\ first = l[1]
    BY <1>1 DEF Strung
  <2>. QED  BY <1>1, <2>1
<1>4. ASSUME NEW p \in 1..Len(r)
      PROVE  mem2[r[p]].next = IF p = Len(r) THEN Null ELSE r[p + 1]
  <2>1. CASE p = n + 1
    BY <1>1, <2>1
  <2>2. CASE p = n /\ n # 0
    <3>1. p \in 1..n /\ l # <<>>
      BY <1>1, <2>2
    <3>. QED  BY <1>1, <2>2, <3>1
  <2>3. CASE p \in 1..n /\ p # n
    <3>1. p + 1 \in 1..n /\ n \in 1..n /\ p # Len(r)
      BY <1>1, <2>3
    <3>2. mem[l[p]].next = l[p + 1]
      BY <2>3 DEF Strung
    <3>3. l[p] # l[n]
      BY <2>3, <3>1, StrungOnce
    <3>. QED  BY <1>1, <2>3, <3>1, <3>2, <3>3
  <2>. QED  BY <1>1, <2>1, <2>2, <2>3
<1>5. ASSUME NEW p \in 1..Len(r)
      PROVE  mem2[r[p]].id = IF p = n + 1 THEN i ELSE mem[l[p]].id
  <2>1. p = n + 1 \/ p \in 1..n
    BY <1>1
  <2>2. n + 1 \notin 1..n
    BY <1>1
  <2>. QED  BY <1>1, <2>1, <2>2
<1>6. \A p \in 1..Len(r) : mem2[r[p]].id \in Nat
  <2>1. \A p \in 1..n : mem[l[p]].id \in Nat
    BY DEF Strung
  <2>2. \A p \in 1..Len(r) : p = n + 1 \/ p \in 1..n
    BY <1>1
  <2>. QED  BY <1>5, <2>1, <2>2
<1>7. ASSUME NEW p \in 1..Len(r), NEW q \in 1..Len(r), p < q
      PROVE  mem2[r[p]].id < mem2[r[q]].id
  <2>. HIDE DEF n, r
  <2>1. p \in 1..n /\ p # n + 1 /\ (q \in 1..n <=> q # n + 1)
    BY <1>1, <1>7
  <2>2. q \in 1..n => mem[l[p]].id < mem[l[q]].id
    BY <1>7, <2>1 DEF Strung, n
  <2>3. mem[l[p]].id < i
    BY <2>1 DEF n
  <2>. QED  BY <1>5, <2>1, <2>2, <2>3
<1>. HIDE DEF r, n
<1>8. Strung(r, IF l = <<>> THEN a ELSE first, mem2)
  BY <1>1, <1>2, <1>3, <1>4, <1>6, <1>7 DEF Strung
<1>. QED  BY <1>8 DEF r

(* Delete: one is taken out, and its neighbours meet.                       *)
Without(l, n) == [p \in 1..(Len(l) - 1) |-> IF p < n THEN l[p] ELSE l[p + 1]]

LEMMA StrungWithout ==
    ASSUME NEW l, NEW first, NEW mem, NEW mem2, NEW n \in 1..Len(l),
           Strung(l, first, mem),
           DOMAIN mem2 = DOMAIN mem \ {l[n]},
           \A b \in DOMAIN mem2 : mem2[b].id = mem[b].id,
           \A b \in DOMAIN mem2 : mem2[b].next =
               IF n > 1 /\ b = l[n - 1] THEN mem[l[n]].next ELSE mem[b].next
    PROVE  Strung(Without(l, n), IF n = 1 THEN mem[l[n]].next ELSE first, mem2)
<1>. DEFINE r == Without(l, n)
            At(p) == IF p < n THEN p ELSE p + 1
<1>1. /\ l \in Seq(DOMAIN mem) /\ Len(l) \in Nat /\ n \in Nat /\ n >= 1 /\ n <= Len(l)
      /\ \A p \in 1..Len(l) : l[p] \in DOMAIN mem
  BY DEF Strung
<1>2. \A p \in 1..(Len(l) - 1) : At(p) \in 1..Len(l) /\ At(p) # n
  BY <1>1
<1>3. \A p \in 1..(Len(l) - 1) : l[At(p)] \in DOMAIN mem2
  BY <1>1, <1>2, StrungOnce
<1>4. /\ r \in Seq(DOMAIN mem2) /\ Len(r) = Len(l) - 1
      /\ \A p \in 1..Len(r) : r[p] = l[At(p)]
  <2>1. Len(l) - 1 \in Nat /\ r = [p \in 1..(Len(l) - 1) |-> l[At(p)]]
    BY <1>1 DEF Without
  <2>2. r \in [1..(Len(l) - 1) -> DOMAIN mem2]
    BY <1>3, <2>1
  <2>. HIDE DEF r, At
  <2>3. r \in Seq(DOMAIN mem2) /\ Len(r) = Len(l) - 1
    BY <2>1, <2>2, SeqOfFunction
  <2>. QED  BY <2>1, <2>3
<1>. HIDE DEF r
<1>5. \A b \in DOMAIN mem2 : \E p \in 1..Len(r) : r[p] = b
  <2>. TAKE b \in DOMAIN mem2
  <2>1. PICK q \in 1..Len(l) : l[q] = b
    BY DEF Strung
  <2>2. q # n
    BY <2>1
  <2>3. CASE q < n
    <3>1. q \in 1..Len(r) /\ At(q) = q
      BY <1>1, <1>4, <2>3
    <3>. QED  BY <1>4, <2>1, <3>1
  <2>4. CASE q > n
    <3>1. q - 1 \in 1..Len(r) /\ At(q - 1) = q
      BY <1>1, <1>4, <2>4
    <3>. QED  BY <1>4, <2>1, <3>1
  <2>. QED  BY <1>1, <2>2, <2>3, <2>4
<1>6. \A p \in 1..Len(l) : mem[l[p]].next = IF p = Len(l) THEN Null ELSE l[p + 1]
  BY DEF Strung
<1>7. (IF n = 1 THEN mem[l[n]].next ELSE first) = IF r = <<>> THEN Null ELSE r[1]
  <2>1. first = l[1] /\ (r = <<>> <=> Len(l) = 1)
    <3>1. l # <<>> /\ (r = <<>> <=> Len(r) = 0)
      BY <1>1, <1>4, EmptySeq
    <3>2. first = l[1]
      BY <3>1 DEF Strung
    <3>3. Len(r) = 0 <=> Len(l) = 1
      BY <1>1, <1>4
    <3>. QED  BY <3>1, <3>2, <3>3
  <2>2. Len(l) # 1 => r[1] = l[At(1)]
    BY <1>1, <1>4
  <2>3. mem[l[n]].next = IF n = Len(l) THEN Null ELSE l[n + 1]
    BY <1>6
  <2>4. Len(l) # 1 => At(1) = IF n = 1 THEN 2 ELSE 1
    BY <1>1
  <2>5. n = 1 => (n = Len(l) <=> Len(l) = 1) /\ n + 1 = 2
    OBVIOUS
  <2>6. Len(l) = 1 => n = 1
    BY <1>1
  <2>. HIDE DEF At
  <2>. QED  BY <2>1, <2>2, <2>3, <2>4, <2>5, <2>6
<1>8. ASSUME NEW p \in 1..Len(r)
      PROVE  mem2[r[p]].next = IF p = Len(r) THEN Null ELSE r[p + 1]
  <2>1. /\ At(p) \in 1..Len(l) /\ At(p) # n /\ r[p] = l[At(p)]
        /\ l[At(p)] \in DOMAIN mem2
        /\ mem[l[At(p)]].next = IF At(p) = Len(l) THEN Null ELSE l[At(p) + 1]
    BY <1>2, <1>3, <1>4, <1>6
  <2>2. p # Len(r) => p + 1 \in 1..Len(r) /\ r[p + 1] = l[At(p + 1)]
    <3>1. p # Len(r) => p + 1 \in 1..Len(r)
      BY <1>1, <1>4
    <3>. HIDE DEF At
    <3>. QED  BY <1>4, <3>1
  <2>3. CASE p = n - 1
    <3>1. At(p) = n - 1 /\ n > 1 /\ At(p + 1) = n + 1 /\ (p = Len(r) <=> n = Len(l))
      BY <1>1, <1>4, <2>3
    <3>2. mem2[r[p]].next = mem[l[n]].next
      BY <2>1, <3>1
    <3>3. mem[l[n]].next = IF n = Len(l) THEN Null ELSE l[n + 1]
      BY <1>6
    <3>. QED  BY <2>2, <3>1, <3>2, <3>3
  <2>4. CASE p # n - 1
    <3>1. At(p) # n - 1 /\ (p = Len(r) <=> At(p) = Len(l))
          /\ (p # Len(r) => At(p + 1) = At(p) + 1)
      BY <1>1, <1>4, <2>4
    <3>2. n > 1 => n - 1 \in 1..Len(l)
      BY <1>1
    <3>3. n > 1 => l[At(p)] # l[n - 1]
      BY <2>1, <3>1, <3>2, StrungOnce
    <3>4. mem2[r[p]].next = mem[l[At(p)]].next
      BY <2>1, <3>3
    <3>. QED  BY <2>1, <2>2, <3>1, <3>4
  <2>. QED  BY <2>3, <2>4
<1>9. \A p \in 1..Len(r) : mem2[r[p]].id = mem[l[At(p)]].id /\ At(p) \in 1..Len(l)
  BY <1>2, <1>3, <1>4
<1>10. \A p \in 1..Len(r) : mem2[r[p]].id \in Nat
  BY <1>9 DEF Strung
<1>11. \A p, q \in 1..Len(r) : p < q => mem2[r[p]].id < mem2[r[q]].id
  <2>1. \A p, q \in 1..Len(r) : p < q => At(p) < At(q)
    BY <1>1
  <2>2. \A p, q \in 1..Len(l) : p < q => mem[l[p]].id < mem[l[q]].id
    BY DEF Strung
  <2>. HIDE DEF At, r
  <2>. QED  BY <1>9, <2>1, <2>2
<1>. HIDE DEF r, At
<1>12. Strung(r, IF n = 1 THEN mem[l[n]].next ELSE first, mem2)
  BY <1>4, <1>5, <1>7, <1>8, <1>10, <1>11 DEF Strung
<1>. QED  BY <1>12 DEF r

(* The store has the bytes of every chunk under its number.                 *)
Holds(texts, mem) ==
    /\ DOMAIN texts = {mem[a].id : a \in DOMAIN mem}
    /\ \A a \in DOMAIN mem : texts[mem[a].id] = mem[a].bytes

LEMMA TextsOfStrung ==
    ASSUME NEW l, NEW first, NEW mem, Strung(l, first, mem)
    PROVE  Holds(TextsOf(l, mem), mem)
<1>1. DOMAIN l = 1..Len(l) /\ \A p \in 1..Len(l) : l[p] \in DOMAIN mem
  BY DEF Strung
<1>2. \A a \in DOMAIN mem : \E p \in 1..Len(l) : l[p] = a
  BY DEF Strung
<1>3. {mem[l[k]].id : k \in DOMAIN l} = {mem[a].id : a \in DOMAIN mem}
  BY <1>1, <1>2
<1>4. ASSUME NEW a \in DOMAIN mem
      PROVE  TextsOf(l, mem)[mem[a].id] = mem[a].bytes
  <2>1. PICK p \in DOMAIN l : l[p] = a
    BY <1>1, <1>2
  <2>. DEFINE q == CHOOSE k \in DOMAIN l : mem[l[k]].id = mem[a].id
  <2>2. q \in DOMAIN l /\ mem[l[q]].id = mem[a].id
    BY <2>1
  <2>3. q = p
    BY <1>1, <2>1, <2>2, StrungOnce
  <2>4. TextsOf(l, mem)[mem[a].id] = mem[l[q]].bytes
    BY <1>3 DEF TextsOf
  <2>. QED  BY <2>1, <2>3, <2>4
<1>5. DOMAIN TextsOf(l, mem) = {mem[l[k]].id : k \in DOMAIN l}
  BY DEF TextsOf
<1>. QED  BY <1>3, <1>4, <1>5 DEF Holds

-----------------------------------------------------------------------------
(* Chunks                                                                  *)

LEMMA ChunkFields ==
    ASSUME NEW c, IsChunk(c)
    PROVE  /\ c.id \in Nat \ {0} /\ c.size \in 1..MaxSize
           /\ c.next \in Addresses \cup {Null}
           /\ c.bytes \in [0..(c.size - 1) -> Chars \cup {0}]
BY HeapAssumption DEF IsChunk

LEMMA ChunkIs ==
    ASSUME NEW i \in Nat \ {0}, NEW n \in 1..MaxSize, NEW x \in Addresses \cup {Null},
           NEW b \in [0..(n - 1) -> Chars \cup {0}]
    PROVE  IsChunk([id |-> i, size |-> n, next |-> x, bytes |-> b])
BY HeapAssumption DEF IsChunk

LEMMA ChunkLinked ==
    ASSUME NEW c, IsChunk(c), NEW x \in Addresses \cup {Null}
    PROVE  /\ IsChunk([c EXCEPT !.next = x])
           /\ [c EXCEPT !.next = x].next = x
           /\ [c EXCEPT !.next = x].id = c.id
           /\ [c EXCEPT !.next = x].bytes = c.bytes
BY HeapAssumption DEF IsChunk

LEMMA ChunkRelinked ==
    ASSUME NEW c, IsChunk(c), NEW x \in Addresses \cup {Null}, NEW d,
           d = [c EXCEPT !.next = x] \/ d = c
    PROVE  d.id = c.id /\ d.bytes = c.bytes
<1>1. CASE d = c
  BY <1>1
<1>2. CASE d = [c EXCEPT !.next = x]
  BY <1>2, ChunkLinked
<1>. QED  BY <1>1, <1>2

(* Where edit_chunk writes (heap_playground.c:99-105): in the text, or in   *)
(* front of it when the index is the most negative int and the length of    *)
(* the text does not divide it.                                             *)
THEOREM PlaceOfIndex ==
    ASSUME NEW index \in Numbers, NEW n \in Nat \ {0}
    PROVE  /\ Place(index, n) \in -(n - 1)..(n - 1)
           /\ Place(index, n) < 0 <=> index = IntMin /\ (-IntMin) % n # 0
<1>1. index \in Int /\ IntMin \in Int /\ IntMin < 0 /\ -IntMin \in Int
  BY HeapAssumption
<1>2. \A m \in Int : m % n \in 0..(n - 1)
  OBVIOUS
<1>3. CASE index = IntMin
  <2>1. Place(index, n) = -((-IntMin) % n)
    BY <1>1, <1>3 DEF Place, Remainder
  <2>2. (-IntMin) % n \in 0..(n - 1)
    BY <1>1, <1>2
  <2>. QED  BY <1>3, <2>1, <2>2
<1>4. CASE index # IntMin
  <2>. DEFINE i == IF index < 0 THEN -index ELSE index
  <2>1. i \in Int /\ ~(i < 0)
    BY <1>1
  <2>2. Place(index, n) = Remainder(i, n)
    BY <1>4 DEF Place
  <2>. HIDE DEF i
  <2>3. Place(index, n) = i % n
    BY <2>1, <2>2 DEF Remainder
  <2>4. i % n \in 0..(n - 1)
    BY <1>2, <2>1
  <2>. QED  BY <1>4, <2>3, <2>4
<1>. QED  BY <1>3, <1>4

LEMMA ChunkEdited ==
    ASSUME NEW c, IsChunk(c), NEW index \in Numbers, NEW x \in Chars,
           Place(index, c.size) >= 0
    PROVE  LET b == Written(c.bytes, Place(index, c.size), x)
           IN  /\ Place(index, c.size) \in DOMAIN c.bytes
               /\ b = [c.bytes EXCEPT ![Place(index, c.size)] = x]
               /\ IsChunk([c EXCEPT !.bytes = b])
               /\ [c EXCEPT !.bytes = b].next = c.next
               /\ [c EXCEPT !.bytes = b].id = c.id
               /\ [c EXCEPT !.bytes = b].bytes = b
<1>. DEFINE at == Place(index, c.size)
            b  == Written(c.bytes, at, x)
<1>1. PICK n \in 1..MaxSize :
        c \in [id : Nat \ {0}, size : {n}, next : Addresses \cup {Null},
              bytes : [0..(n - 1) -> Chars \cup {0}]]
  BY DEF IsChunk
<1>2. n \in Nat /\ n >= 1 /\ c.size = n
  BY <1>1, HeapAssumption
<1>3. at \in 0..(n - 1)
  <2>1. at \in -(n - 1)..(n - 1)
    BY <1>2, PlaceOfIndex
  <2>. QED  BY <1>2, <2>1
<1>4. c.bytes \in [0..(n - 1) -> Chars \cup {0}]
  BY <1>1
<1>. HIDE DEF at
<1>5. b = [c.bytes EXCEPT ![at] = x] /\ b \in [0..(n - 1) -> Chars \cup {0}]
  BY <1>3, <1>4 DEF Written
<1>. HIDE DEF b
<1>6. IsChunk([c EXCEPT !.bytes = b])
  <2>1. [c EXCEPT !.bytes = b] \in
          [id : Nat \ {0}, size : {n}, next : Addresses \cup {Null},
           bytes : [0..(n - 1) -> Chars \cup {0}]]
    BY <1>1, <1>5
  <2>. QED  BY <2>1 DEF IsChunk
<1>7. /\ [c EXCEPT !.bytes = b].next = c.next /\ [c EXCEPT !.bytes = b].id = c.id
      /\ [c EXCEPT !.bytes = b].bytes = b
  BY <1>1
<1>. QED  BY <1>3, <1>4, <1>5, <1>6, <1>7 DEF at, b

LEMMA CopiedText ==
    ASSUME NEW n \in 1..MaxSize, NEW text \in Lines
    PROVE  /\ Copied(text, n) \in [0..(n - 1) -> Chars \cup {0}]
           /\ Copied(text, n)[n - 1] = 0
<1>1. n \in Nat /\ n >= 1 /\ text \in Seq(Chars)
  BY HeapAssumption
<1>2. \A p \in 0..(n - 1) : p < Len(text) => text[p + 1] \in Chars
  BY <1>1
<1>. QED  BY <1>1, <1>2 DEF Copied

-----------------------------------------------------------------------------
(* The invariant                                                           *)

HeapInStep == HeapTypes /\ Strung(List, head, memory)

LEMMA InStepInit == HeapInit => HeapInStep
<1>. SUFFICES ASSUME HeapInit PROVE HeapInStep
  OBVIOUS
<1>1. HeapTypes
  BY DEF HeapInit, HeapTypes, Allocated
<1>2. Strung(<<>>, head, memory)
  BY DEF HeapInit, Strung
<1>3. List = <<>>
  BY <1>2, VisitedIsStrung DEF HeapInit, List
<1>. QED  BY <1>1, <1>2, <1>3 DEF HeapInStep

LEMMA ChunkPlaces ==
    ASSUME NEW c, IsChunk(c), NEW p \in DOMAIN c.bytes
    PROVE  p >= 0
<1>1. c.size \in Nat /\ DOMAIN c.bytes = 0..(c.size - 1)
  BY ChunkFields, HeapAssumption
<1>. QED  BY <1>1

LEMMA StrungIsIntact ==
    ASSUME HeapInStep
    PROVE  Intact
<1>1. \A a \in Allocated : IsChunk(memory[a])
  BY DEF HeapInStep, HeapTypes
<1>. QED  BY <1>1, ChunkPlaces DEF Intact

LEMMA ThenIntact ==
    ASSUME HeapInStep'
    PROVE  Intact'
<1>1. \A a \in Allocated' : IsChunk(memory'[a])
  BY DEF HeapInStep, HeapTypes
<1>. QED  BY <1>1, ChunkPlaces DEF Intact

(* The list that a state has is any sequence that is strung on its pointers.*)
LEMMA NowStrung ==
    ASSUME HeapInStep
    PROVE  /\ Strung(List, head, memory) /\ DOMAIN memory \subseteq Addresses
           /\ List \in Seq(Allocated) /\ Len(List) \in Nat /\ DOMAIN List = 1..Len(List)
           /\ head = Null <=> List = <<>>
           /\ \A a \in Allocated : IsChunk(memory[a]) /\ memory[a].id <= glob_id
           /\ Range(List) = Allocated
<1>1. Strung(List, head, memory) /\ DOMAIN memory \subseteq Addresses
  BY DEF HeapInStep, HeapTypes, Allocated
<1>2. List \in Seq(Allocated) /\ Len(List) \in Nat /\ DOMAIN List = 1..Len(List)
  BY <1>1 DEF Strung, Allocated
<1>3. head = Null <=> List = <<>>
  <2>1. List # <<>> => 1 \in 1..Len(List) /\ head = List[1]
    <3>1. List # <<>> => Len(List) # 0
      BY <1>2, EmptySeq
    <3>2. head = IF List = <<>> THEN Null ELSE List[1]
      BY <1>1 DEF Strung
    <3>. QED  BY <1>2, <3>1, <3>2
  <2>2. List # <<>> => head \in Addresses
    <3>1. List # <<>> => List[1] \in DOMAIN memory
      BY <1>2, <2>1 DEF Allocated
    <3>. QED  BY <1>1, <2>1, <3>1
  <2>3. Null \notin Addresses
    BY HeapAssumption DEF Null
  <2>4. List = <<>> => head = Null
    BY <1>1 DEF Strung
  <2>. QED  BY <2>2, <2>3, <2>4
<1>4. Range(List) = Allocated
  BY <1>1, StrungLength DEF Allocated
<1>5. \A a \in Allocated : IsChunk(memory[a]) /\ memory[a].id <= glob_id
  BY DEF HeapInStep, HeapTypes
<1>. QED  BY <1>1, <1>2, <1>3, <1>4, <1>5

(* alloc_chunk: the new chunk is behind the others, under the next number.  *)
Created(a, n, text) ==
    /\ a \in Addresses /\ a \notin Allocated
    /\ head' = IF List = <<>> THEN a ELSE head
    /\ glob_id' = glob_id + 1
    /\ DOMAIN memory' = Allocated \cup {a}
    /\ memory' = [b \in Allocated \cup {a} |-> memory'[b]]
    /\ memory'[a] = [id |-> glob_id + 1, size |-> n, next |-> Null,
                      bytes |-> Copied(text, n)]
    /\ \A b \in Allocated :
          memory'[b] = IF List # <<>> /\ b = List[Len(List)]
                       THEN [memory[b] EXCEPT !.next = a] ELSE memory[b]

LEMMA CreateCases ==
    ASSUME HeapInStep, Create
    PROVE  \/ UNCHANGED <<head, glob_id, memory, running>>
           \/ /\ UNCHANGED running
              /\ \E a \in Addresses, n \in 1..MaxSize, text \in Lines : Created(a, n, text)
<1>1. running' = running
  BY DEF Create
<1>2. SUFFICES ASSUME ~ UNCHANGED <<head, glob_id, memory>>
               PROVE  \E a \in Addresses, n \in 1..MaxSize, text \in Lines :
                         Created(a, n, text)
  BY <1>1
<1>3. PICK n \in Numbers, text \in Lines :
        ~ (n > MaxSize \/ n <= 0) /\ alloc_chunk(n, text)
  BY <1>2 DEF Create
<1>4. n \in 1..MaxSize
  BY <1>3, HeapAssumption
<1>5. PICK a \in Addresses \ Allocated :
        /\ head' = IF head = Null THEN a ELSE head
        /\ glob_id' = glob_id + 1
        /\ memory' = [b \in Allocated \cup {a} |->
                         IF b = a THEN [id |-> glob_id + 1, size |-> n,
                                        next |-> Null, bytes |-> Copied(text, n)]
                         ELSE Link(a)[b]]
  BY <1>3 DEF alloc_chunk
<1>6. ASSUME NEW b \in Allocated
      PROVE  Link(a)[b] = IF List # <<>> /\ b = List[Len(List)]
                          THEN [memory[b] EXCEPT !.next = a] ELSE memory[b]
  BY NowStrung DEF Link, Allocated
<1>7. Created(a, n, text)
  BY <1>5, <1>6, NowStrung DEF Created
<1>. QED  BY <1>4, <1>7

LEMMA CreatedStrung ==
    ASSUME HeapInStep, UNCHANGED running,
           NEW a \in Addresses, NEW n \in 1..MaxSize, NEW text \in Lines,
           Created(a, n, text)
    PROVE  HeapInStep' /\ List' = Append(List, a)
<1>1. /\ glob_id \in Nat /\ glob_id + 1 \in Nat \ {0} /\ a # Null
      /\ a \in Addresses \cup {Null} /\ Null \in Addresses \cup {Null}
  BY HeapAssumption DEF HeapInStep, HeapTypes, Null
<1>2. IsChunk(memory'[a]) /\ memory'[a].id = glob_id + 1 /\ memory'[a].next = Null
  <2>1. Copied(text, n) \in [0..(n - 1) -> Chars \cup {0}]
    BY CopiedText
  <2>. QED  BY <1>1, <2>1, ChunkIs DEF Created
<1>3. ASSUME NEW b \in Allocated
      PROVE  /\ IsChunk(memory'[b])
             /\ memory'[b].id = memory[b].id /\ memory[b].id \in Nat
             /\ memory'[b].id <= glob_id /\ memory'[b].id < glob_id + 1
             /\ memory'[b].next = IF List # <<>> /\ b = List[Len(List)]
                                  THEN a ELSE memory[b].next
  <2>1. IsChunk(memory[b]) /\ memory[b].id <= glob_id
    BY NowStrung
  <2>2. memory[b].id \in Nat \ {0}
    BY <2>1, ChunkFields
  <2>3. CASE List # <<>> /\ b = List[Len(List)]
    <3>1. memory'[b] = [memory[b] EXCEPT !.next = a]
      BY <2>3 DEF Created
    <3>2. IsChunk(memory'[b]) /\ memory'[b].id = memory[b].id /\ memory'[b].next = a
      BY <1>1, <2>1, <3>1, ChunkLinked
    <3>. QED  BY <1>1, <2>1, <2>2, <2>3, <3>2
  <2>4. CASE ~ (List # <<>> /\ b = List[Len(List)])
    <3>1. memory'[b] = memory[b]
      BY <2>4 DEF Created
    <3>. QED  BY <1>1, <2>1, <2>2, <2>4, <3>1
  <2>. QED  BY <2>3, <2>4
<1>4. DOMAIN memory' = DOMAIN memory \cup {a} /\ a \notin DOMAIN memory
      /\ DOMAIN memory' \subseteq Addresses
  BY NowStrung DEF Created, Allocated
<1>5. \A p \in 1..Len(List) : List[p] \in Allocated
  BY NowStrung
<1>6. Strung(Append(List, a), IF List = <<>> THEN a ELSE head, memory')
  <2>1. /\ \A b \in DOMAIN memory : memory'[b].id = memory[b].id
        /\ \A b \in DOMAIN memory :
              memory'[b].next = IF List # <<>> /\ b = List[Len(List)]
                                THEN a ELSE memory[b].next
    BY <1>3 DEF Allocated
  <2>2. \A p \in 1..Len(List) : memory[List[p]].id < glob_id + 1
    BY <1>3, <1>5
  <2>. QED  BY <1>1, <1>2, <1>4, <2>1, <2>2, NowStrung, StrungAppended
<1>7. Strung(Append(List, a), head', memory')
  BY <1>6 DEF Created
<1>8. List' = Append(List, a)
  BY <1>4, <1>7, VisitedIsStrung DEF List
<1>9. HeapTypes'
  <2>1. head' \in Addresses \cup {Null} /\ glob_id' = glob_id + 1 /\ glob_id' \in Nat
        /\ running' \in BOOLEAN
    BY <1>1 DEF Created, HeapInStep, HeapTypes
  <2>2. Allocated' = Allocated \cup {a} /\ Allocated' \subseteq Addresses
    BY <1>4 DEF Allocated
  <2>3. \A b \in Allocated' : IsChunk(memory'[b]) /\ memory'[b].id <= glob_id'
    BY <1>1, <1>2, <1>3, <2>1, <2>2
  <2>4. memory' = [b \in Allocated' |-> memory'[b]]
    BY <2>2 DEF Created
  <2>. QED  BY <2>1, <2>2, <2>3, <2>4 DEF HeapTypes
<1>. QED  BY <1>7, <1>8, <1>9 DEF HeapInStep

(* free_chunk: the n-th of the list is taken out.                           *)
Deleted(n) ==
    /\ n \in 1..Len(List)
    /\ glob_id' = glob_id
    /\ head' = IF n = 1 THEN memory[List[n]].next ELSE head
    /\ DOMAIN memory' = Allocated \ {List[n]}
    /\ memory' = [b \in Allocated \ {List[n]} |-> memory'[b]]
    /\ \A b \in Allocated \ {List[n]} :
          memory'[b] = IF n > 1 /\ b = List[n - 1]
                       THEN [memory[b] EXCEPT !.next = memory[List[n]].next]
                       ELSE memory[b]

LEMMA DeleteCases ==
    ASSUME HeapInStep, Delete
    PROVE  \/ UNCHANGED <<head, glob_id, memory, running>>
           \/ /\ UNCHANGED running
              /\ \E n \in 1..Len(List) : Deleted(n)
<1>1. running' = running /\ glob_id' = glob_id
  BY DEF Delete
<1>2. SUFFICES ASSUME ~ UNCHANGED <<head, memory>>
               PROVE  \E n \in 1..Len(List) : Deleted(n)
  BY <1>1
<1>3. PICK i \in Numbers : free_chunk(i) /\ Found(i) # {}
  BY <1>2 DEF Delete, free_chunk
<1>. DEFINE First(k) == /\ List[k] \in Found(i)
                        /\ \A j \in 1..(k - 1) : List[j] \notin Found(i)
            n    == CHOOSE k \in DOMAIN List : First(k)
            a    == List[n]
            prev == IF n = 1 THEN Null ELSE List[n - 1]
<1>4. \E k \in DOMAIN List : First(k)
  <2>1. PICK b \in Range(List) : b \in Found(i)
    BY <1>3 DEF Found
  <2>2. PICK k \in 1..Len(List) : List[k] = b
    BY <2>1, NowStrung DEF Range
  <2>3. ASSUME NEW j \in 1..(k - 1), List[j] \in Found(i)
        PROVE  FALSE
    <3>1. j \in 1..Len(List) /\ j # k
      BY NowStrung
    <3>2. memory[List[j]].id = i /\ memory[List[k]].id = i
      BY <2>1, <2>2, <2>3 DEF Found
    <3>. QED  BY <3>1, <3>2, NowStrung, StrungOnce
  <2>. QED  BY <2>1, <2>2, <2>3, NowStrung
<1>5. n \in DOMAIN List /\ First(n)
  BY <1>4
<1>6. head' = HeadWithout(a, prev) /\ memory' = [b \in Allocated \ {a} |-> NextWithout(a, prev)[b]]
  BY <1>3 DEF free_chunk
<1>. HIDE DEF n
<1>7. n \in 1..Len(List) /\ a \in Allocated
  BY <1>5, NowStrung
<1>8. n # 1 => n > 1 /\ n - 1 \in 1..Len(List) /\ prev \in Allocated /\ prev # Null
  <2>1. n # 1 => n - 1 \in 1..Len(List) /\ n > 1
    BY <1>7, NowStrung
  <2>2. n # 1 => prev \in Allocated
    BY <2>1, NowStrung
  <2>. QED  BY <2>1, <2>2, NowStrung, HeapAssumption DEF Allocated, Null
<1>9. head' = IF n = 1 THEN memory[a].next ELSE head
  BY <1>6, <1>8 DEF HeadWithout
<1>10. ASSUME NEW b \in Allocated \ {a}
       PROVE  memory'[b] = IF n > 1 /\ b = List[n - 1]
                           THEN [memory[b] EXCEPT !.next = memory[a].next]
                           ELSE memory[b]
  <2>1. memory'[b] = NextWithout(a, prev)[b]
    BY <1>6
  <2>2. CASE n = 1
    BY <2>1, <2>2 DEF NextWithout
  <2>3. CASE n # 1
    BY <1>8, <2>1, <2>3 DEF NextWithout, Allocated
  <2>. QED  BY <2>2, <2>3
<1>11. Deleted(n)
  BY <1>1, <1>6, <1>7, <1>9, <1>10 DEF Deleted
<1>. QED  BY <1>7, <1>11

LEMMA DeletedStrung ==
    ASSUME HeapInStep, UNCHANGED running, NEW n \in 1..Len(List), Deleted(n)
    PROVE  HeapInStep' /\ List' = Without(List, n)
<1>. DEFINE a == List[n]
<1>1. a \in Allocated /\ IsChunk(memory[a]) /\ memory[a].next \in Addresses \cup {Null}
  BY NowStrung, ChunkFields
<1>2. ASSUME NEW b \in Allocated \ {a}
      PROVE  /\ IsChunk(memory'[b])
             /\ memory'[b].id = memory[b].id /\ memory'[b].id <= glob_id
             /\ memory'[b].next = IF n > 1 /\ b = List[n - 1]
                                  THEN memory[a].next ELSE memory[b].next
  <2>1. IsChunk(memory[b]) /\ memory[b].id <= glob_id
    BY NowStrung
  <2>2. CASE n > 1 /\ b = List[n - 1]
    <3>. DEFINE x == memory[a].next
                c == memory[b]
    <3>1. memory'[b] = [c EXCEPT !.next = x]
      BY <2>2 DEF Deleted
    <3>2. x \in Addresses \cup {Null} /\ IsChunk(c) /\ c.id <= glob_id
      BY <1>1, <2>1
    <3>. HIDE DEF x, c
    <3>3. IsChunk(memory'[b]) /\ memory'[b].id = c.id /\ memory'[b].next = x
      BY <3>1, <3>2, ChunkLinked
    <3>. QED  BY <2>2, <3>2, <3>3 DEF x, c
  <2>3. CASE ~ (n > 1 /\ b = List[n - 1])
    <3>1. memory'[b] = memory[b]
      BY <2>3 DEF Deleted
    <3>. QED  BY <2>1, <2>3, <3>1
  <2>. QED  BY <2>2, <2>3
<1>3. DOMAIN memory' = DOMAIN memory \ {a} /\ DOMAIN memory' \subseteq Addresses
  BY NowStrung DEF Deleted, Allocated
<1>4. Strung(Without(List, n), head', memory')
  <2>1. /\ \A b \in DOMAIN memory' : memory'[b].id = memory[b].id
        /\ \A b \in DOMAIN memory' :
              memory'[b].next = IF n > 1 /\ b = List[n - 1]
                                THEN memory[a].next ELSE memory[b].next
    BY <1>2, <1>3 DEF Allocated
  <2>2. Strung(Without(List, n), IF n = 1 THEN memory[a].next ELSE head, memory')
    BY <1>3, <2>1, NowStrung, StrungWithout
  <2>. QED  BY <2>2 DEF Deleted
<1>5. List' = Without(List, n)
  BY <1>3, <1>4, VisitedIsStrung DEF List
<1>6. HeapTypes'
  <2>1. head' \in Addresses \cup {Null} /\ glob_id' = glob_id /\ glob_id' \in Nat
        /\ running' \in BOOLEAN
    BY <1>1 DEF Deleted, HeapInStep, HeapTypes
  <2>2. Allocated' = Allocated \ {a} /\ Allocated' \subseteq Addresses
    BY <1>3 DEF Allocated
  <2>3. \A b \in Allocated' : IsChunk(memory'[b]) /\ memory'[b].id <= glob_id'
    BY <1>2, <2>1, <2>2
  <2>4. memory' = [b \in Allocated' |-> memory'[b]]
    BY <2>2 DEF Deleted
  <2>. QED  BY <2>1, <2>2, <2>3, <2>4 DEF HeapTypes
<1>. QED  BY <1>4, <1>5, <1>6 DEF HeapInStep

(* edit_chunk: one character of one text.                                   *)
Edited(a, index, c) ==
    /\ a \in Allocated
    /\ head' = head /\ glob_id' = glob_id
    /\ memory' = [memory EXCEPT ![a].bytes =
                     Written(memory[a].bytes, Place(index, memory[a].size), c)]

LEMMA EditCases ==
    ASSUME HeapInStep, Edit
    PROVE  \/ UNCHANGED <<head, glob_id, memory, running>>
           \/ /\ UNCHANGED running
              /\ \E a \in Allocated, index \in Numbers, c \in Chars : Edited(a, index, c)
<1>1. running' = running /\ glob_id' = glob_id /\ head' = head
  BY DEF Edit
<1>2. SUFFICES ASSUME memory' # memory
               PROVE  \E a \in Allocated, index \in Numbers, c \in Chars : Edited(a, index, c)
  BY <1>1
<1>3. PICK id \in Numbers, index \in Numbers, c \in Chars :
        \E a \in Found(id) :
           memory' = [memory EXCEPT ![a].bytes =
                        Written(@, Place(index, memory[a].size), c)]
  BY <1>2 DEF Edit
<1>4. PICK a \in Found(id) :
        memory' = [memory EXCEPT ![a].bytes =
                     Written(@, Place(index, memory[a].size), c)]
  BY <1>3
<1>5. a \in Allocated
  BY NowStrung DEF Found
<1>. QED  BY <1>1, <1>4, <1>5 DEF Edited

LEMMA EditedStrung ==
    ASSUME HeapInStep, UNCHANGED running,
           NEW a \in Allocated, NEW index \in Numbers, NEW c \in Chars,
           Edited(a, index, c), Place(index, memory[a].size) >= 0
    PROVE  /\ HeapInStep' /\ List' = List
           /\ Allocated' = Allocated
           /\ \A b \in Allocated : memory'[b].id = memory[b].id
           /\ \A b \in Allocated \ {a} : memory'[b] = memory[b]
           /\ Place(index, memory[a].size) \in DOMAIN memory[a].bytes
           /\ memory'[a].bytes = [memory[a].bytes EXCEPT ![Place(index, memory[a].size)] = c]
<1>. DEFINE w == Written(memory[a].bytes, Place(index, memory[a].size), c)
<1>1. IsChunk(memory[a])
  BY NowStrung
<1>2. /\ Place(index, memory[a].size) \in DOMAIN memory[a].bytes
      /\ w = [memory[a].bytes EXCEPT ![Place(index, memory[a].size)] = c]
      /\ IsChunk([memory[a] EXCEPT !.bytes = w])
      /\ [memory[a] EXCEPT !.bytes = w].next = memory[a].next
      /\ [memory[a] EXCEPT !.bytes = w].id = memory[a].id
      /\ [memory[a] EXCEPT !.bytes = w].bytes = w
  BY <1>1, ChunkEdited
<1>3. /\ memory' = [memory EXCEPT ![a] = [memory[a] EXCEPT !.bytes = w]]
      /\ head' = head /\ glob_id' = glob_id
  BY DEF Edited
<1>. HIDE DEF w
<1>4. /\ DOMAIN memory' = DOMAIN memory /\ Allocated' = Allocated
      /\ memory'[a] = [memory[a] EXCEPT !.bytes = w]
      /\ \A b \in Allocated \ {a} : memory'[b] = memory[b]
      /\ memory' = [b \in Allocated |-> memory'[b]]
  BY <1>3 DEF Allocated, HeapInStep, HeapTypes
<1>5. \A b \in Allocated : /\ IsChunk(memory'[b]) /\ memory'[b].id <= glob_id
                           /\ memory'[b].id = memory[b].id
                           /\ memory'[b].next = memory[b].next
  BY <1>2, <1>4, NowStrung
<1>6. Strung(List, head', memory')
  <2>1. \A p \in 1..Len(List) : List[p] \in Allocated
    BY NowStrung
  <2>2. \A p \in 1..Len(List) : /\ memory'[List[p]].id = memory[List[p]].id
                                /\ memory'[List[p]].next = memory[List[p]].next
    BY <1>5, <2>1
  <2>3. Strung(List, head, memory)
    BY NowStrung
  <2>. QED  BY <1>3, <1>4, <2>2, <2>3 DEF Strung
<1>7. List' = List
  <2>1. DOMAIN memory' \subseteq Addresses
    BY <1>4, NowStrung
  <2>. QED  BY <1>6, <2>1, VisitedIsStrung DEF List
<1>8. HeapTypes'
  BY <1>3, <1>4, <1>5 DEF HeapInStep, HeapTypes
<1>. QED  BY <1>2, <1>4, <1>5, <1>6, <1>7, <1>8 DEF HeapInStep

(* An edit in front of a text: the index is the most negative int, and the  *)
(* length of the text does not divide it.                                   *)
LEMMA EditedInFront ==
    ASSUME HeapInStep,
           NEW a \in Allocated, NEW index \in Numbers, NEW c \in Chars,
           Edited(a, index, c), ~(Place(index, memory[a].size) >= 0)
    PROVE  /\ ~Intact'
           /\ memory[a].size \in 1..MaxSize /\ (-IntMin) % memory[a].size # 0
           /\ DOMAIN memory[a].bytes = 0..(memory[a].size - 1)
<1>. DEFINE n == memory[a].size
            at == Place(index, n)
            w == Written(memory[a].bytes, at, c)
<1>1. n \in 1..MaxSize /\ DOMAIN memory[a].bytes = 0..(n - 1)
  <2>1. IsChunk(memory[a])
    BY NowStrung
  <2>. QED  BY <2>1, ChunkFields
<1>2. n \in Nat \ {0}
  BY <1>1, HeapAssumption
<1>3. at \in Int /\ at < 0 /\ (-IntMin) % n # 0
  <2>1. at \in -(n - 1)..(n - 1) /\ (at < 0 <=> index = IntMin /\ (-IntMin) % n # 0)
    BY <1>2, PlaceOfIndex
  <2>. QED  BY <1>2, <2>1
<1>4. memory' = [memory EXCEPT ![a] = [memory[a] EXCEPT !.bytes = w]]
  BY DEF Edited
<1>5. at \in DOMAIN w
  BY DEF Written
<1>. HIDE DEF at, w
<1>6. a \in Allocated' /\ memory'[a].bytes = w
  <2>1. a \in DOMAIN memory' /\ memory'[a] = [memory[a] EXCEPT !.bytes = w]
    BY <1>4 DEF Allocated
  <2>2. [memory[a] EXCEPT !.bytes = w].bytes = w
    <3>1. IsChunk(memory[a])
      BY NowStrung
    <3>. QED  BY <3>1 DEF IsChunk
  <2>. QED  BY <2>1, <2>2 DEF Allocated
<1>7. ~(at >= 0)
  BY <1>3
<1>8. ~Intact'
  BY <1>5, <1>6, <1>7 DEF Intact
<1>. QED  BY <1>1, <1>3, <1>8

LEMMA OnlyIfIntact == HeapNext => Intact
BY DEF HeapNext, Create, Delete, Edit, Exit

LEMMA InStepNext ==
    (Intact => HeapInStep) /\ [HeapNext]_heapVars => (Intact => HeapInStep)'
<1>. SUFFICES ASSUME Intact => HeapInStep, [HeapNext]_heapVars, Intact'
              PROVE  HeapInStep'
  OBVIOUS
<1>1. CASE UNCHANGED <<head, glob_id, memory, running>>
  <2>1. Intact
    BY <1>1 DEF Intact, Allocated
  <2>. QED  BY <1>1, <2>1 DEF HeapInStep, HeapTypes, Allocated, List
<1>2. ASSUME HeapNext PROVE HeapInStep
  BY <1>2, OnlyIfIntact
<1>3. CASE Create
  BY <1>1, <1>2, <1>3, CreateCases, CreatedStrung DEF HeapNext
<1>4. CASE Delete
  BY <1>1, <1>2, <1>4, DeleteCases, DeletedStrung DEF HeapNext
<1>5. CASE Edit
  BY <1>1, <1>2, <1>5, EditCases, EditedStrung, EditedInFront DEF HeapNext
<1>6. CASE Exit
  BY <1>2, <1>6 DEF HeapNext, Exit, HeapInStep, HeapTypes, Allocated, List
<1>. QED  BY <1>1, <1>3, <1>4, <1>5, <1>6 DEF HeapNext, heapVars

(* Whatever is created, deleted and edited, the pointers lead through all   *)
(* chunks that are allocated, once each, in the order of their numbers, as  *)
(* long as nothing has been written in front of a text                      *)
(* (heap_playground.c:40-105; PlaceOfIndex says when that happens).         *)
THEOREM PointersAreStrung == HeapSpec => [](Intact => HeapInStep)
<1>. QED  BY InStepInit, InStepNext, PTL DEF HeapSpec

LEMMA StrungIsListIsTheHeap == HeapInStep => ListIsTheHeap /\ NumbersAscend
<1>. SUFFICES ASSUME HeapInStep PROVE ListIsTheHeap /\ NumbersAscend
  OBVIOUS
<1>1. ListIsTheHeap
  BY NowStrung, StrungLength DEF ListIsTheHeap, Allocated
<1>2. NumbersAscend
  <2>1. DOMAIN List = 1..Len(List)
    BY NowStrung
  <2>. QED  BY <2>1, NowStrung DEF Strung, NumbersAscend
<1>. QED  BY <1>1, <1>2

(* heap_playground.c:40-97: no command leaves a pointer to freed memory,    *)
(* loses a chunk or makes a loop, and later chunks stand behind, until an   *)
(* edit writes in front of a text.                                          *)
THEOREM ListHoldsTheChunks ==
    HeapSpec => [](Intact => HeapTypes /\ ListIsTheHeap /\ NumbersAscend)
<1>1. HeapInStep => HeapTypes
  BY DEF HeapInStep
<1>. QED  BY <1>1, PointersAreStrung, StrungIsListIsTheHeap, PTL

(* strncpy leaves the last of the zeros that memset wrote, whatever line is *)
(* typed and whatever size is asked for (heap_playground.c:60-61).          *)
THEOREM TextsEndInZero == HeapSpec => [][FreshTextEnds]_heapVars
<1>1. ASSUME HeapInStep, HeapNext PROVE FreshTextEnds
  <2>1. SUFFICES ASSUME NEW b \in DOMAIN memory', glob_id' # glob_id,
                        memory'[b].id = glob_id'
                 PROVE  memory'[b].bytes[memory'[b].size - 1] = 0
    BY DEF FreshTextEnds
  <2>2. Create
    BY <1>1, <2>1 DEF HeapNext, Delete, Edit, Exit
  <2>3. PICK a \in Addresses, n \in 1..MaxSize, text \in Lines : Created(a, n, text)
    BY <1>1, <2>1, <2>2, CreateCases
  <2>4. b = a
    <3>1. ASSUME b # a PROVE FALSE
      <4>1. b \in Allocated
        BY <3>1, <2>3 DEF Created
      <4>2. memory'[b].id = memory[b].id
        <5>1. IsChunk(memory[b])
          BY <1>1, <4>1, NowStrung
        <5>2. memory'[b] = [memory[b] EXCEPT !.next = a] \/ memory'[b] = memory[b]
          BY <2>3, <4>1 DEF Created
        <5>. QED  BY <5>1, <5>2, ChunkRelinked
      <4>3. memory[b].id <= glob_id /\ memory[b].id \in Nat
        BY <1>1, <4>1, NowStrung, ChunkFields
      <4>. QED  BY <1>1, <2>1, <2>3, <4>2, <4>3 DEF Created, HeapInStep, HeapTypes
    <3>. QED  BY <3>1
  <2>5. memory'[b].bytes = Copied(text, n) /\ memory'[b].size = n
    BY <2>3, <2>4 DEF Created
  <2>. QED  BY <2>5, CopiedText
<1>2. (Intact => HeapInStep) /\ [HeapNext]_heapVars => [FreshTextEnds]_heapVars
  BY <1>1, OnlyIfIntact
<1>. QED  BY <1>2, PointersAreStrung, PTL DEF HeapSpec

-----------------------------------------------------------------------------
(* The store that it implements                                            *)

LEMMA NowTexts ==
    ASSUME HeapInStep
    PROVE  /\ DOMAIN Texts = {memory[a].id : a \in Allocated}
           /\ \A a \in Allocated : Texts[memory[a].id] = memory[a].bytes
<1>1. Strung(List, head, memory)
  BY NowStrung
<1>2. Holds(Texts, memory)
  BY <1>1, TextsOfStrung DEF Texts
<1>. QED  BY <1>2 DEF Holds, Allocated

LEMMA ThenTexts ==
    ASSUME HeapInStep'
    PROVE  /\ DOMAIN Texts' = {memory'[a].id : a \in Allocated'}
           /\ \A a \in Allocated' : Texts'[memory'[a].id] = memory'[a].bytes
<1>1. Strung(List', head', memory')
  BY DEF HeapInStep
<1>2. Holds(Texts', memory')
  BY <1>1, TextsOfStrung DEF Texts
<1>. QED  BY <1>2 DEF Holds, Allocated

LEMMA CreatedText ==
    ASSUME HeapInStep, HeapInStep',
           NEW a \in Addresses, NEW n \in 1..MaxSize, NEW text \in Lines,
           Created(a, n, text)
    PROVE  Store!Create
<1>1. Allocated' = Allocated \cup {a}
  BY DEF Created, Allocated
<1>2. memory'[a].id = glob_id' /\ memory'[a].bytes = Copied(text, n)
  BY DEF Created
<1>3. ASSUME NEW b \in Allocated
      PROVE  memory'[b].id = memory[b].id /\ memory'[b].bytes = memory[b].bytes
  <2>1. IsChunk(memory[b])
    BY NowStrung
  <2>2. memory'[b] = [memory[b] EXCEPT !.next = a] \/ memory'[b] = memory[b]
    BY DEF Created
  <2>. QED  BY <2>1, <2>2, ChunkRelinked
<1>4. glob_id' = glob_id + 1
  BY DEF Created
<1>5. DOMAIN Texts' = DOMAIN Texts \cup {glob_id'}
  BY <1>1, <1>2, <1>3, NowTexts, ThenTexts
<1>6. Texts'[glob_id'] = Copied(text, n)
  BY <1>1, <1>2, ThenTexts
<1>7. \A id \in DOMAIN Texts : Texts'[id] = Texts[id]
  BY <1>1, <1>3, NowTexts, ThenTexts
<1>. QED  BY <1>4, <1>5, <1>6, <1>7, CopiedText, StrungIsIntact, ThenIntact
          DEF Store!Create, Store!Unchanged

LEMMA DeletedText ==
    ASSUME HeapInStep, HeapInStep', NEW n \in 1..Len(List), Deleted(n)
    PROVE  Store!Delete
<1>. DEFINE a == List[n]
<1>1. a \in Allocated /\ Allocated' = Allocated \ {a}
  BY NowStrung DEF Deleted, Allocated
<1>2. ASSUME NEW b \in Allocated \ {a}
      PROVE  /\ memory'[b].id = memory[b].id /\ memory'[b].bytes = memory[b].bytes
             /\ memory[b].id # memory[a].id
  <2>1. IsChunk(memory[b]) /\ IsChunk(memory[a])
    BY <1>1, NowStrung
  <2>2. \/ memory'[b] = [memory[b] EXCEPT !.next = memory[a].next]
        \/ memory'[b] = memory[b]
    BY DEF Deleted
  <2>3. memory[b].id # memory[a].id
    <3>1. PICK m \in 1..Len(List) : List[m] = b
      BY NowStrung DEF Strung, Allocated
    <3>2. m # n
      BY <3>1
    <3>. QED  BY <3>1, <3>2, NowStrung, StrungOnce
  <2>4. memory[a].next \in Addresses \cup {Null}
    BY <2>1, ChunkFields
  <2>. QED  BY <2>1, <2>2, <2>3, <2>4, ChunkRelinked
<1>3. DOMAIN Texts' = DOMAIN Texts \ {memory[a].id} /\ memory[a].id \in DOMAIN Texts
  BY <1>1, <1>2, NowTexts, ThenTexts
<1>4. \A id \in DOMAIN Texts' : Texts'[id] = Texts[id]
  BY <1>1, <1>2, NowTexts, ThenTexts
<1>5. glob_id' = glob_id
  BY DEF Deleted
<1>. QED  BY <1>3, <1>4, <1>5, StrungIsIntact, ThenIntact DEF Store!Delete, Store!Unchanged

LEMMA EditedText ==
    ASSUME HeapInStep, HeapInStep', UNCHANGED running,
           NEW a \in Allocated, NEW index \in Numbers, NEW c \in Chars,
           Edited(a, index, c), Place(index, memory[a].size) >= 0
    PROVE  Store!Edit
<1>. DEFINE at == Place(index, memory[a].size)
            i  == memory[a].id
<1>1. /\ Allocated' = Allocated
      /\ \A b \in Allocated : memory'[b].id = memory[b].id
      /\ \A b \in Allocated \ {a} : memory'[b] = memory[b]
      /\ at \in DOMAIN memory[a].bytes
      /\ memory'[a].bytes = [memory[a].bytes EXCEPT ![at] = c]
  BY EditedStrung
<1>2. DOMAIN Texts' = DOMAIN Texts /\ i \in DOMAIN Texts
  BY <1>1, NowTexts, ThenTexts
<1>3. Texts[i] = memory[a].bytes /\ Texts'[i] = memory'[a].bytes
  BY <1>1, NowTexts, ThenTexts
<1>4. \A id \in DOMAIN Texts \ {i} : Texts'[id] = Texts[id]
  BY <1>1, NowTexts, ThenTexts
<1>5. glob_id' = glob_id
  BY DEF Edited
<1>. HIDE DEF at, i
<1>6. /\ at \in DOMAIN Texts[i] /\ c \in Chars \cup {0}
      /\ Texts'[i] = [Texts[i] EXCEPT ![at] = c]
  BY <1>1, <1>3
<1>. QED  BY <1>2, <1>4, <1>5, <1>6, StrungIsIntact, ThenIntact
          DEF Store!Edit, Store!Unchanged

LEMMA SpoiledText ==
    ASSUME HeapInStep,
           NEW a \in Allocated, NEW index \in Numbers, NEW c \in Chars,
           Edited(a, index, c), ~(Place(index, memory[a].size) >= 0)
    PROVE  Store!Spoil
<1>1. /\ ~Intact'
      /\ memory[a].size \in 1..MaxSize /\ (-IntMin) % memory[a].size # 0
      /\ DOMAIN memory[a].bytes = 0..(memory[a].size - 1)
  BY EditedInFront
<1>2. memory[a].id \in DOMAIN Texts /\ Texts[memory[a].id] = memory[a].bytes
  BY NowTexts
<1>. QED  BY <1>1, <1>2, StrungIsIntact DEF Store!Spoil

(* The whole promise: chunks at addresses that are used again are a store   *)
(* of numbered texts, for every size, line and int, and it ends only where  *)
(* an edit at the most negative index meets a text whose length does not    *)
(* divide that number (heap_playground.c:100-104).                          *)
THEOREM HeapIsAStore == HeapSpec => StoreSpec
<1>1. HeapInit => Store!Init
  <2>. SUFFICES ASSUME HeapInit PROVE Store!Init
    OBVIOUS
  <2>1. DOMAIN Texts = {}
    BY InStepInit, NowTexts DEF HeapInit, Allocated
  <2>2. Texts = [id \in DOMAIN Texts |-> Texts[id]]
    BY DEF Texts, TextsOf
  <2>3. Intact = TRUE
    BY InStepInit, StrungIsIntact
  <2>. QED  BY <2>1, <2>2, <2>3 DEF Store!Init, HeapInit
<1>2. (Intact => HeapInStep) /\ (Intact => HeapInStep)' /\ [HeapNext]_heapVars
        => [Store!Next]_<<Texts, glob_id, Intact>>
  <2>. SUFFICES ASSUME Intact => HeapInStep, [HeapNext]_heapVars
                PROVE  [Store!Next]_<<Texts, glob_id, Intact>>
    OBVIOUS
  <2>1. CASE UNCHANGED <<head, glob_id, memory, running>>
    BY <2>1 DEF Texts, List, Intact, Allocated
  <2>2. CASE HeapNext
    <3>1. HeapInStep
      BY <2>2, OnlyIfIntact
    <3>2. CASE Create
      BY <2>1, <3>1, <3>2, CreateCases, CreatedStrung, CreatedText DEF Store!Next
    <3>3. CASE Delete
      BY <2>1, <3>1, <3>3, DeleteCases, DeletedStrung, DeletedText DEF Store!Next
    <3>4. CASE Edit
      BY <2>1, <3>1, <3>4, EditCases, EditedStrung, EditedText, SpoiledText DEF Store!Next
    <3>5. CASE Exit
      BY <3>5 DEF Exit, Texts, List, Intact, Allocated
    <3>. QED  BY <2>2, <3>2, <3>3, <3>4, <3>5 DEF HeapNext
  <2>. QED  BY <2>1, <2>2 DEF heapVars
<1>3. HeapSpec => Store!Spec
  BY <1>1, <1>2, PointersAreStrung, PTL DEF HeapSpec, Store!Spec
<1>. QED  BY <1>3, ListHoldsTheChunks, TextsEndInZero, PTL DEF StoreSpec
=============================================================================
