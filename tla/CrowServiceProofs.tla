------------------------- MODULE CrowServiceProofs --------------------------
(***************************************************************************)
(* Proofs about two parts of the Crow service: the timer queue of a worker,*)
(* for every number of connections, every tick and period, and as many     *)
(* deadlines as an int can count; and the server with its workers, for any *)
(* number of workers, connections, signals and exceptions.                 *)
(***************************************************************************)
EXTENDS TimerQueue, CrowServer, FiniteSetTheorems, TLAPS

-----------------------------------------------------------------------------
(* The timer queue                                                         *)

LEMMA QueueStarts == ASSUME Sizes, QueueInit PROVE TimersInStep
BY DEF Sizes, QueueInit, TimersInStep, QueueTypes, KeysMatchEntries, QueueInStep, Holds, Entry

(* The numbers the steps reckon with.                                      *)
LEMMA Numbers ==
    ASSUME Sizes, QueueTypes
    PROVE  /\ dq \in Seq(Entry) /\ Len(dq) \in Nat /\ step \in Nat /\ step + Len(dq) <= MaxKey
           /\ now \in Nat /\ due \in Nat /\ Tick \in Nat /\ Period \in Nat /\ MaxKey \in Nat
           /\ key \in [Conns -> Nat \cup {Null}]
           /\ \A i \in 1 .. Len(dq) : dq[i].at \in Nat /\ dq[i].fn \in Conns \cup {Null}
<1>1. dq \in Seq(Entry) /\ Len(dq) \in Nat
  BY DEF QueueTypes
<1>2. \A i \in 1 .. Len(dq) : dq[i] \in Entry
  BY <1>1
<1>3. \A e \in Entry : e.at \in Nat /\ e.fn \in Conns \cup {Null}
  BY DEF Entry
<1>. QED  BY <1>1, <1>2, <1>3 DEF QueueTypes, Sizes

-----------------------------------------------------------------------------
(* cancel                                                                  *)

LEMMA ReplaceEntry ==
    ASSUME NEW T, NEW s \in Seq(T), NEW n \in 1 .. Len(s), NEW e \in T
    PROVE  LET q == [s EXCEPT ![n] = e]
           IN  /\ q \in Seq(T) /\ Len(q) = Len(s)
               /\ \A i \in 1 .. Len(s) : q[i] = IF i = n THEN e ELSE s[i]
OBVIOUS

(* A key is the place of its entry, or of none: the unsigned difference is *)
(* out of the deque for every key that is older than the front.            *)
LEMMA IndexOfKey ==
    ASSUME Sizes, QueueTypes, NEW k \in Nat, k < step + Len(dq)
    PROVE  /\ Index(k) \in Nat
           /\ k >= step => Index(k) = k - step /\ Index(k) < Len(dq)
           /\ k < step => Index(k) >= Len(dq)
<1>1. step \in Nat /\ Len(dq) \in Nat /\ step + Len(dq) <= MaxKey
  BY DEF QueueTypes
<1>2. IntMax \in Nat /\ MaxKey \in Nat /\ MaxKey <= IntMax + 1
  BY DEF Sizes
<1>3. CASE k >= step
  BY <1>1, <1>3 DEF Index, Unsigned
<1>4. CASE k < step
  <2>1. Index(k) = k - step + 2 * (IntMax + 1)
    BY <1>1, <1>4 DEF Index, Unsigned
  <2>. QED  BY <1>1, <1>2, <1>4, <2>1
<1>. QED  BY <1>1, <1>3, <1>4

(* cancel empties the entry of the connection, if it is still there, and   *)
(* touches no other.                                                       *)
LEMMA CancelledDeque ==
    ASSUME Sizes, TimersInStep, NEW c \in Conns
    PROVE  LET q == Cancelled(key[c])
           IN  /\ q \in Seq(Entry) /\ Len(q) = Len(dq)
               /\ \A i \in 1 .. Len(dq) :
                    /\ q[i].at = dq[i].at
                    /\ q[i].fn = IF dq[i].fn = c THEN Null ELSE dq[i].fn
<1> DEFINE k == key[c]
           q == Cancelled(k)
<1>1. /\ dq \in Seq(Entry) /\ Len(dq) \in Nat /\ step \in Nat
      /\ \A i \in 1 .. Len(dq) : dq[i] \in Entry
      /\ k \in Nat \cup {Null}
      /\ k # Null => k < step + Len(dq)
      /\ \A i \in 1 .. Len(dq) : dq[i].fn = c <=> k = step + i - 1
  BY DEF TimersInStep, QueueTypes, KeysMatchEntries, QueueInStep, Holds
<1>2. Null \notin Nat
  BY DEF Sizes
<1> HIDE DEF k
<1>3. CASE k # Null /\ k >= step
  <2> DEFINE n == k - step + 1
  <2>1. n \in 1 .. Len(dq) /\ Index(k) = k - step /\ Index(k) < Len(dq)
    BY <1>1, <1>3, IndexOfKey DEF TimersInStep
  <2>2. q = [dq EXCEPT ![n].fn = Null]
    BY <1>3, <2>1 DEF Cancelled
  <2>3. \A i \in 1 .. Len(dq) : dq[i].fn = c <=> i = n
    BY <1>1, <1>3, <2>1
  <2> DEFINE e == [dq[n] EXCEPT !.fn = Null]
  <2>4. e \in Entry /\ e.at = dq[n].at /\ e.fn = Null
    BY <1>1, <2>1 DEF Entry
  <2>5. q = [dq EXCEPT ![n] = e]
    BY <2>2
  <2> HIDE DEF n, q, e
  <2>6. /\ q \in Seq(Entry) /\ Len(q) = Len(dq)
        /\ \A i \in 1 .. Len(dq) : q[i] = IF i = n THEN e ELSE dq[i]
    BY <1>1, <2>1, <2>4, <2>5, ReplaceEntry
  <2>. QED  BY <2>1, <2>3, <2>4, <2>6 DEF q, k
<1>4. CASE k = Null \/ k < step
  <2>1. q = dq
    BY <1>1, <1>4, IndexOfKey DEF Cancelled, TimersInStep
  <2>2. \A i \in 1 .. Len(dq) : dq[i].fn # c
    BY <1>1, <1>2, <1>4
  <2>. QED  BY <1>1, <2>1, <2>2 DEF k
<1>. QED  BY <1>1, <1>2, <1>3, <1>4

LEMMA CancelDeadlineStep ==
    ASSUME Sizes, TimersInStep, NEW c \in Conns, CancelTimer(c)
    PROVE  TimersInStep'
<1>1. /\ Len(dq') = Len(dq) /\ dq' \in Seq(Entry)
      /\ \A i \in 1 .. Len(dq) :
           /\ dq'[i].at = dq[i].at
           /\ dq'[i].fn = IF dq[i].fn = c THEN Null ELSE dq[i].fn
  BY CancelledDeque DEF CancelTimer
<1>2. /\ key' = [key EXCEPT ![c] = Null] /\ fired' = {}
      /\ UNCHANGED << step, now, due >>
  BY DEF CancelTimer
<1>3. QueueTypes'
  BY <1>1, <1>2 DEF TimersInStep, QueueTypes
<1>4. KeysMatchEntries'
  <2>1. ASSUME NEW a \in Conns, NEW i \in 1 .. Len(dq)
        PROVE  dq'[i].fn = a <=> key'[a] = step + i - 1
    <3>1. /\ dq[i].fn = a <=> key[a] = step + i - 1
          /\ step \in Nat /\ step + i - 1 \in Nat
      BY DEF TimersInStep, QueueTypes, KeysMatchEntries, Holds
    <3>2. Null \notin Conns \cup Nat
      BY DEF Sizes
    <3>3. key'[a] = IF a = c THEN Null ELSE key[a]
      BY <1>2 DEF TimersInStep, QueueTypes
    <3>. QED  BY <1>1, <3>1, <3>2, <3>3
  <2>. QED  BY <1>1, <1>2, <2>1 DEF KeysMatchEntries, Holds
<1>5. QueueInStep'
  <2>1. \A a \in Conns : key'[a] # Null => key[a] # Null /\ key'[a] = key[a]
    BY <1>2 DEF TimersInStep, QueueTypes
  <2>. QED  BY <1>1, <1>2, <2>1 DEF TimersInStep, QueueInStep
<1>. QED  BY <1>3, <1>4, <1>5 DEF TimersInStep

LEMMA StartDeadlineStep ==
    ASSUME Sizes, TimersInStep, NEW c \in Conns, SetTimer(c)
    PROVE  TimersInStep'
<1> DEFINE q == Cancelled(key[c])
           n == Len(dq)
           new == [at |-> now, fn |-> c]
<1>1. /\ q \in Seq(Entry) /\ Len(q) = n
      /\ \A i \in 1 .. n :
           /\ q[i].at = dq[i].at
           /\ q[i].fn = IF dq[i].fn = c THEN Null ELSE dq[i].fn
  BY CancelledDeque
<1>2. /\ dq' = Append(q, new) /\ key' = [key EXCEPT ![c] = step + n] /\ fired' = {}
      /\ step + n < MaxKey /\ UNCHANGED << step, now, due >>
  BY DEF SetTimer
<1>3. n \in Nat /\ step \in Nat /\ now \in Nat /\ due \in Nat /\ MaxKey \in Nat
      /\ key \in [Conns -> Nat \cup {Null}] /\ Tick \in Nat /\ Period \in Nat
  BY DEF TimersInStep, QueueTypes, Sizes
<1>4. new \in Entry /\ new.at = now /\ new.fn = c
  BY <1>3 DEF Entry
<1> HIDE DEF q, n, new
<1>5. /\ dq' \in Seq(Entry) /\ Len(dq') = n + 1 /\ dq'[n + 1] = new
      /\ \A i \in 1 .. n : dq'[i] = q[i]
  BY <1>1, <1>2, <1>3, <1>4
<1>6. QueueTypes'
  BY <1>2, <1>3, <1>5 DEF TimersInStep, QueueTypes
<1>7. ASSUME NEW a \in Conns
      PROVE  key'[a] = IF a = c THEN step + n ELSE key[a]
  BY <1>2, <1>3
<1>8. KeysMatchEntries'
  <2>1. ASSUME NEW a \in Conns, NEW i \in 1 .. n
        PROVE  dq'[i].fn = a <=> key'[a] = step + i - 1
    <3>1. dq[i].fn = a <=> key[a] = step + i - 1
      BY DEF TimersInStep, KeysMatchEntries, Holds, n
    <3>2. Null \notin Conns
      BY DEF Sizes
    <3>3. step + n # step + i - 1
      BY <1>3
    <3>. QED  BY <1>1, <1>5, <1>7, <3>1, <3>2, <3>3
  <2>2. ASSUME NEW a \in Conns
        PROVE  dq'[n + 1].fn = a <=> key'[a] = step + n
    <3>1. key[a] # step + n
      <4>1. key[a] # Null => key[a] < step + n
        BY DEF TimersInStep, QueueInStep, n
      <4>2. Null \notin Nat
        BY DEF Sizes
      <4>. QED  BY <1>3, <4>1, <4>2
    <3>. QED  BY <1>4, <1>5, <1>7, <3>1
  <2>3. ASSUME NEW a \in Conns, NEW i \in 1 .. n + 1
        PROVE  dq'[i].fn = a <=> key'[a] = step + i - 1
    <3>1. i = n + 1 => step + i - 1 = step + n
      BY <1>3
    <3>2. i # n + 1 => i \in 1 .. n
      BY <1>3
    <3>. QED  BY <2>1, <2>2, <3>1, <3>2
  <2>. QED  BY <1>2, <1>5, <2>3 DEF KeysMatchEntries, Holds
<1>9. QueueInStep'
  <2>1. /\ \A i \in 1 .. n : dq[i].at <= now /\ due <= dq[i].at + Tick + Period
        /\ \A i, j \in 1 .. n : i < j => dq[i].at <= dq[j].at
        /\ \A a \in Conns : key[a] # Null => key[a] < step + n
        /\ due <= now + Period /\ (Punctual => now <= due)
    BY DEF TimersInStep, QueueInStep, n
  <2>2. \A i \in 1 .. n : dq'[i].at = dq[i].at
    BY <1>1, <1>5
  <2>3. dq'[n + 1].at = now
    BY <1>4, <1>5
  <2>4. \A i \in 1 .. n + 1 : i # n + 1 => i \in 1 .. n
    BY <1>3
  <2>5. \A i \in 1 .. n + 1 : dq'[i].at <= now /\ due <= dq'[i].at + Tick + Period
    BY <1>3, <2>1, <2>2, <2>3, <2>4
  <2>6. ASSUME NEW i \in 1 .. n + 1, NEW j \in 1 .. n + 1, i < j
        PROVE  dq'[i].at <= dq'[j].at
    <3>1. i \in 1 .. n
      BY <1>3, <2>6
    <3>2. CASE j = n + 1
      BY <2>1, <2>2, <2>3, <3>1, <3>2
    <3>3. CASE j # n + 1
      BY <2>1, <2>2, <2>4, <2>6, <3>1, <3>3
    <3>. QED  BY <3>2, <3>3
  <2>7. \A a \in Conns : key'[a] # Null => key'[a] < step + (n + 1)
    <3>1. ASSUME NEW a \in Conns, key'[a] # Null
          PROVE  key'[a] < step + (n + 1)
      <4>1. CASE a = c
        BY <1>3, <1>7, <4>1
      <4>2. CASE a # c
        BY <1>3, <1>7, <2>1, <3>1, <4>2
      <4>. QED  BY <4>1, <4>2
    <3>. QED  BY <3>1
  <2>. QED  BY <1>2, <1>5, <2>1, <2>5, <2>6, <2>7 DEF QueueInStep
<1>. QED  BY <1>6, <1>8, <1>9 DEF TimersInStep

-----------------------------------------------------------------------------
(* process                                                                 *)

(* What process leaves of the deque.                                       *)
LEMMA RestOfDeque ==
    ASSUME NEW T, NEW s \in Seq(T), NEW n \in 0 .. Len(s)
    PROVE  LET q == SubSeq(s, n + 1, Len(s))
           IN  /\ q \in Seq(T) /\ Len(q) = Len(s) - n
               /\ \A i \in 1 .. Len(s) - n : n + i \in 1 .. Len(s) /\ q[i] = s[n + i]
OBVIOUS

LEMMA ProcessStep ==
    ASSUME Sizes, TimersInStep, Process
    PROVE  TimersInStep'
<1>1. PICK n \in 0 .. Len(dq) :
        /\ Taken(n)
        /\ fired' = {dq[i].fn : i \in 1 .. n} \ {Null}
        /\ dq' = SubSeq(dq, n + 1, Len(dq))
        /\ step' = step + n
  BY DEF Process
<1>2. now >= due /\ due' = now + Period /\ UNCHANGED << key, now >>
  BY DEF Process
<1>3. /\ dq \in Seq(Entry) /\ Len(dq) \in Nat /\ step \in Nat /\ now \in Nat
      /\ step + Len(dq) <= MaxKey /\ Tick \in Nat /\ Period \in Nat /\ MaxKey \in Nat
      /\ key \in [Conns -> Nat \cup {Null}] /\ n \in Nat /\ n <= Len(dq)
      /\ \A i \in 1 .. Len(dq) : dq[i].at \in Nat /\ dq[i].fn \in Conns \cup {Null}
  BY Numbers DEF TimersInStep
<1> DEFINE m == Len(dq) - n
<1>4. /\ dq' \in Seq(Entry) /\ Len(dq') = m /\ m \in Nat /\ step' + m = step + Len(dq)
      /\ \A i \in 1 .. m : n + i \in 1 .. Len(dq) /\ dq'[i] = dq[n + i]
  BY <1>1, <1>3, RestOfDeque
<1> HIDE DEF m
<1>5. QueueTypes'
  <2>1. fired' \subseteq Conns
    <3>1. \A i \in 1 .. n : i \in 1 .. Len(dq)
      BY <1>3
    <3>. QED  BY <1>1, <1>3, <3>1
  <2>2. now' \in Nat /\ due' \in Nat /\ step' \in Nat /\ step' + Len(dq') <= MaxKey
    <3>1. now \in Nat /\ Period \in Nat /\ step \in Nat /\ n \in Nat /\ step' = step + n
      BY <1>1, <1>3
    <3>2. step' + Len(dq') <= MaxKey
      BY <1>3, <1>4
    <3>. QED  BY <1>2, <3>1, <3>2
  <2>. QED  BY <1>2, <1>3, <1>4, <2>1, <2>2 DEF QueueTypes
<1>6. KeysMatchEntries'
  <2>1. ASSUME NEW a \in Conns, NEW i \in 1 .. m
        PROVE  dq'[i].fn = a <=> key'[a] = step' + i - 1
    <3>1. dq[n + i].fn = a <=> key[a] = step + (n + i) - 1
      BY <1>4 DEF TimersInStep, KeysMatchEntries, Holds
    <3>2. step + (n + i) - 1 = step' + i - 1
      BY <1>1, <1>3
    <3>. QED  BY <1>2, <1>4, <3>1, <3>2
  <2>. QED  BY <1>4, <2>1 DEF KeysMatchEntries, Holds
<1>7. QueueInStep'
  <2>1. /\ \A i \in 1 .. Len(dq) : dq[i].at <= now
        /\ \A i, j \in 1 .. Len(dq) : i < j => dq[i].at <= dq[j].at
        /\ \A a \in Conns : key[a] # Null => key[a] < step + Len(dq)
    BY DEF TimersInStep, QueueInStep
  <2>2. ASSUME NEW i \in 1 .. m
        PROVE  dq'[i].at <= now /\ now < dq'[i].at + Tick
    <3>1. n < Len(dq) /\ now - dq[n + 1].at < Tick /\ n + 1 \in 1 .. Len(dq)
      BY <1>1, <1>3, <1>4 DEF Taken
    <3>2. dq[n + 1].at <= dq[n + i].at
      BY <1>3, <1>4, <2>1, <3>1
    <3>3. dq[n + 1].at \in Nat /\ dq[n + i].at \in Nat /\ dq'[i].at = dq[n + i].at
          /\ dq[n + i].at <= now
      BY <1>3, <1>4, <2>1, <3>1
    <3>. QED  BY <1>3, <3>1, <3>2, <3>3
  <2>3. ASSUME NEW i \in 1 .. m, NEW j \in 1 .. m, i < j
        PROVE  dq'[i].at <= dq'[j].at
    <3>1. n + i \in 1 .. Len(dq) /\ n + j \in 1 .. Len(dq) /\ n + i < n + j
      BY <1>3, <1>4, <2>3
    <3>. QED  BY <1>4, <2>1, <3>1
  <2>4. \A i \in 1 .. m : due' <= dq'[i].at + Tick + Period
    <3>1. \A i \in 1 .. m : dq'[i].at \in Nat
      BY <1>3, <1>4
    <3>. QED  BY <1>2, <1>3, <2>2, <3>1
  <2>5. due' <= now' + Period /\ (Punctual => now' <= due')
    BY <1>2, <1>3
  <2>6. \A a \in Conns : key'[a] # Null => key'[a] < step' + Len(dq')
    BY <1>2, <1>4, <2>1
  <2>. QED  BY <1>2, <1>4, <2>2, <2>3, <2>4, <2>5, <2>6 DEF QueueInStep
<1>. QED  BY <1>5, <1>6, <1>7 DEF TimersInStep

LEMMA PassStep == ASSUME Sizes, TimersInStep, Pass PROVE TimersInStep'
<1>1. now' = now + 1 /\ (Punctual => now < due) /\ fired' = {}
      /\ UNCHANGED << dq, step, key, due >>
  BY DEF Pass
<1>2. QueueTypes' /\ KeysMatchEntries'
  BY <1>1 DEF TimersInStep, QueueTypes, KeysMatchEntries, Holds
<1>3. QueueInStep'
  <2>1. now \in Nat /\ due \in Nat /\ Period \in Nat
        /\ \A i \in 1 .. Len(dq) : dq[i].at \in Nat
    BY Numbers DEF TimersInStep
  <2>2. due <= now + Period /\ \A i \in 1 .. Len(dq) : dq[i].at <= now
    BY DEF TimersInStep, QueueInStep
  <2>3. due' <= now' + Period /\ (Punctual => now' <= due')
        /\ \A i \in 1 .. Len(dq') : dq'[i].at <= now'
    BY <1>1, <2>1, <2>2
  <2>. QED  BY <1>1, <2>3 DEF TimersInStep, QueueInStep
<1>. QED  BY <1>2, <1>3 DEF TimersInStep

LEMMA QueueStep == ASSUME Sizes, TimersInStep, [QueueNext]_timerVars PROVE TimersInStep'
<1>1. CASE UNCHANGED timerVars
  BY <1>1 DEF timerVars, TimersInStep, QueueTypes, KeysMatchEntries, QueueInStep, Holds
<1>2. CASE QueueNext
  BY <1>2, StartDeadlineStep, CancelDeadlineStep, ProcessStep, PassStep DEF QueueNext
<1>. QED  BY <1>1, <1>2

-----------------------------------------------------------------------------
(* The deadlines that the queue keeps                                      *)

(* A connection has one entry at most, in every state of the deque.        *)
LEMMA OneEntry ==
    ASSUME NEW c, NEW q, NEW s \in Nat, NEW k,
           \A i \in 1 .. Len(q) : q[i].fn = c <=> k = s + i - 1
    PROVE  LET here == {i \in 1 .. Len(q) : q[i].fn = c}
           IN  \A i \in here : here = {i}
<1>1. ASSUME NEW i \in 1 .. Len(q), NEW j \in 1 .. Len(q), q[i].fn = c, q[j].fn = c
      PROVE  i = j
  <2>1. k = s + i - 1 /\ k = s + j - 1
    BY <1>1
  <2>. QED  BY <2>1
<1>. QED  BY <1>1

LEMMA ArmedIs ==
    ASSUME TimersInStep, NEW c \in Conns
    PROVE  /\ \A i \in 1 .. Len(dq) : dq[i].fn = c => Armed(c) = dq[i].at
           /\ (\A i \in 1 .. Len(dq) : dq[i].fn # c) => Armed(c) = Null
<1>1. step \in Nat /\ \A i \in 1 .. Len(dq) : dq[i].fn = c <=> key[c] = step + i - 1
  BY DEF TimersInStep, QueueTypes, KeysMatchEntries, Holds
<1> DEFINE here == {i \in 1 .. Len(dq) : dq[i].fn = c}
<1>2. \A i \in here : here = {i}
  BY <1>1, OneEntry
<1>. QED  BY <1>2 DEF Armed

LEMMA ArmedWillBe ==
    ASSUME TimersInStep', NEW c \in Conns
    PROVE  /\ \A i \in 1 .. Len(dq') : dq'[i].fn = c => Armed(c)' = dq'[i].at
           /\ (\A i \in 1 .. Len(dq') : dq'[i].fn # c) => Armed(c)' = Null
<1>1. step' \in Nat /\ \A i \in 1 .. Len(dq') : dq'[i].fn = c <=> key'[c] = step' + i - 1
  BY DEF TimersInStep, QueueTypes, KeysMatchEntries, Holds
<1> DEFINE here == {i \in 1 .. Len(dq') : dq'[i].fn = c}
<1>2. \A i \in here : here = {i}
  BY <1>1, OneEntry
<1>. QED  BY <1>2 DEF Armed

LEMMA StartImplements ==
    ASSUME Sizes, TimersInStep, NEW c \in Conns, SetTimer(c)
    PROVE  Abstract!Start(c)
<1> DEFINE q == Cancelled(key[c])
           n == Len(dq)
           new == [at |-> now, fn |-> c]
<1>1. TimersInStep'
  BY StartDeadlineStep
<1>2. /\ q \in Seq(Entry) /\ Len(q) = n
      /\ \A i \in 1 .. n :
           /\ q[i].at = dq[i].at
           /\ q[i].fn = IF dq[i].fn = c THEN Null ELSE dq[i].fn
  BY CancelledDeque
<1>3. dq' = Append(q, new) /\ fired' = {} /\ UNCHANGED now
  BY DEF SetTimer
<1>4. n \in Nat /\ now \in Nat /\ new.at = now /\ new.fn = c /\ new \in Entry
  BY Numbers DEF TimersInStep, Entry
<1> HIDE DEF q, n, new
<1>5. /\ Len(dq') = n + 1 /\ dq'[n + 1] = new /\ n + 1 \in 1 .. n + 1
      /\ \A i \in 1 .. n : dq'[i] = q[i]
      /\ \A i \in 1 .. n + 1 : i # n + 1 => i \in 1 .. n
      /\ \A i \in 1 .. n : i \in 1 .. n + 1
  BY <1>2, <1>3, <1>4
<1>6. Armed(c)' = now
  BY <1>1, <1>4, <1>5, ArmedWillBe
<1>7. ASSUME NEW a \in Conns, a # c
      PROVE  Armed(a)' = Armed(a)
  <2>1. CASE \E i \in 1 .. n : dq[i].fn = a
    <3>1. PICK i \in 1 .. n : dq[i].fn = a
      BY <2>1
    <3>2. dq'[i].fn = a /\ dq'[i].at = dq[i].at /\ i \in 1 .. Len(dq')
      BY <1>2, <1>5, <1>7, <3>1
    <3>3. Armed(a)' = dq'[i].at
      BY <1>1, <3>2, ArmedWillBe
    <3>. QED  BY <3>1, <3>2, <3>3, ArmedIs DEF n
  <2>2. CASE \A i \in 1 .. n : dq[i].fn # a
    <3>1. \A i \in 1 .. n + 1 : dq'[i].fn # a
      BY <1>2, <1>4, <1>5, <1>7, <2>2 DEF Sizes
    <3>2. Armed(a)' = Null
      BY <1>1, <1>5, <3>1, ArmedWillBe
    <3>. QED  BY <2>2, <3>2, ArmedIs DEF n
  <2>. QED  BY <2>1, <2>2
<1>. QED  BY <1>3, <1>6, <1>7 DEF Abstract!Start

LEMMA CancelImplements ==
    ASSUME Sizes, TimersInStep, NEW c \in Conns, CancelTimer(c)
    PROVE  Abstract!Cancel(c)
<1>1. TimersInStep'
  BY CancelDeadlineStep
<1>2. /\ Len(dq') = Len(dq) /\ fired' = {} /\ UNCHANGED now
      /\ \A i \in 1 .. Len(dq) :
           /\ dq'[i].at = dq[i].at
           /\ dq'[i].fn = IF dq[i].fn = c THEN Null ELSE dq[i].fn
  BY CancelledDeque DEF CancelTimer
<1>3. Null \notin Conns
  BY DEF Sizes
<1>4. Armed(c)' = Null
  <2>1. \A i \in 1 .. Len(dq') : dq'[i].fn # c
    BY <1>2, <1>3
  <2>. QED  BY <1>1, <2>1, ArmedWillBe
<1>5. ASSUME NEW a \in Conns, a # c
      PROVE  Armed(a)' = Armed(a)
  <2>1. \A i \in 1 .. Len(dq) : dq'[i].fn = a <=> dq[i].fn = a
    BY <1>2, <1>3, <1>5
  <2>2. CASE \E i \in 1 .. Len(dq) : dq[i].fn = a
    <3>1. PICK i \in 1 .. Len(dq) : dq[i].fn = a
      BY <2>2
    <3>2. dq'[i].fn = a /\ dq'[i].at = dq[i].at /\ i \in 1 .. Len(dq')
      BY <1>2, <2>1, <3>1
    <3>3. Armed(a)' = dq'[i].at
      BY <1>1, <3>2, ArmedWillBe
    <3>. QED  BY <3>1, <3>2, <3>3, ArmedIs
  <2>3. CASE \A i \in 1 .. Len(dq) : dq[i].fn # a
    <3>1. Armed(a)' = Null
      BY <1>1, <1>2, <2>1, <2>3, ArmedWillBe
    <3>. QED  BY <2>3, <3>1, ArmedIs
  <2>. QED  BY <2>2, <2>3
<1>. QED  BY <1>2, <1>4, <1>5 DEF Abstract!Cancel

(* The entries process takes are those of the deadlines that are due, as   *)
(* the deque is in the order of their times.                               *)
LEMMA ProcessImplements ==
    ASSUME Sizes, TimersInStep, Process
    PROVE  Abstract!Expire
<1>1. PICK n \in 0 .. Len(dq) :
        /\ Taken(n)
        /\ fired' = {dq[i].fn : i \in 1 .. n} \ {Null}
        /\ dq' = SubSeq(dq, n + 1, Len(dq))
  BY DEF Process
<1>2. UNCHANGED now /\ TimersInStep'
  BY ProcessStep DEF Process
<1>3. /\ dq \in Seq(Entry) /\ Len(dq) \in Nat /\ now \in Nat /\ Tick \in Nat
      /\ n \in Nat /\ n <= Len(dq)
      /\ \A i \in 1 .. Len(dq) : dq[i].at \in Nat /\ dq[i].fn \in Conns \cup {Null}
  BY Numbers DEF TimersInStep
<1> DEFINE m == Len(dq) - n
<1>4. /\ Len(dq') = m /\ m \in Nat
      /\ \A i \in 1 .. m : n + i \in 1 .. Len(dq) /\ dq'[i] = dq[n + i]
  BY <1>1, <1>3, RestOfDeque
<1>5. ASSUME NEW i \in 1 .. Len(dq)
      PROVE  i \in 1 .. n <=> now - dq[i].at >= Tick
  <2>1. CASE i \in 1 .. n
    BY <1>1, <2>1 DEF Taken
  <2>2. CASE i \notin 1 .. n
    <3>1. n < Len(dq) /\ n + 1 \in 1 .. Len(dq) /\ (n + 1 < i \/ n + 1 = i)
      BY <1>3, <2>2
    <3>2. now - dq[n + 1].at < Tick
      BY <1>1, <3>1 DEF Taken
    <3>3. dq[n + 1].at <= dq[i].at
      BY <1>3, <3>1 DEF TimersInStep, QueueInStep
    <3>4. dq[n + 1].at \in Nat /\ dq[i].at \in Nat
      BY <1>3, <3>1
    <3>5. ~ (now - dq[i].at >= Tick)
      BY <1>3, <3>2, <3>3, <3>4
    <3>. QED  BY <2>2, <3>5
  <2>. QED  BY <2>1, <2>2
<1> DEFINE armed == [c \in Conns |-> Armed(c)]
           set == {c \in Conns : armed[c] # Null}
           dead == {c \in set : now - armed[c] >= Tick}
<1>6. ASSUME NEW c \in Conns
      PROVE  /\ c \in dead <=> \E i \in 1 .. n : dq[i].fn = c
             /\ Armed(c)' = IF c \in dead THEN Null ELSE Armed(c)
  <2>1. CASE \E i \in 1 .. Len(dq) : dq[i].fn = c
    <3>1. PICK i \in 1 .. Len(dq) : dq[i].fn = c
      BY <2>1
    <3>2. Armed(c) = dq[i].at /\ Armed(c) # Null
      BY <1>3, <3>1, ArmedIs DEF Sizes
    <3>3. c \in dead <=> i \in 1 .. n
      BY <1>5, <3>2
    <3>4. \A j \in 1 .. Len(dq) : dq[j].fn = c => j = i
      <4>1. ASSUME NEW j \in 1 .. Len(dq), dq[j].fn = c PROVE j = i
        <5>1. key[c] = step + i - 1 /\ key[c] = step + j - 1 /\ step \in Nat
          BY <3>1, <4>1 DEF TimersInStep, QueueTypes, KeysMatchEntries, Holds
        <5>. QED  BY <5>1
      <4>. QED  BY <4>1
    <3>5. \A j \in 1 .. n : j \in 1 .. Len(dq)
      BY <1>3
    <3> HIDE DEF dead, m
    <3>6. CASE i \in 1 .. n
      <4>1. ASSUME NEW j \in 1 .. m PROVE dq'[j].fn # c
        <5>1. n + j # i /\ n + j \in 1 .. Len(dq) /\ dq'[j] = dq[n + j]
          BY <1>3, <1>4, <3>6
        <5>. QED  BY <3>4, <5>1
      <4>2. Armed(c)' = Null
        BY <1>2, <1>4, <4>1, ArmedWillBe
      <4>. QED  BY <3>1, <3>3, <3>6, <4>2
    <3>7. CASE i \notin 1 .. n
      <4>1. i - n \in 1 .. m /\ n + (i - n) = i
        BY <1>3, <3>7 DEF m
      <4>2. dq'[i - n] = dq[i]
        BY <1>4, <4>1
      <4>3. Armed(c)' = dq'[i - n].at
        BY <1>2, <1>4, <3>1, <4>1, <4>2, ArmedWillBe
      <4>. QED  BY <3>2, <3>3, <3>4, <3>5, <3>7, <4>2, <4>3
    <3>. QED  BY <3>6, <3>7
  <2>2. CASE \A i \in 1 .. Len(dq) : dq[i].fn # c
    <3>1. Armed(c) = Null /\ c \notin dead
      BY <2>2, ArmedIs
    <3>2. \A j \in 1 .. n : dq[j].fn # c
      BY <1>3, <2>2
    <3> HIDE DEF dead, m
    <3>3. \A j \in 1 .. m : dq'[j].fn # c
      BY <1>4, <2>2
    <3>4. Armed(c)' = Null
      BY <1>2, <1>4, <3>3, ArmedWillBe
    <3>. QED  BY <3>1, <3>2, <3>4
  <2>. QED  BY <2>1, <2>2
<1>7. fired' = dead
  <2>1. dead \subseteq Conns /\ Null \notin Conns
    BY DEF Sizes
  <2>2. \A i \in 1 .. n : dq[i].fn \in Conns \cup {Null}
    BY <1>3
  <2> HIDE DEF dead
  <2>3. ASSUME NEW c PROVE c \in fired' <=> c \in dead
    BY <1>1, <1>6, <2>1, <2>2
  <2>. QED  BY <2>3
<1>8. armed' = [c \in Conns |-> IF c \in dead THEN Null ELSE armed[c]]
  <2> HIDE DEF dead
  <2>. QED  BY <1>6
<1>. QED  BY <1>2, <1>7, <1>8 DEF Abstract!Expire, Abstract!Due, Abstract!Set

LEMMA PassImplements ==
    ASSUME Sizes, TimersInStep, Pass
    PROVE  Abstract!Pass
<1>1. now' = now + 1 /\ now \in Nat /\ fired' = {} /\ UNCHANGED dq
  BY DEF Pass, TimersInStep, QueueTypes
<1>. QED  BY <1>1 DEF Abstract!Pass, Armed

LEMMA InitImplements == ASSUME QueueInit PROVE Abstract!Init
BY DEF QueueInit, Abstract!Init, Armed

-----------------------------------------------------------------------------
(* Results                                                                 *)

(* Deque, keys and step counter stay in step.                              *)
THEOREM QueueStaysInStep == ASSUME Sizes PROVE QueueSpec => []TimersInStep
<1>1. QueueInit => TimersInStep
  BY QueueStarts
<1>2. TimersInStep /\ [QueueNext]_timerVars => TimersInStep'
  BY QueueStep
<1>. QED  BY <1>1, <1>2, PTL DEF QueueSpec

(* Nobody's cancel reaches another connection's entry (crow_all.h:6311).   *)
THEOREM CancelReachesOwnEntry == ASSUME Sizes PROVE QueueSpec => []KeysMatchEntries
<1>1. TimersInStep => KeysMatchEntries
  BY DEF TimersInStep
<1>. QED  BY <1>1, QueueStaysInStep, PTL

(* A deadline is at most one period late on a worker that is not kept busy *)
(* (crow_all.h:9357-9368).                                                 *)
THEOREM TimersAreInTime == ASSUME Sizes PROVE QueueSpec => []NoTimerIsLate
<1>1. TimersInStep => NoTimerIsLate
  <2> SUFFICES ASSUME TimersInStep, Punctual, NEW i \in 1 .. Len(dq)
               PROVE  now - dq[i].at <= Tick + Period
    BY DEF NoTimerIsLate
  <2>1. /\ dq[i].at \in Nat /\ now \in Nat /\ due \in Nat /\ Tick \in Nat /\ Period \in Nat
    BY Numbers DEF TimersInStep
  <2>2. now <= due /\ due <= dq[i].at + Tick + Period
    BY DEF TimersInStep, QueueInStep
  <2>. QED  BY <2>1, <2>2
<1>. QED  BY <1>1, QueueStaysInStep, PTL

(* The queue keeps one deadline per connection: one that was cancelled or  *)
(* started again never fires, the others fire once, all those that are due *)
(* and no other (crow_all.h:6311-6352).                                    *)
THEOREM QueueImplementsDeadlines == ASSUME Sizes PROVE QueueSpec => KeepsDeadlines
<1>1. QueueInit => Abstract!Init
  BY InitImplements
<1>2. TimersInStep /\ [QueueNext]_timerVars => [Abstract!Next]_(Abstract!abstractVars)
  <2> SUFFICES ASSUME TimersInStep, [QueueNext]_timerVars PROVE [Abstract!Next]_(Abstract!abstractVars)
    OBVIOUS
  <2>1. CASE UNCHANGED timerVars
    BY <2>1 DEF timerVars, Abstract!abstractVars, Armed
  <2>2. CASE QueueNext
    BY <2>2, StartImplements, CancelImplements, ProcessImplements, PassImplements
       DEF QueueNext, Abstract!Next
  <2>. QED  BY <2>1, <2>2
<1>. QED  BY <1>1, <1>2, QueueStaysInStep, PTL DEF QueueSpec, KeepsDeadlines, Abstract!Spec

-----------------------------------------------------------------------------
(* The server and its workers                                              *)

Stepped == {w \in Workers : worker[w] \in {"runs", "over"}}

LEMMA WorkersFacts ==
    ASSUME Concurrency
    PROVE  /\ concurrency_ \in Nat /\ concurrency_ >= 1 /\ 0 \in Workers
           /\ \A w \in Workers : w \in Nat /\ w < concurrency_ /\ w # -1
           /\ IsFiniteSet(Workers) /\ Cardinality(Workers) = concurrency_
<1>1. concurrency_ \in Nat /\ concurrency_ >= 1
  BY DEF Concurrency
<1>2. IsFiniteSet(0..(concurrency_ - 1)) /\ Cardinality(0..(concurrency_ - 1)) = concurrency_
  BY <1>1, FS_Interval
<1>. QED  BY <1>1, <1>2 DEF Workers

LEMMA ServerStarts == ASSUME Concurrency, ServerInit PROVE ServerInStep
<1>1. /\ main = "validate" /\ io_service_pool_ = {} /\ prepared = {} /\ init_count = 0
      /\ worker = [w \in Workers |-> "none"] /\ roundrobin_index_ = 0 /\ offered = -1
      /\ offers = [w \in Workers |-> 0] /\ posted = [w \in Workers |-> 0]
      /\ started = [w \in Workers |-> 0] /\ stopped = {} /\ stopping = Nobody
  BY DEF ServerInit
<1>2. ServerTypes
  BY <1>1, WorkersFacts DEF ServerTypes
<1>3. PoolInStep
  <2>1. 0 \in 0..concurrency_ /\ 0..(0 - 1) = {} /\ 0 < concurrency_
    BY WorkersFacts
  <2>2. io_service_pool_ = 0..(0 - 1) /\ (main \in Early <=> 0 < concurrency_)
    BY <1>1, <2>1 DEF Early
  <2>. QED  BY <2>1, <2>2 DEF PoolInStep
<1>4. WorkersInStep
  <2>1. Stepped = {}
    BY <1>1 DEF Stepped
  <2>2. {w \in Workers : worker[w] \in {"counts", "runs"}} = {}
    BY <1>1
  <2>. QED  BY <1>1, <2>1, <2>2, FS_EmptySet DEF WorkersInStep, Early, Serving, Stepped
<1>5. OffersInStep
  <2>1. \A w \in Workers : ~ (1 <= w /\ w <= 0) /\ offers[w] = 0 /\ offers[0] = 0
    BY <1>1, WorkersFacts
  <2>. QED  BY <1>1, <2>1 DEF OffersInStep, Serving
<1>6. StopsInStep
  BY <1>1 DEF StopsInStep, Nobody
<1>. QED  BY <1>2, <1>3, <1>4, <1>5, <1>6 DEF ServerInStep

-----------------------------------------------------------------------------
(* The thread that calls run().                                            *)

LEMMA AnnounceStep == ASSUME Concurrency, ServerInStep, notify_server_start PROVE ServerInStep'
<1>1. /\ main = "validate" /\ main' = "pool"
      /\ UNCHANGED <<io_service_pool_, prepared, worker, init_count, roundrobin_index_, offered,
                     offers, posted, started, stopped, stopping>>
  BY DEF notify_server_start, pools, accepts, stops
<1>2. ServerTypes' /\ PoolInStep'
  BY <1>1 DEF ServerInStep, ServerTypes, PoolInStep, Early
<1>3. WorkersInStep'
  BY <1>1 DEF ServerInStep, WorkersInStep, Early, Serving
<1>4. OffersInStep' /\ StopsInStep'
  BY <1>1 DEF ServerInStep, OffersInStep, StopsInStep, Serving
<1>. QED  BY <1>2, <1>3, <1>4 DEF ServerInStep

LEMMA EmplaceStep == ASSUME Concurrency, ServerInStep, EmplaceService PROVE ServerInStep'
<1> DEFINE n == Cardinality(io_service_pool_)
<1>1. /\ main = "pool" /\ io_service_pool_' = io_service_pool_ \cup {n}
      /\ main' = IF n + 1 = concurrency_ THEN "threads" ELSE "pool"
      /\ UNCHANGED <<prepared, worker, init_count, roundrobin_index_, offered,
                     offers, posted, started, stopped, stopping>>
  BY DEF EmplaceService, accepts, stops
<1>2. n \in Nat /\ n < concurrency_ /\ io_service_pool_ = 0..(n - 1)
  <2>1. PICK k \in 0..concurrency_ : io_service_pool_ = 0..(k - 1) /\ k < concurrency_
    BY <1>1 DEF ServerInStep, PoolInStep, Early
  <2>2. Cardinality(0..(k - 1)) = k
    BY FS_Interval, WorkersFacts
  <2>. QED  BY <2>1, <2>2, WorkersFacts
<1> HIDE DEF n
<1>3. io_service_pool_' = 0..((n + 1) - 1) /\ n + 1 \in 0..concurrency_ /\ n \in Workers
  BY <1>1, <1>2, WorkersFacts DEF Workers
<1>4. ServerTypes'
  BY <1>1, <1>3 DEF ServerInStep, ServerTypes
<1>5. PoolInStep'
  <2>1. main' \in Early <=> n + 1 < concurrency_
    BY <1>1, <1>2, WorkersFacts DEF Early
  <2>. QED  BY <1>3, <2>1 DEF PoolInStep
<1>6. WorkersInStep'
  <2>1. \A w \in Workers : worker[w] = "none"
    BY <1>1 DEF ServerInStep, WorkersInStep, Early
  <2>2. 0 \in Workers /\ {w \in Workers : worker[w] = "none"} = 0..(concurrency_ - 1)
    BY <2>1, WorkersFacts DEF Workers
  <2>. QED  BY <1>1, <2>1, <2>2 DEF ServerInStep, WorkersInStep, Early, Serving
<1>7. OffersInStep' /\ StopsInStep'
  BY <1>1 DEF ServerInStep, OffersInStep, StopsInStep, Serving
<1>. QED  BY <1>4, <1>5, <1>6, <1>7 DEF ServerInStep

(* The thread started next is the first of those that are left.            *)
LEMMA StartThreadStep == ASSUME Concurrency, ServerInStep, StartThread PROVE ServerInStep'
<1> DEFINE none == {w \in Workers : worker[w] = "none"}
           i == CHOOSE w \in none : \A v \in none : w <= v
<1>1. /\ main = "threads" /\ worker' = [worker EXCEPT ![i] = "init"]
      /\ main' = IF none = {i} THEN "barrier" ELSE "threads"
      /\ UNCHANGED <<io_service_pool_, prepared, init_count, roundrobin_index_, offered,
                     offers, posted, started, stopped, stopping>>
  BY DEF StartThread, accepts, stops
<1>2. PICK n \in Workers : none = n..(concurrency_ - 1)
  BY <1>1 DEF ServerInStep, WorkersInStep
<1>3. n \in Nat /\ n <= concurrency_ - 1 /\ concurrency_ \in Nat
  BY WorkersFacts
<1>4. i = n
  <2>1. n \in none /\ \A v \in none : n <= v
    BY <1>2, <1>3
  <2>2. i \in none /\ \A v \in none : i <= v
    BY <2>1
  <2>. QED  BY <1>2, <1>3, <2>1, <2>2
<1>5. worker[n] = "none"
  BY <1>2, <1>3
<1> DEFINE left == {w \in Workers : worker'[w] = "none"}
<1>6. \A w \in Workers : worker'[w] = IF w = n THEN "init" ELSE worker[w]
  BY <1>1, <1>4 DEF ServerInStep, ServerTypes
<1>7. left = none \ {n}
  BY <1>6
<1>8. main' = IF none = {n} THEN "barrier" ELSE "threads"
  BY <1>1, <1>4
<1>9. main' = "barrier" => left = {}
  BY <1>7, <1>8
<1>10. main' = "threads" => \E k \in Workers : left = k..(concurrency_ - 1)
  <2>1. none # {n} => n + 1 \in Workers /\ none \ {n} = (n + 1)..(concurrency_ - 1)
    BY <1>2, <1>3 DEF Workers
  <2>. QED  BY <1>7, <1>8, <2>1
<1> HIDE DEF none, left, i
<1>11. ServerTypes' /\ PoolInStep'
  BY <1>1, <1>4, <1>8 DEF ServerInStep, ServerTypes, PoolInStep, Early
<1>12. WorkersInStep'
  <2>1. {w \in Workers : worker'[w] \in {"runs", "over"}} = Stepped
    BY <1>5, <1>6 DEF Stepped
  <2>2. {w \in Workers : worker'[w] \in {"counts", "runs"}} = prepared
    BY <1>5, <1>6 DEF ServerInStep, WorkersInStep
  <2>3. \A w \in Workers : worker'[w] = "over" => w \in stopped
    BY <1>6 DEF ServerInStep, WorkersInStep
  <2>. QED  BY <1>1, <1>8, <1>9, <1>10, <2>1, <2>2, <2>3
            DEF ServerInStep, WorkersInStep, Early, Serving, Stepped, left
<1>13. OffersInStep' /\ StopsInStep'
  BY <1>1, <1>8 DEF ServerInStep, OffersInStep, StopsInStep, Serving
<1>. QED  BY <1>11, <1>12, <1>13 DEF ServerInStep

(* Round robin: the next offer goes to the worker that has had fewest.     *)
LEMMA AcceptOffers ==
    ASSUME Concurrency, ServerInStep, do_accept
    PROVE  /\ roundrobin_index_' \in Workers /\ offered' = roundrobin_index_'
           /\ offers' \in [Workers -> Nat]
           /\ \A w \in Workers :
                 offers'[w] = IF 1 <= w /\ w <= roundrobin_index_'
                              THEN offers'[0] + 1 ELSE offers'[0]
<1> DEFINE r == roundrobin_index_
           p == pick_io_service
<1>1. r \in Workers /\ r \in Nat /\ r < concurrency_ /\ concurrency_ \in Nat /\ 0 \in Workers
  BY WorkersFacts DEF ServerInStep, ServerTypes
<1>2. offers \in [Workers -> Nat] /\ offers[0] \in Nat
      /\ \A w \in Workers : offers[w] = IF 1 <= w /\ w <= r THEN offers[0] + 1 ELSE offers[0]
  BY <1>1 DEF ServerInStep, OffersInStep
<1>3. roundrobin_index_' = p /\ offered' = p /\ offers' = [offers EXCEPT ![p] = @ + 1]
  BY DEF do_accept
<1>4. p \in Workers /\ p = IF r + 1 >= concurrency_ THEN 0 ELSE r + 1
  BY <1>1 DEF pick_io_service, Workers
<1> HIDE DEF p, r
<1>5. offers' \in [Workers -> Nat]
      /\ \A w \in Workers : offers'[w] = IF w = p THEN offers[w] + 1 ELSE offers[w]
  BY <1>2, <1>3, <1>4
<1>6. CASE r + 1 >= concurrency_
  <2>1. \A w \in Workers : w # 0 => 1 <= w /\ w <= r
    BY <1>1, <1>6, WorkersFacts
  <2>2. \A w \in Workers : offers'[w] = offers[0] + 1
    BY <1>1, <1>2, <1>4, <1>5, <1>6, <2>1
  <2>3. \A w \in Workers : ~ (1 <= w /\ w <= 0)
    BY WorkersFacts
  <2>. QED  BY <1>1, <1>3, <1>4, <1>5, <1>6, <2>2, <2>3
<1>7. CASE ~ (r + 1 >= concurrency_)
  <2>1. p = r + 1 /\ p # 0
    BY <1>1, <1>4, <1>7
  <2>2. \A w \in Workers : (1 <= w /\ w <= p) <=> (w = p \/ (1 <= w /\ w <= r))
    BY <1>1, <2>1, WorkersFacts
  <2>3. offers'[0] = offers[0] /\ offers[p] = offers[0]
    <3>1. ~ (p <= r) /\ ~ (0 = p)
      BY <1>1, <2>1
    <3>. QED  BY <1>1, <1>2, <1>4, <1>5, <3>1
  <2>4. ASSUME NEW w \in Workers
        PROVE  offers'[w] = IF 1 <= w /\ w <= p THEN offers[0] + 1 ELSE offers[0]
    BY <1>2, <1>5, <2>2, <2>3
  <2>. QED  BY <1>3, <1>4, <1>5, <2>3, <2>4
<1>. QED  BY <1>6, <1>7

(* All workers are past their first steps when the first one is offered.   *)
LEMMA FirstAcceptStep == ASSUME Concurrency, ServerInStep, FirstAccept PROVE ServerInStep'
<1>1. /\ main = "barrier" /\ init_count = concurrency_ /\ do_accept /\ main' = "io"
      /\ UNCHANGED <<io_service_pool_, prepared, worker, init_count, posted, started, stopped,
                     stopping>>
  BY DEF FirstAccept, Barrier, pools, stops
<1>2. /\ roundrobin_index_' \in Workers /\ offered' = roundrobin_index_'
      /\ offers' \in [Workers -> Nat]
      /\ \A w \in Workers :
            offers'[w] = IF 1 <= w /\ w <= roundrobin_index_'
                         THEN offers'[0] + 1 ELSE offers'[0]
  BY <1>1, AcceptOffers
<1>3. \A w \in Workers : worker[w] \in {"runs", "over"}
  <2>1. Stepped \in SUBSET Workers /\ Cardinality(Stepped) = Cardinality(Workers)
    BY <1>1, WorkersFacts DEF ServerInStep, WorkersInStep, Stepped
  <2>2. Stepped = Workers
    BY <2>1, WorkersFacts, FS_Subset
  <2>. QED  BY <2>2 DEF Stepped
<1>4. ServerTypes' /\ PoolInStep'
  BY <1>1, <1>2 DEF ServerInStep, ServerTypes, PoolInStep, Early
<1>5. WorkersInStep'
  BY <1>1, <1>3 DEF ServerInStep, WorkersInStep, Early, Serving
<1>6. OffersInStep' /\ StopsInStep'
  BY <1>1, <1>2 DEF ServerInStep, OffersInStep, StopsInStep, Serving
<1>. QED  BY <1>4, <1>5, <1>6 DEF ServerInStep

(* What run() does after its last handler.                                 *)
LEMMA LeaveStep ==
    ASSUME Concurrency, ServerInStep, JoinIo \/ Return
    PROVE  ServerInStep'
<1>1. UNCHANGED <<io_service_pool_, prepared, worker, init_count, roundrobin_index_, offered,
                  offers, posted, started, stopped, stopping>>
  BY DEF JoinIo, Return, pools, accepts, stops
<1>2. \/ main = "io" /\ main' = "futures" /\ stopping.by # "signal"
      \/ /\ main = "futures" /\ main' = "returned"
         /\ \A w \in Workers : worker[w] = "over"
  BY DEF JoinIo, Return, IoReturns, FuturesDone
<1>3. ServerTypes' /\ PoolInStep'
  BY <1>1, <1>2 DEF ServerInStep, ServerTypes, PoolInStep, Early
<1>4. WorkersInStep'
  BY <1>1, <1>2 DEF ServerInStep, WorkersInStep, Early, Serving
<1>5. OffersInStep' /\ StopsInStep'
  BY <1>1, <1>2 DEF ServerInStep, OffersInStep, StopsInStep, Serving
<1>. QED  BY <1>3, <1>4, <1>5 DEF ServerInStep

-----------------------------------------------------------------------------
(* Its handlers, and stop().                                               *)

LEMMA AcceptStep == ASSUME Concurrency, ServerInStep, Accept PROVE ServerInStep'
<1>1. /\ main = "io" /\ do_accept
      /\ \/ posted' = posted
         \/ posted' = [posted EXCEPT ![offered] = @ + 1]
      /\ UNCHANGED <<main, io_service_pool_, prepared, worker, init_count, started, stopped,
                     stopping>>
  BY DEF Accept, AcceptServes, pools, stops
<1>2. /\ roundrobin_index_' \in Workers /\ offered' = roundrobin_index_'
      /\ offers' \in [Workers -> Nat]
      /\ \A w \in Workers :
            offers'[w] = IF 1 <= w /\ w <= roundrobin_index_'
                         THEN offers'[0] + 1 ELSE offers'[0]
  BY <1>1, AcceptOffers
<1>3. posted' \in [Workers -> Nat]
  BY <1>1 DEF ServerInStep, OffersInStep
<1>4. ServerTypes' /\ PoolInStep' /\ WorkersInStep' /\ StopsInStep'
  BY <1>1, <1>2, <1>3 DEF ServerInStep, ServerTypes, PoolInStep, WorkersInStep, StopsInStep
<1>5. OffersInStep'
  BY <1>1, <1>2, <1>3 DEF ServerInStep, OffersInStep, Serving
<1>. QED  BY <1>4, <1>5 DEF ServerInStep

(* stop() only ever adds to what is stopped; it is a handler's until the   *)
(* pool is gone through, and run() waits for the handler.                  *)
LEMMA StopStep ==
    ASSUME Concurrency, ServerInStep, Signal \/ Stopping \/ OwnerStop
    PROVE  ServerInStep'
<1>1. UNCHANGED <<main, io_service_pool_, prepared, worker, init_count, roundrobin_index_,
                  offered, offers, posted, started>>
  BY DEF Signal, Stopping, OwnerStop, pools, accepts
<1>2. stopped \subseteq stopped' /\ stopped' \subseteq Services
  <2>1. stopped \subseteq Services /\ io_service_pool_ \subseteq Workers
    BY DEF ServerInStep, ServerTypes
  <2>. QED  BY <2>1 DEF Signal, Stopping, OwnerStop, StopNext, Services
<1>3. stopping' \in [by : {"nobody", "signal", "owner", "past"}, next : Int]
  <2>1. stopping \in [by : {"nobody", "signal", "owner", "past"}, next : Int]
    BY DEF ServerInStep, StopsInStep
  <2>. QED  BY <2>1 DEF Signal, Stopping, OwnerStop, StopNext
<1>4. main \in {"futures", "returned"} => stopping'.by # "signal"
  <2>1. CASE Signal
    BY <2>1 DEF Signal, AcceptServes
  <2>2. CASE OwnerStop
    BY <2>2 DEF OwnerStop
  <2>3. CASE Stopping
    <3>1. stopping'.by = stopping.by \/ stopping'.by = "past"
      BY <2>3 DEF Stopping, StopNext, ServerInStep, StopsInStep
    <3>. QED  BY <3>1 DEF ServerInStep, StopsInStep
  <2>. QED  BY <2>1, <2>2, <2>3
<1>5. ServerTypes' /\ PoolInStep' /\ WorkersInStep' /\ OffersInStep'
  BY <1>1, <1>2 DEF ServerInStep, ServerTypes, PoolInStep, WorkersInStep, OffersInStep
<1>6. StopsInStep'
  BY <1>1, <1>3, <1>4 DEF ServerInStep, StopsInStep
<1>. QED  BY <1>5, <1>6 DEF ServerInStep

-----------------------------------------------------------------------------
(* A worker.                                                               *)

LEMMA InitialiseStep ==
    ASSUME Concurrency, ServerInStep, NEW w \in Workers, Initialise(w)
    PROVE  ServerInStep'
<1>1. /\ worker[w] = "init" /\ prepared' = prepared \cup {w}
      /\ worker' = [worker EXCEPT ![w] = "counts"]
      /\ UNCHANGED <<main, io_service_pool_, init_count, roundrobin_index_, offered,
                     offers, posted, started, stopped, stopping>>
  BY DEF Initialise, accepts, stops
<1>2. \A v \in Workers : worker'[v] = IF v = w THEN "counts" ELSE worker[v]
  BY <1>1 DEF ServerInStep, ServerTypes
<1>3. ServerTypes' /\ PoolInStep' /\ OffersInStep'
  BY <1>1 DEF ServerInStep, ServerTypes, PoolInStep, OffersInStep
<1>4. WorkersInStep'
  <2>1. {v \in Workers : worker'[v] \in {"runs", "over"}} = Stepped
    BY <1>1, <1>2 DEF Stepped
  <2>2. {v \in Workers : worker'[v] \in {"counts", "runs"}} = prepared \cup {w}
    BY <1>1, <1>2 DEF ServerInStep, WorkersInStep
  <2>3. {v \in Workers : worker'[v] = "none"} = {v \in Workers : worker[v] = "none"}
    BY <1>1, <1>2
  <2>. QED  BY <1>1, <1>2, <2>1, <2>2, <2>3 DEF ServerInStep, WorkersInStep, Stepped
<1>5. StopsInStep'
  BY <1>1 DEF ServerInStep, StopsInStep
<1>. QED  BY <1>3, <1>4, <1>5 DEF ServerInStep

LEMMA CountStep ==
    ASSUME Concurrency, ServerInStep, NEW w \in Workers, Count(w)
    PROVE  ServerInStep'
<1>1. /\ worker[w] = "counts" /\ init_count' = init_count + 1
      /\ worker' = [worker EXCEPT ![w] = "runs"]
      /\ UNCHANGED <<main, io_service_pool_, prepared, roundrobin_index_, offered,
                     offers, posted, started, stopped, stopping>>
  BY DEF Count, accepts, stops
<1>2. \A v \in Workers : worker'[v] = IF v = w THEN "runs" ELSE worker[v]
  BY <1>1 DEF ServerInStep, ServerTypes
<1> DEFINE stepped == {v \in Workers : worker'[v] \in {"runs", "over"}}
<1>3. stepped = Stepped \cup {w} /\ w \notin Stepped
  BY <1>1, <1>2 DEF Stepped
<1>4. /\ init_count = Cardinality(Stepped) /\ IsFiniteSet(Stepped)
      /\ init_count' = Cardinality(stepped)
  <2>1. init_count = Cardinality(Stepped)
    BY DEF ServerInStep, WorkersInStep, Stepped
  <2>2. IsFiniteSet(Stepped)
    BY WorkersFacts, FS_Subset DEF Stepped
  <2>. QED  BY <1>1, <1>3, <2>1, <2>2, FS_AddElement
<1>5. init_count' \in 0..concurrency_
  <2>1. stepped \in SUBSET Workers
    OBVIOUS
  <2>2. Cardinality(stepped) <= concurrency_ /\ Cardinality(stepped) \in Nat
    BY <2>1, WorkersFacts, FS_Subset, FS_CardinalityType
  <2>. QED  BY <1>4, <2>2, WorkersFacts
<1>6. ServerTypes' /\ PoolInStep' /\ OffersInStep'
  BY <1>1, <1>5 DEF ServerInStep, ServerTypes, PoolInStep, OffersInStep
<1>7. WorkersInStep'
  <2>1. {v \in Workers : worker'[v] \in {"counts", "runs"}} = prepared
    BY <1>1, <1>2 DEF ServerInStep, WorkersInStep
  <2>2. {v \in Workers : worker'[v] = "none"} = {v \in Workers : worker[v] = "none"}
    BY <1>1, <1>2
  <2>. QED  BY <1>1, <1>2, <1>4, <2>1, <2>2 DEF ServerInStep, WorkersInStep
<1>8. StopsInStep'
  BY <1>1 DEF ServerInStep, StopsInStep
<1>. QED  BY <1>6, <1>7, <1>8 DEF ServerInStep

LEMMA ServeStep ==
    ASSUME Concurrency, ServerInStep, NEW w \in Workers, StartConnection(w) \/ Crash(w)
    PROVE  ServerInStep'
<1>1. UNCHANGED <<main, io_service_pool_, prepared, worker, init_count, roundrobin_index_,
                  offered, offers, stopped, stopping>>
  BY DEF StartConnection, Crash, AfterCrash, pools, stops
<1>2. /\ posted \in [Workers -> Nat] /\ started \in [Workers -> Nat]
      /\ posted' \in [Workers -> Nat] /\ started' \in [Workers -> Nat]
      /\ posted[w] > 0 \/ started[w] > 0
  <2>1. posted \in [Workers -> Nat] /\ started \in [Workers -> Nat]
    BY DEF ServerInStep, OffersInStep
  <2>2. CASE StartConnection(w)
    BY <2>1, <2>2 DEF StartConnection
  <2>3. CASE Crash(w)
    BY <2>1, <2>3 DEF Crash
  <2>. QED  BY <2>1, <2>2, <2>3
<1>3. ServerTypes' /\ PoolInStep' /\ WorkersInStep' /\ StopsInStep'
  <2>1. \A v \in Workers : posted'[v] >= 0 /\ started'[v] >= 0
    BY <1>2
  <2>. QED  BY <1>1, <2>1 DEF ServerInStep, ServerTypes, PoolInStep, WorkersInStep, StopsInStep
<1>4. main \in Serving
  <2>1. ~ (posted[w] = 0 /\ started[w] = 0)
    BY <1>2
  <2>. QED  BY <2>1 DEF ServerInStep, OffersInStep
<1>5. OffersInStep'
  BY <1>1, <1>2, <1>4 DEF ServerInStep, OffersInStep
<1>. QED  BY <1>3, <1>5 DEF ServerInStep

LEMMA WorkerEndsStep ==
    ASSUME Concurrency, ServerInStep, NEW w \in Workers, WorkerEnds(w)
    PROVE  ServerInStep'
<1>1. /\ worker[w] = "runs" /\ w \in stopped
      /\ worker' = [worker EXCEPT ![w] = "over"] /\ prepared' = prepared \ {w}
      /\ UNCHANGED <<main, io_service_pool_, init_count, roundrobin_index_, offered,
                     offers, posted, started, stopped, stopping>>
  BY DEF WorkerEnds, accepts, stops
<1>2. \A v \in Workers : worker'[v] = IF v = w THEN "over" ELSE worker[v]
  BY <1>1 DEF ServerInStep, ServerTypes
<1>3. ServerTypes' /\ PoolInStep' /\ OffersInStep'
  BY <1>1 DEF ServerInStep, ServerTypes, PoolInStep, OffersInStep
<1>4. WorkersInStep'
  <2>1. {v \in Workers : worker'[v] \in {"runs", "over"}} = Stepped
    BY <1>1, <1>2 DEF Stepped
  <2>2. {v \in Workers : worker'[v] \in {"counts", "runs"}} = prepared \ {w}
    BY <1>1, <1>2 DEF ServerInStep, WorkersInStep
  <2>3. {v \in Workers : worker'[v] = "none"} = {v \in Workers : worker[v] = "none"}
    BY <1>1, <1>2
  <2>. QED  BY <1>1, <1>2, <2>1, <2>2, <2>3 DEF ServerInStep, WorkersInStep, Stepped
<1>5. StopsInStep'
  BY <1>1, <1>2 DEF ServerInStep, StopsInStep
<1>. QED  BY <1>3, <1>4, <1>5 DEF ServerInStep

LEMMA ServerStep == ASSUME Concurrency, ServerInStep, [ServerNext]_serverVars PROVE ServerInStep'
<1>1. CASE UNCHANGED <<pools, accepts, stops, main>>
  BY <1>1 DEF pools, accepts, stops, ServerInStep, ServerTypes, PoolInStep, WorkersInStep,
              OffersInStep, StopsInStep
<1>2. UNCHANGED serverVars \/ wait_for_server_start => UNCHANGED <<pools, accepts, stops, main>>
  BY DEF serverVars, wait_for_server_start
<1>. QED  BY <1>1, <1>2, AnnounceStep, EmplaceStep, StartThreadStep, FirstAcceptStep,
             LeaveStep, AcceptStep, StopStep, InitialiseStep, CountStep, ServeStep,
             WorkerEndsStep DEF ServerNext

-----------------------------------------------------------------------------
(* Results                                                                 *)

(* Pool, threads, offers and stop() stay in step, in whatever order the    *)
(* threads, the clients and the signals come.                              *)
THEOREM ServerStaysInStep == ASSUME Concurrency PROVE ServerSpec => []ServerInStep
<1>1. ServerInit => ServerInStep
  BY ServerStarts
<1>2. ServerInStep /\ [ServerNext]_serverVars => ServerInStep'
  BY ServerStep
<1>. QED  BY <1>1, <1>2, PTL DEF ServerSpec

(* A connection is made with the timer queue of the worker it is posted to *)
(* (crow_all.h:9435-9460): the barrier holds for any number of threads.    *)
THEOREM ConnectionsAreServed == ASSUME Concurrency PROVE ServerSpec => []ConnectionsHaveAWorker
<1>1. ServerInStep => ConnectionsHaveAWorker
  <2> SUFFICES ASSUME ServerInStep PROVE ConnectionsHaveAWorker
    OBVIOUS
  <2>1. CASE main \in Serving
    <3>1. \A w \in Workers : w \in prepared \/ w \in stopped
      BY <2>1 DEF ServerInStep, WorkersInStep
    <3>2. offered \in Workers
      BY <2>1 DEF ServerInStep, ServerTypes, OffersInStep
    <3>. QED  BY <3>1, <3>2 DEF ConnectionsHaveAWorker
  <2>2. CASE main \notin Serving
    BY <2>2 DEF ServerInStep, OffersInStep, ConnectionsHaveAWorker
  <2>. QED  BY <2>1, <2>2
<1>. QED  BY <1>1, ServerStaysInStep, PTL

(* Round robin gives no worker two offers more than another                *)
(* (crow_all.h:9412-9416).                                                 *)
THEOREM OffersAreShared == ASSUME Concurrency PROVE ServerSpec => []FairShares
<1>1. ServerInStep => FairShares
  <2> SUFFICES ASSUME ServerInStep, NEW v \in Workers, NEW w \in Workers
               PROVE  offers[v] - offers[w] <= 1
    BY DEF FairShares
  <2>1. offers[0] \in Nat
    BY WorkersFacts DEF ServerInStep, OffersInStep
  <2>2. \A u \in Workers : offers[u] = offers[0] \/ offers[u] = offers[0] + 1
    BY DEF ServerInStep, OffersInStep
  <2>. QED  BY <2>1, <2>2
<1>. QED  BY <1>1, ServerStaysInStep, PTL

(* run() does not return while a worker or the handler of the signal still *)
(* uses the server (crow_all.h:9418).                                      *)
THEOREM RunReturnsLast == ASSUME Concurrency PROVE ServerSpec => []NothingOutlivesRun
<1>1. ServerInStep => NothingOutlivesRun
  BY DEF ServerInStep, StopsInStep, NothingOutlivesRun
<1>. QED  BY <1>1, ServerStaysInStep, PTL

(* All of this together, for any number of workers, clients and crashes.   *)
THEOREM ServerIsConsistent == ASSUME Concurrency PROVE ServerSpec => []ServerConsistent
BY ServerStaysInStep, ConnectionsAreServed, OffersAreShared, RunReturnsLast, PTL
   DEF ServerConsistent
=============================================================================
