------------------------- MODULE CrowConnectionProofs -------------------------
(***************************************************************************)
(* Proofs about one connection of a Crow server, for any requests, however *)
(* many of them, and handlers that answer at once or later.  The invariant *)
(* has two halves: ReadingInStep, of every client, which may also send     *)
(* many requests at once, and PatientInStep, of one that waits.            *)
(***************************************************************************)
EXTENDS CrowConnection, SequenceTheorems, FiniteSetTheorems, TLAPS

(* What the queue holds: a read, a write, a write that went through.       *)
HasRead(q) == \E i \in DOMAIN q : q[i].op = "read"
HasWrite(q) == \E i \in DOMAIN q : q[i].op = "write"
HasWrote(q) == \E i \in DOMAIN q : q[i] = Write("ok")

InOrder(q) ==
    /\ q \in Seq(Completion) /\ Len(q) <= 2
    /\ Len(q) = 2 => q[1].op # q[2].op /\ q[2] # Write("ok")

(* One write at most is with the socket.                                   *)
OneWrite(c) == c.writes \in {<<>>, <<"continue">>, <<"answer">>}

(* An object that exists, with r, w, k telling what the queue holds.       *)
Lives(c, r, w, k) ==
    /\ OneWrite(c) /\ (c.reading \/ c.writing)
    /\ c.armed <=> c.open /\ c.reading /\ ~c.later
    /\ c.reading <=> c.read \/ r \/ c.later
    /\ c.writing <=> c.writes # <<>> \/ w
    /\ c.read => ~r
    /\ c.writes # <<>> => ~w
    /\ c.close => c.open /\ ~c.reading
    /\ c.reading \/ c.close \/ ~(c.open \/ k)
    /\ c.completed => c.writing
    /\ (c.after <=> c.later) /\ (c.hooked <=> c.later)
    /\ c.later => c.open /\ ~c.read /\ ~r /\ ~c.writing /\ ~c.completed
    /\ ~c.open => ~c.read /\ c.writes = <<>>

InStep(c, r, w, k) ==
    /\ c.exists => Lives(c, r, w, k)
    /\ ~c.exists => ~c.read /\ c.writes = <<>> /\ ~r /\ ~w /\ ~c.armed

-----------------------------------------------------------------------------
(* Sequences of at most two elements                                       *)

LEMMA OfLengthOne ==
    ASSUME NEW T, NEW q \in Seq(T), Len(q) = 1
    PROVE  /\ q[1] \in T /\ q = <<q[1]>> /\ DOMAIN q = {1}
           /\ Head(q) = q[1] /\ Tail(q) = <<>>
<1>1. Tail(q) \in Seq(T) /\ Len(Tail(q)) = 0
  BY EmptySeq, HeadTailProperties
<1>2. Tail(q) = <<>>
  BY <1>1, EmptySeq
<1>3. q = <<q[1]>> /\ DOMAIN q = {1}
  OBVIOUS
<1>. QED  BY <1>2, <1>3

LEMMA OfLengthTwo ==
    ASSUME NEW T, NEW q \in Seq(T), Len(q) = 2
    PROVE  /\ q[1] \in T /\ q[2] \in T /\ q = <<q[1], q[2]>> /\ DOMAIN q = {1, 2}
           /\ Head(q) = q[1] /\ Tail(q) = <<q[2]>>
<1>1. q = <<q[1], q[2]>> /\ DOMAIN q = {1, 2} /\ Head(q) = q[1]
  OBVIOUS
<1>2. Tail(q) \in Seq(T) /\ Len(Tail(q)) = 1 /\ Tail(q)[1] = q[2]
  OBVIOUS
<1>3. Tail(q) = <<q[2]>>
  BY <1>2, OfLengthOne
<1>. QED  BY <1>1, <1>3

LEMMA NoLongerThanTwo ==
    ASSUME NEW T, NEW q \in Seq(T), Len(q) <= 2
    PROVE  q = <<>> \/ Len(q) = 1 \/ Len(q) = 2
<1>1. Len(q) \in Nat
  OBVIOUS
<1>2. \A n \in Nat : n <= 2 => n \in {0, 1, 2}
  OBVIOUS
<1>3. Len(q) = 0 \/ Len(q) = 1 \/ Len(q) = 2
  BY <1>1, <1>2
<1>. QED  BY <1>3, EmptySeq

LEMMA OneAndTwo ==
    ASSUME NEW T, NEW a \in T, NEW b \in T
    PROVE  /\ <<>> \in Seq(T) /\ Len(<<>>) = 0 /\ DOMAIN <<>> = {}
           /\ <<a>> \in Seq(T) /\ Len(<<a>>) = 1 /\ DOMAIN <<a>> = {1} /\ <<a>> # <<>>
           /\ <<a, b>> \in Seq(T) /\ Len(<<a, b>>) = 2 /\ DOMAIN <<a, b>> = {1, 2}
           /\ <<a, b>> # <<>>
<1>1. <<>> \in Seq(T) /\ <<a>> \in Seq(T) /\ <<a, b>> \in Seq(T)
  OBVIOUS
<1>2. /\ Len(<<>>) = 0 /\ DOMAIN <<>> = {}
      /\ Len(<<a>>) = 1 /\ DOMAIN <<a>> = {1} /\ <<a>> # <<>>
  OBVIOUS
<1>3. Len(<<a, b>>) = 2 /\ DOMAIN <<a, b>> = {1, 2} /\ <<a, b>> # <<>>
  OBVIOUS
<1>. QED  BY <1>1, <1>2, <1>3

LEMMA AppendTo ==
    ASSUME NEW T, NEW a \in T, NEW b \in T
    PROVE  Append(<<>>, a) = <<a>> /\ Append(<<a>>, b) = <<a, b>>
<1>1. Append(<<>>, a) = <<a>>
  OBVIOUS
<1>2. Append(<<a>>, b) = <<a, b>>
  <2>. DEFINE q == Append(<<a>>, b)
  <2>1. <<a>> \in Seq(T) /\ Len(<<a>>) = 1 /\ <<a>>[1] = a
    OBVIOUS
  <2>2. q \in Seq(T) /\ Len(q) = 2 /\ q[1] = a /\ q[2] = b
    BY <2>1, AppendProperties
  <2>. QED  BY <2>2, OfLengthTwo
<1>. QED  BY <1>1, <1>2

LEMMA Joined ==
    ASSUME NEW T, NEW q \in Seq(T), NEW a \in T, NEW b \in T
    PROVE  /\ q \o <<>> = q
           /\ q \o <<a>> = Append(q, a)
           /\ q \o <<a, b>> = Append(Append(q, a), b)
<1>1. q \o <<>> = q
  OBVIOUS
<1>2. q \o <<a>> = Append(q, a)
  OBVIOUS
<1>3. q \o <<a, b>> = Append(Append(q, a), b)
  OBVIOUS
<1>. QED  BY <1>1, <1>2, <1>3

-----------------------------------------------------------------------------
(* The queue                                                               *)

LEMMA Operations ==
    /\ Write("dropped") \in Completion /\ Write("dropped").op = "write"
    /\ Write("ok") \in Completion /\ Write("ok").op = "write"
    /\ Write("failed") \in Completion /\ Write("failed").op = "write"
    /\ Read("dropped") \in Completion /\ Read("dropped").op = "read"
    /\ Read("bytes") \in Completion /\ Read("bytes").op = "read"
    /\ Read("eof") \in Completion /\ Read("eof").op = "read"
    /\ Read("dropped") # Read("bytes") /\ Read("eof") # Read("bytes")
    /\ \A e \in Completion : e.op = "read" \/ e.op = "write"
BY DEF Completion, Read, Write

LEMMA Holds ==
    ASSUME NEW a, NEW b
    PROVE  /\ ~HasRead(<<>>) /\ ~HasWrite(<<>>)
           /\ HasRead(<<a>>) <=> a.op = "read"
           /\ HasWrite(<<a>>) <=> a.op = "write"
           /\ HasRead(<<a, b>>) <=> (a.op = "read" \/ b.op = "read")
           /\ HasWrite(<<a, b>>) <=> (a.op = "write" \/ b.op = "write")
           /\ ~HasWrote(<<>>)
           /\ HasWrote(<<a>>) <=> a = Write("ok")
           /\ HasWrote(<<a, b>>) <=> (a = Write("ok") \/ b = Write("ok"))
<1>1. DOMAIN <<>> = {} /\ DOMAIN <<a>> = {1} /\ DOMAIN <<a, b>> = {1, 2}
  OBVIOUS
<1>2. <<a>>[1] = a /\ <<a, b>>[1] = a /\ <<a, b>>[2] = b
  OBVIOUS
<1>. QED  BY <1>1, <1>2 DEF HasRead, HasWrite, HasWrote

LEMMA QueueIs ==
    ASSUME NEW q, InOrder(q)
    PROVE  \/ q = <<>>
           \/ \E a \in Completion : q = <<a>>
           \/ \E a, b \in Completion : q = <<a, b>> /\ a.op # b.op /\ b # Write("ok")
<1>1. /\ q \in Seq(Completion) /\ Len(q) <= 2
      /\ Len(q) = 2 => q[1].op # q[2].op /\ q[2] # Write("ok")
  BY DEF InOrder
<1>2. CASE Len(q) = 1
  BY <1>1, <1>2, OfLengthOne
<1>3. CASE Len(q) = 2
  BY <1>1, <1>3, OfLengthTwo
<1>. QED  BY <1>1, <1>2, <1>3, NoLongerThanTwo

LEMMA QueueOf ==
    /\ InOrder(<<>>)
    /\ \A a \in Completion : InOrder(<<a>>)
    /\ \A a, b \in Completion : a.op # b.op /\ b # Write("ok") => InOrder(<<a, b>>)
<1>1. <<>> \in Seq(Completion) /\ Len(<<>>) = 0
  OBVIOUS
<1>2. ASSUME NEW a \in Completion, NEW b \in Completion
      PROVE  InOrder(<<a>>) /\ (a.op # b.op /\ b # Write("ok") => InOrder(<<a, b>>))
  <2>1. <<a, b>>[1] = a /\ <<a, b>>[2] = b
    OBVIOUS
  <2>. QED  BY <2>1, OneAndTwo DEF InOrder
<1>3. InOrder(<<>>)
  BY <1>1 DEF InOrder
<1>. QED  BY <1>2, <1>3

LEMMA EmptyQueue ==
    ASSUME NEW q, InOrder(q)
    PROVE  ~HasRead(q) /\ ~HasWrite(q) <=> q = <<>>
<1>1. CASE q = <<>>
  BY <1>1, Holds
<1>2. CASE \E a \in Completion : q = <<a>>
  <2>1. PICK a \in Completion : q = <<a>>
    BY <1>2
  <2>2. <<a>> # <<>> /\ (HasRead(<<a>>) \/ HasWrite(<<a>>))
    BY OneAndTwo, Holds, Operations
  <2>. QED  BY <2>1, <2>2
<1>3. CASE \E a, b \in Completion : q = <<a, b>> /\ a.op # b.op /\ b # Write("ok")
  <2>1. PICK a \in Completion, b \in Completion : q = <<a, b>>
    BY <1>3
  <2>2. <<a, b>> # <<>> /\ (HasRead(<<a, b>>) \/ HasWrite(<<a, b>>))
    BY OneAndTwo, Holds, Operations
  <2>. QED  BY <2>1, <2>2
<1>. QED  BY <1>1, <1>2, <1>3, QueueIs

LEMMA TailQueue ==
    ASSUME NEW q, InOrder(q), q # <<>>
    PROVE  /\ InOrder(Tail(q)) /\ Head(q) = q[1] /\ q[1] \in Completion
           /\ q[1].op = "read" => /\ HasRead(q) /\ ~HasRead(Tail(q))
                                  /\ HasWrite(Tail(q)) <=> HasWrite(q)
           /\ q[1].op = "write" => /\ HasWrite(q) /\ ~HasWrite(Tail(q))
                                   /\ HasRead(Tail(q)) <=> HasRead(q)
           /\ ~HasWrote(Tail(q))
           /\ q[1] = Write("ok") => HasWrote(q)
<1>1. CASE \E a \in Completion : q = <<a>>
  <2>1. PICK a \in Completion : q = <<a>>
    BY <1>1
  <2>2. Head(q) = a /\ q[1] = a /\ Tail(q) = <<>>
    BY <2>1, OneAndTwo, OfLengthOne
  <2>. QED  BY <2>1, <2>2, QueueOf, Holds
<1>2. CASE \E a, b \in Completion : q = <<a, b>> /\ a.op # b.op /\ b # Write("ok")
  <2>1. PICK a \in Completion, b \in Completion :
             q = <<a, b>> /\ a.op # b.op /\ b # Write("ok")
    BY <1>2
  <2>2. Head(q) = a /\ q[1] = a /\ q[2] = b /\ Tail(q) = <<b>>
    BY <2>1, OneAndTwo, OfLengthTwo
  <2>3. /\ HasRead(<<b>>) <=> b.op = "read"
        /\ HasWrite(<<b>>) <=> b.op = "write"
        /\ HasWrote(<<b>>) <=> b = Write("ok")
    BY Holds
  <2>4. /\ HasRead(<<a, b>>) <=> (a.op = "read" \/ b.op = "read")
        /\ HasWrite(<<a, b>>) <=> (a.op = "write" \/ b.op = "write")
        /\ HasWrote(<<a, b>>) <=> (a = Write("ok") \/ b = Write("ok"))
    BY Holds
  <2>5. InOrder(<<b>>) /\ (b.op = "read" \/ b.op = "write")
    BY QueueOf, Operations
  <2>6. "read" # "write"
    OBVIOUS
  <2>. QED  BY <2>1, <2>2, <2>3, <2>4, <2>5, <2>6
<1>. QED  BY <1>1, <1>2, QueueIs

LEMMA AppendQueue ==
    ASSUME NEW q, InOrder(q), NEW e \in Completion,
           e.op = "read" => ~HasRead(q), e.op = "write" => ~HasWrite(q),
           e = Write("ok") => ~HasRead(q)
    PROVE  /\ InOrder(Append(q, e)) /\ Append(q, e) # <<>>
           /\ Append(q, e)[1] = IF q = <<>> THEN e ELSE q[1]
           /\ HasRead(Append(q, e)) <=> HasRead(q) \/ e.op = "read"
           /\ HasWrite(Append(q, e)) <=> HasWrite(q) \/ e.op = "write"
           /\ HasWrote(Append(q, e)) <=> HasWrote(q) \/ e = Write("ok")
<1>1. CASE q = <<>>
  <2>1. Append(q, e) = <<e>> /\ <<e>>[1] = e /\ <<e>> # <<>>
    BY <1>1, AppendTo, OneAndTwo
  <2>2. /\ HasRead(<<e>>) <=> e.op = "read"
        /\ HasWrite(<<e>>) <=> e.op = "write"
        /\ HasWrote(<<e>>) <=> e = Write("ok")
    BY Holds
  <2>3. ~HasRead(q) /\ ~HasWrite(q) /\ ~HasWrote(q)
    BY <1>1, Holds
  <2>. QED  BY <1>1, <2>1, <2>2, <2>3, QueueOf
<1>2. CASE \E a \in Completion : q = <<a>>
  <2>1. PICK a \in Completion : q = <<a>>
    BY <1>2
  <2>2. a.op # e.op
    BY <2>1, Operations, Holds
  <2>3. e # Write("ok")
    BY <2>1, <2>2, Operations, Holds
  <2>4. Append(q, e) = <<a, e>> /\ <<a, e>>[1] = a /\ <<a>>[1] = a /\ <<a>> # <<>> /\ <<a, e>> # <<>>
    BY <2>1, AppendTo, OneAndTwo
  <2>5. InOrder(Append(q, e))
    BY <2>2, <2>3, <2>4, QueueOf
  <2>6. /\ HasRead(Append(q, e)) <=> HasRead(q) \/ e.op = "read"
        /\ HasWrite(Append(q, e)) <=> HasWrite(q) \/ e.op = "write"
        /\ HasWrote(Append(q, e)) <=> HasWrote(q) \/ e = Write("ok")
    <3>1. /\ HasRead(<<a>>) <=> a.op = "read"
          /\ HasWrite(<<a>>) <=> a.op = "write"
          /\ HasWrote(<<a>>) <=> a = Write("ok")
      BY Holds
    <3>2. /\ HasRead(<<a, e>>) <=> (a.op = "read" \/ e.op = "read")
          /\ HasWrite(<<a, e>>) <=> (a.op = "write" \/ e.op = "write")
          /\ HasWrote(<<a, e>>) <=> (a = Write("ok") \/ e = Write("ok"))
      BY Holds
    <3>3. Append(q, e) = <<a, e>>
      BY <2>4
    <3>. QED  BY <2>1, <3>1, <3>2, <3>3
  <2>7. Append(q, e) # <<>> /\ Append(q, e)[1] = IF q = <<>> THEN e ELSE q[1]
    BY <2>1, <2>4
  <2>. QED  BY <2>5, <2>6, <2>7
<1>3. CASE \E a, b \in Completion : q = <<a, b>> /\ a.op # b.op /\ b # Write("ok")
  <2>1. PICK a \in Completion, b \in Completion :
             q = <<a, b>> /\ a.op # b.op /\ b # Write("ok")
    BY <1>3
  <2>. QED  BY <2>1, Operations, Holds
<1>. QED  BY <1>1, <1>2, <1>3, QueueIs

-----------------------------------------------------------------------------
(* The methods of Connection                                               *)

LEMMA StartDeadlineIs ==
    ASSUME NEW c \in ObjectType
    PROVE  LET d == StartDeadline(c)
           IN  /\ d \in ObjectType /\ d.armed = TRUE /\ d.exists = c.exists
               /\ d.open = c.open /\ d.reading = c.reading
               /\ d.writing = c.writing /\ d.close = c.close
               /\ d.after = c.after /\ d.later = c.later
               /\ d.completed = c.completed /\ d.hooked = c.hooked
               /\ d.read = c.read /\ d.writes = c.writes
               /\ d.aborted = c.aborted
BY DEF ObjectType, StartDeadline

LEMMA CancelDeadlineIs ==
    ASSUME NEW c \in ObjectType
    PROVE  LET d == CancelDeadline(c)
           IN  /\ d \in ObjectType /\ d.armed = FALSE /\ d.exists = c.exists
               /\ d.open = c.open /\ d.reading = c.reading
               /\ d.writing = c.writing /\ d.close = c.close
               /\ d.after = c.after /\ d.later = c.later
               /\ d.completed = c.completed /\ d.hooked = c.hooked
               /\ d.read = c.read /\ d.writes = c.writes
               /\ d.aborted = c.aborted
BY DEF ObjectType, CancelDeadline

LEMMA DoReadIs ==
    ASSUME NEW c \in ObjectType
    PROVE  LET d == DoRead(c)
           IN  /\ d \in ObjectType /\ d.reading = TRUE /\ d.read = TRUE
               /\ d.exists = c.exists /\ d.open = c.open
               /\ d.writing = c.writing /\ d.close = c.close
               /\ d.after = c.after /\ d.later = c.later
               /\ d.completed = c.completed /\ d.hooked = c.hooked
               /\ d.armed = c.armed /\ d.writes = c.writes
               /\ d.aborted = c.aborted
BY DEF ObjectType, DoRead

LEMMA DoWriteIs ==
    ASSUME NEW c \in ObjectType, NEW what \in Writes, c.writes = <<>>
    PROVE  LET d == DoWrite(c, what)
           IN /\ d \in ObjectType /\ d.writing = TRUE /\ d.writes = <<what>>
              /\ d.exists = c.exists /\ d.open = c.open /\ d.reading = c.reading
              /\ d.close = c.close /\ d.after = c.after /\ d.later = c.later
              /\ d.completed = c.completed /\ d.hooked = c.hooked /\ d.armed = c.armed
              /\ d.read = c.read /\ d.aborted = c.aborted
<1>1. Append(c.writes, what) = <<what>>
  BY AppendTo
<1>2. DoWrite(c, what) = [c EXCEPT !.writing = TRUE, !.writes = <<what>>]
  BY <1>1 DEF DoWrite, ObjectType
<1>3. \A u \in Seq(Writes) :
        LET d == [c EXCEPT !.writing = TRUE, !.writes = u]
        IN  /\ d \in ObjectType /\ d.writing = TRUE /\ d.writes = u
            /\ d.exists = c.exists /\ d.open = c.open /\ d.reading = c.reading
            /\ d.close = c.close /\ d.after = c.after /\ d.later = c.later
            /\ d.completed = c.completed /\ d.hooked = c.hooked /\ d.armed = c.armed
            /\ d.read = c.read /\ d.aborted = c.aborted
  BY DEF ObjectType
<1>4. <<what>> \in Seq(Writes)
  BY OneAndTwo
<1>. QED  BY <1>2, <1>3, <1>4

(* What a socket drops when it is closed: with r a read, with w a write.   *)
Dropped(r, w) == (IF r THEN <<Read("dropped")>> ELSE <<>>)
                   \o (IF w THEN <<Write("dropped")>> ELSE <<>>)

LEMMA CloseSocketIs ==
    ASSUME NEW c \in ObjectType, c.aborted = <<>>, OneWrite(c),
           NEW r \in BOOLEAN, r <=> c.read,
           NEW w \in BOOLEAN, w <=> c.writes # <<>>
    PROVE  LET d == CloseSocket(c)
           IN  /\ d \in ObjectType /\ d.open = FALSE /\ d.read = FALSE /\ d.writes = <<>>
               /\ d.aborted = Dropped(r, w) /\ d.exists = c.exists /\ d.reading = c.reading
               /\ d.writing = c.writing /\ d.close = c.close /\ d.after = c.after
               /\ d.later = c.later /\ d.completed = c.completed /\ d.hooked = c.hooked
               /\ d.armed = c.armed
<1>. DEFINE dropped == [i \in DOMAIN c.writes |-> Write("dropped")]
            all == (IF c.read THEN <<Read("dropped")>> ELSE <<>>) \o dropped
<1>1. OneWrite(c) /\ c.read \in BOOLEAN
  BY DEF ObjectType
<1>2. dropped = IF c.writes # <<>> THEN <<Write("dropped")>> ELSE <<>>
  <2>1. CASE c.writes = <<>>
    BY <2>1
  <2>2. CASE c.writes # <<>>
    <3>1. DOMAIN c.writes = {1}
      BY <1>1, <2>2 DEF OneWrite
    <3>2. dropped = [i \in {1} |-> Write("dropped")]
      BY <3>1
    <3>3. dropped = <<Write("dropped")>>
      BY <3>2
    <3>. QED  BY <2>2, <3>3
  <2>. QED  BY <2>1, <2>2
<1>3. all \in Seq(Completion)
  <2>1. <<>> \in Seq(Completion) /\ <<Read("dropped")>> \in Seq(Completion)
          /\ <<Write("dropped")>> \in Seq(Completion)
    BY Operations, OneAndTwo
  <2>. QED  BY <1>2, <2>1, ConcatProperties
<1>4. CloseSocket(c) =
        [c EXCEPT !.open = FALSE, !.read = FALSE, !.writes = <<>>, !.aborted = all]
  <2>1. c.aborted \o (IF c.read THEN <<Read("dropped")>> ELSE <<>>) \o dropped = all
    BY DEF ObjectType
  <2>. QED  BY <2>1 DEF CloseSocket, ObjectType
<1>. HIDE DEF dropped, all
<1>5. \A u \in Seq(Completion) :
        LET d == [c EXCEPT !.open = FALSE, !.read = FALSE, !.writes = <<>>, !.aborted = u]
        IN  /\ d \in ObjectType /\ d.open = FALSE /\ d.read = FALSE /\ d.writes = <<>>
            /\ d.aborted = u /\ d.exists = c.exists /\ d.reading = c.reading
            /\ d.writing = c.writing /\ d.close = c.close /\ d.after = c.after
            /\ d.later = c.later /\ d.completed = c.completed /\ d.hooked = c.hooked
            /\ d.armed = c.armed
  <2>1. <<>> \in Seq(Writes)
    OBVIOUS
  <2>. QED  BY <2>1 DEF ObjectType
<1>6. all = Dropped(r, w)
  BY <1>1, <1>2 DEF all, Dropped
<1>. DEFINE d == CloseSocket(c)
<1>7. /\ d \in ObjectType /\ d.open = FALSE /\ d.read = FALSE /\ d.writes = <<>>
      /\ d.aborted = all /\ d.exists = c.exists /\ d.reading = c.reading
      /\ d.writing = c.writing /\ d.close = c.close /\ d.after = c.after
      /\ d.later = c.later /\ d.completed = c.completed /\ d.hooked = c.hooked
      /\ d.armed = c.armed
  <2>. DEFINE e(u) == [c EXCEPT !.open = FALSE, !.read = FALSE, !.writes = <<>>, !.aborted = u]
  <2>1. d = e(all)
    BY <1>4
  <2>2. \A u \in Seq(Completion) :
          /\ e(u) \in ObjectType /\ e(u).open = FALSE /\ e(u).read = FALSE /\ e(u).writes = <<>>
          /\ e(u).aborted = u /\ e(u).exists = c.exists /\ e(u).reading = c.reading
          /\ e(u).writing = c.writing /\ e(u).close = c.close /\ e(u).after = c.after
          /\ e(u).later = c.later /\ e(u).completed = c.completed /\ e(u).hooked = c.hooked
          /\ e(u).armed = c.armed
    BY <1>5
  <2>. HIDE DEF d, e
  <2>. QED  BY <1>3, <2>1, <2>2
<1>. QED  BY <1>6, <1>7

LEMMA DroppedIs ==
    /\ Dropped(FALSE, FALSE) = <<>>
    /\ Dropped(TRUE, FALSE) = <<Read("dropped")>>
    /\ Dropped(FALSE, TRUE) = <<Write("dropped")>>
    /\ Dropped(TRUE, TRUE) = <<Read("dropped"), Write("dropped")>>
<1>. DEFINE rd == Read("dropped")
            wr == Write("dropped")
<1>1. rd \in Completion /\ wr \in Completion
  BY Operations
<1>. HIDE DEF rd, wr
<1>2. <<>> \in Seq(Completion) /\ <<rd>> \in Seq(Completion)
  BY <1>1, OneAndTwo
<1>3. <<>> \o <<>> = <<>> /\ <<rd>> \o <<>> = <<rd>>
  BY <1>1, <1>2, Joined
<1>4. <<>> \o <<wr>> = Append(<<>>, wr) /\ <<rd>> \o <<wr>> = Append(<<rd>>, wr)
  BY <1>1, <1>2, Joined
<1>5. Append(<<>>, wr) = <<wr>> /\ Append(<<rd>>, wr) = <<rd, wr>>
  BY <1>1, AppendTo
<1>. QED  BY <1>3, <1>4, <1>5 DEF Dropped, rd, wr

LEMMA CheckDestroyIs ==
    ASSUME NEW c \in ObjectType
    PROVE  LET d == CheckDestroy(c)
           IN /\ d \in ObjectType /\ (d.exists <=> c.exists /\ (c.reading \/ c.writing))
              /\ (d.armed <=> c.armed /\ (c.reading \/ c.writing)) /\ (d.open <=> c.open)
              /\ (d.reading <=> c.reading) /\ (d.writing <=> c.writing) /\ (d.close <=> c.close)
              /\ (d.after <=> c.after) /\ (d.later <=> c.later) /\ (d.completed <=> c.completed)
              /\ (d.hooked <=> c.hooked) /\ (d.read <=> c.read) /\ d.writes = c.writes
              /\ d.aborted = c.aborted
<1>1. CASE c.reading \/ c.writing
  <2>1. CheckDestroy(c) = c
    BY <1>1 DEF CheckDestroy
  <2>. QED  BY <1>1, <2>1
<1>2. CASE ~(c.reading \/ c.writing)
  <2>. DEFINE d == [c EXCEPT !.exists = FALSE, !.armed = FALSE]
  <2>1. CheckDestroy(c) = d
    BY <1>2 DEF CheckDestroy
  <2>2. /\ d \in ObjectType /\ d.exists = FALSE /\ d.armed = FALSE /\ d.open = c.open
        /\ d.reading = c.reading /\ d.writing = c.writing /\ d.close = c.close
        /\ d.after = c.after /\ d.later = c.later /\ d.completed = c.completed
        /\ d.hooked = c.hooked /\ d.read = c.read /\ d.writes = c.writes
        /\ d.aborted = c.aborted
    BY DEF ObjectType
  <2>. HIDE DEF d
  <2>. QED  BY <1>2, <2>1, <2>2
<1>. QED  BY <1>1, <1>2

(* Assignments to the fields of an object.                                *)

LEMMA StopsReading ==
    ASSUME NEW c \in ObjectType
    PROVE  LET d == [c EXCEPT !.reading = FALSE]
           IN  /\ d \in ObjectType /\ d.reading = FALSE
               /\ d.exists = c.exists /\ d.open = c.open
               /\ d.writing = c.writing /\ d.close = c.close
               /\ d.after = c.after /\ d.later = c.later
               /\ d.completed = c.completed /\ d.hooked = c.hooked
               /\ d.armed = c.armed /\ d.read = c.read /\ d.writes = c.writes
               /\ d.aborted = c.aborted
BY DEF ObjectType

LEMMA PutsOffRead ==
    ASSUME NEW c \in ObjectType
    PROVE  LET d == [c EXCEPT !.later = TRUE]
           IN  /\ d \in ObjectType /\ d.later = TRUE /\ d.exists = c.exists
               /\ d.open = c.open /\ d.reading = c.reading
               /\ d.writing = c.writing /\ d.close = c.close
               /\ d.after = c.after /\ d.completed = c.completed
               /\ d.hooked = c.hooked /\ d.armed = c.armed /\ d.read = c.read
               /\ d.writes = c.writes /\ d.aborted = c.aborted
BY DEF ObjectType

LEMMA TakesUpRead ==
    ASSUME NEW c \in ObjectType
    PROVE  LET d == [c EXCEPT !.later = FALSE]
           IN  /\ d \in ObjectType /\ d.later = FALSE /\ d.exists = c.exists
               /\ d.open = c.open /\ d.reading = c.reading
               /\ d.writing = c.writing /\ d.close = c.close
               /\ d.after = c.after /\ d.completed = c.completed
               /\ d.hooked = c.hooked /\ d.armed = c.armed /\ d.read = c.read
               /\ d.writes = c.writes /\ d.aborted = c.aborted
BY DEF ObjectType

LEMMA EndsWrite ==
    ASSUME NEW c \in ObjectType
    PROVE  LET d == [c EXCEPT !.writing = FALSE, !.completed = FALSE]
           IN  /\ d \in ObjectType /\ d.writing = FALSE
               /\ d.completed = FALSE /\ d.exists = c.exists
               /\ d.open = c.open /\ d.reading = c.reading
               /\ d.close = c.close /\ d.after = c.after /\ d.later = c.later
               /\ d.hooked = c.hooked /\ d.armed = c.armed /\ d.read = c.read
               /\ d.writes = c.writes /\ d.aborted = c.aborted
BY DEF ObjectType

LEMMA WillClose ==
    ASSUME NEW c \in ObjectType, NEW v \in BOOLEAN
    PROVE  LET d == [c EXCEPT !.close = v]
           IN  /\ d \in ObjectType /\ d.close = v /\ d.exists = c.exists
               /\ d.open = c.open /\ d.reading = c.reading
               /\ d.writing = c.writing /\ d.after = c.after
               /\ d.later = c.later /\ d.completed = c.completed
               /\ d.hooked = c.hooked /\ d.armed = c.armed /\ d.read = c.read
               /\ d.writes = c.writes /\ d.aborted = c.aborted
BY DEF ObjectType

LEMMA CompletedIs ==
    ASSUME NEW c \in ObjectType, NEW u \in BOOLEAN
    PROVE  LET d == [c EXCEPT !.completed = u]
           IN  /\ d \in ObjectType /\ d.completed = u /\ d.exists = c.exists
               /\ d.open = c.open /\ d.reading = c.reading
               /\ d.writing = c.writing /\ d.close = c.close
               /\ d.after = c.after /\ d.later = c.later
               /\ d.hooked = c.hooked /\ d.armed = c.armed /\ d.read = c.read
               /\ d.writes = c.writes /\ d.aborted = c.aborted
BY DEF ObjectType

LEMMA Unhooks ==
    ASSUME NEW c \in ObjectType
    PROVE  LET d == [c EXCEPT !.after = FALSE, !.hooked = FALSE]
           IN  /\ d \in ObjectType /\ d.after = FALSE /\ d.hooked = FALSE
               /\ d.exists = c.exists /\ d.open = c.open
               /\ d.reading = c.reading /\ d.writing = c.writing
               /\ d.close = c.close /\ d.later = c.later
               /\ d.completed = c.completed /\ d.armed = c.armed
               /\ d.read = c.read /\ d.writes = c.writes
               /\ d.aborted = c.aborted
BY DEF ObjectType

LEMMA ForgetsAfter ==
    ASSUME NEW c \in ObjectType
    PROVE  LET d == [c EXCEPT !.after = FALSE]
           IN  /\ d \in ObjectType /\ d.after = FALSE /\ d.exists = c.exists
               /\ d.open = c.open /\ d.reading = c.reading
               /\ d.writing = c.writing /\ d.close = c.close
               /\ d.later = c.later /\ d.completed = c.completed
               /\ d.hooked = c.hooked /\ d.armed = c.armed /\ d.read = c.read
               /\ d.writes = c.writes /\ d.aborted = c.aborted
BY DEF ObjectType

LEMMA Hooks ==
    ASSUME NEW c \in ObjectType
    PROVE  LET d == [c EXCEPT !.hooked = TRUE, !.after = TRUE]
           IN  /\ d \in ObjectType /\ d.hooked = TRUE /\ d.after = TRUE
               /\ d.exists = c.exists /\ d.open = c.open
               /\ d.reading = c.reading /\ d.writing = c.writing
               /\ d.close = c.close /\ d.later = c.later
               /\ d.completed = c.completed /\ d.armed = c.armed
               /\ d.read = c.read /\ d.writes = c.writes
               /\ d.aborted = c.aborted
BY DEF ObjectType

LEMMA HandsOver ==
    ASSUME NEW c \in ObjectType
    PROVE  LET d == [c EXCEPT !.open = FALSE]
           IN  /\ d \in ObjectType /\ d.open = FALSE /\ d.exists = c.exists
               /\ d.reading = c.reading /\ d.writing = c.writing
               /\ d.close = c.close /\ d.after = c.after /\ d.later = c.later
               /\ d.completed = c.completed /\ d.hooked = c.hooked
               /\ d.armed = c.armed /\ d.read = c.read /\ d.writes = c.writes
               /\ d.aborted = c.aborted
BY DEF ObjectType

LEMMA TakesWrite ==
    ASSUME NEW c \in ObjectType, NEW u \in Seq(Writes)
    PROVE  LET d == [c EXCEPT !.writes = u]
           IN  /\ d \in ObjectType /\ d.writes = u /\ d.exists = c.exists
               /\ d.open = c.open /\ d.reading = c.reading
               /\ d.writing = c.writing /\ d.close = c.close
               /\ d.after = c.after /\ d.later = c.later
               /\ d.completed = c.completed /\ d.hooked = c.hooked
               /\ d.armed = c.armed /\ d.read = c.read
               /\ d.aborted = c.aborted
BY DEF ObjectType

LEMMA TakesRead ==
    ASSUME NEW c \in ObjectType
    PROVE  LET d == [c EXCEPT !.read = FALSE]
           IN  /\ d \in ObjectType /\ d.read = FALSE /\ d.exists = c.exists
               /\ d.open = c.open /\ d.reading = c.reading
               /\ d.writing = c.writing /\ d.close = c.close
               /\ d.after = c.after /\ d.later = c.later
               /\ d.completed = c.completed /\ d.hooked = c.hooked
               /\ d.armed = c.armed /\ d.writes = c.writes
               /\ d.aborted = c.aborted
BY DEF ObjectType

LEMMA Cleared ==
    ASSUME NEW c \in ObjectType
    PROVE  LET d == [c EXCEPT !.aborted = <<>>]
           IN  /\ d \in ObjectType /\ d.aborted = <<>> /\ d.exists = c.exists
               /\ d.open = c.open /\ d.reading = c.reading
               /\ d.writing = c.writing /\ d.close = c.close
               /\ d.after = c.after /\ d.later = c.later
               /\ d.completed = c.completed /\ d.hooked = c.hooked
               /\ d.armed = c.armed /\ d.read = c.read /\ d.writes = c.writes
<1>1. <<>> \in Seq(Completion)
  OBVIOUS
<1>2. \A u \in Seq(Completion) :
        LET d == [c EXCEPT !.aborted = u]
        IN  /\ d \in ObjectType /\ d.aborted = u /\ d.exists = c.exists /\ d.open = c.open
            /\ d.reading = c.reading /\ d.writing = c.writing /\ d.close = c.close /\ d.after = c.after
            /\ d.later = c.later /\ d.completed = c.completed /\ d.hooked = c.hooked /\ d.armed = c.armed
            /\ d.read = c.read /\ d.writes = c.writes
  BY DEF ObjectType
<1>. QED  BY <1>1, <1>2

-----------------------------------------------------------------------------
(* Completions: what they make of an object in step                        *)

(* An object whose read has completed, with w telling whether a write is   *)
(* queued, once the parser was fed.                                        *)
Fed(c, w) ==
    /\ OneWrite(c)
    /\ c.exists /\ c.reading /\ ~c.read /\ ~c.later /\ c.aborted = <<>>
    /\ (c.hooked <=> c.after)
    /\ c.writing <=> c.writes # <<>> \/ w
    /\ c.writes # <<>> => ~w
    /\ c.after => ~c.armed /\ ~c.writing /\ ~c.completed
    /\ c.completed => c.writing \/ c.close \/ ~c.open
    /\ c.close /\ ~c.open => ~c.writing

(* d is what the completion makes of c: with x it dropped a write, with y  *)
(* a write is queued then.                                                 *)
ReadOver(c, ok, x, y, d) ==
    /\ d \in ObjectType /\ d.aborted = Dropped(FALSE, x)
    /\ InStep(d, FALSE, y, FALSE)
    /\ d.writing <=> c.writing
    /\ d.writes = IF ok /\ c.open THEN c.writes ELSE <<>>
    /\ d.open <=> ok /\ c.open
    /\ d.later <=> ok /\ c.open /\ ~c.close /\ c.after
    /\ ~d.exists => ~c.writing /\ (c.close \/ ~d.open)
    /\ c.after /\ d.exists => d.later

LEMMA ReadDoneIs ==
    ASSUME NEW c \in ObjectType, NEW w \in BOOLEAN, NEW ok \in BOOLEAN, Fed(c, w),
           ~ok => ~c.close,
           NEW x \in BOOLEAN, x <=> ~(ok /\ c.open) /\ c.writes # <<>>,
           NEW y \in BOOLEAN, y <=> w \/ x
    PROVE  ReadOver(c, ok, x, y, ReadDone(c, ok))
<1>1. CASE ~(ok /\ c.open)
  <2>. DEFINE c1 == CancelDeadline(c)
              c2 == CloseSocket(c1)
              c3 == [c2 EXCEPT !.reading = FALSE]
              d == CheckDestroy(c3)
  <2>1. ReadDone(c, ok) = d
    BY <1>1 DEF ReadDone
  <2>2. /\ c1 \in ObjectType /\ ~c1.armed /\ (c1.exists <=> c.exists)
        /\ (c1.writing <=> c.writing) /\ (c1.close <=> c.close) /\ (c1.after <=> c.after)
        /\ (c1.later <=> c.later) /\ (c1.completed <=> c.completed) /\ (c1.hooked <=> c.hooked)
        /\ (c1.read <=> c.read) /\ c1.writes = c.writes /\ c1.aborted = c.aborted
    BY CancelDeadlineIs
  <2>. HIDE DEF c1
  <2>3. /\ c2 \in ObjectType /\ ~c2.open /\ ~c2.read /\ c2.writes = <<>>
        /\ c2.aborted = Dropped(FALSE, x) /\ (c2.exists <=> c.exists)
        /\ (c2.writing <=> c.writing) /\ (c2.close <=> c.close) /\ (c2.after <=> c.after)
        /\ (c2.later <=> c.later) /\ (c2.completed <=> c.completed) /\ (c2.hooked <=> c.hooked)
        /\ ~c2.armed
    <3>1. /\ c1.aborted = <<>> /\ (FALSE <=> c1.read) /\ (x <=> c1.writes # <<>>)
          /\ OneWrite(c1) /\ FALSE \in BOOLEAN
      BY <1>1, <2>2 DEF Fed, OneWrite
    <3>. QED  BY <2>2, <3>1, CloseSocketIs
  <2>. HIDE DEF c2
  <2>4. /\ c3 \in ObjectType /\ ~c3.open /\ ~c3.read /\ c3.writes = <<>>
        /\ c3.aborted = Dropped(FALSE, x) /\ (c3.exists <=> c.exists) /\ ~c3.reading
        /\ (c3.writing <=> c.writing) /\ (c3.close <=> c.close) /\ (c3.after <=> c.after)
        /\ (c3.later <=> c.later) /\ (c3.completed <=> c.completed) /\ (c3.hooked <=> c.hooked)
        /\ ~c3.armed
    <3>1. /\ c3 \in ObjectType /\ c3.reading = FALSE /\ c3.open = c2.open /\ c3.read = c2.read
          /\ c3.writes = c2.writes /\ c3.aborted = c2.aborted /\ c3.exists = c2.exists
          /\ c3.writing = c2.writing /\ c3.close = c2.close /\ c3.after = c2.after
          /\ c3.later = c2.later /\ c3.completed = c2.completed /\ c3.hooked = c2.hooked
          /\ c3.armed = c2.armed
      BY <2>3, StopsReading
    <3>. HIDE DEF c3
    <3>. QED  BY <2>3, <3>1
  <2>. HIDE DEF c3
  <2>5. /\ d \in ObjectType /\ ~d.open /\ ~d.read /\ d.writes = <<>>
        /\ d.aborted = Dropped(FALSE, x) /\ (d.exists <=> c.writing) /\ ~d.reading
        /\ (d.writing <=> c.writing) /\ (d.close <=> c.close) /\ (d.after <=> c.after)
        /\ (d.later <=> c.later) /\ (d.completed <=> c.completed) /\ (d.hooked <=> c.hooked)
        /\ ~d.armed
    BY <2>4, CheckDestroyIs DEF Fed
  <2>. HIDE DEF d
  <2>6. ~c.read /\ c.writing \in BOOLEAN
    BY DEF Fed, ObjectType
  <2>7. InStep(d, FALSE, y, FALSE)
    BY <1>1, <2>5, <2>6 DEF InStep, Lives, OneWrite, Fed
  <2>8. /\ c.after /\ d.exists => d.later
        /\ d.writes = IF ok /\ c.open THEN c.writes ELSE <<>>
        /\ d.open <=> ok /\ c.open
        /\ d.later <=> ok /\ c.open /\ ~c.close /\ c.after
        /\ ~d.exists => ~c.writing /\ (c.close \/ ~d.open)
    BY <1>1, <2>5 DEF Fed
  <2>. QED  BY <2>1, <2>5, <2>7, <2>8 DEF ReadOver
<1>2. CASE ok /\ c.open /\ c.close
  <2>. DEFINE c1 == CancelDeadline(c)
              c2 == [c1 EXCEPT !.reading = FALSE]
              d == CheckDestroy(c2)
  <2>1. ReadDone(c, ok) = d
    BY <1>2 DEF ReadDone
  <2>2. /\ c1 \in ObjectType /\ ~c1.armed /\ (c1.exists <=> c.exists) /\ (c1.open <=> c.open)
        /\ (c1.writing <=> c.writing) /\ (c1.close <=> c.close) /\ (c1.after <=> c.after)
        /\ (c1.later <=> c.later) /\ (c1.completed <=> c.completed) /\ (c1.hooked <=> c.hooked)
        /\ (c1.read <=> c.read) /\ c1.writes = c.writes /\ c1.aborted = c.aborted
    BY CancelDeadlineIs
  <2>. HIDE DEF c1
  <2>3. /\ c2 \in ObjectType /\ ~c2.armed /\ (c2.exists <=> c.exists) /\ (c2.open <=> c.open)
        /\ (c2.writing <=> c.writing) /\ (c2.close <=> c.close) /\ (c2.after <=> c.after)
        /\ (c2.later <=> c.later) /\ (c2.completed <=> c.completed) /\ (c2.hooked <=> c.hooked)
        /\ (c2.read <=> c.read) /\ c2.writes = c.writes /\ c2.aborted = c.aborted
        /\ ~c2.reading
    BY <2>2, StopsReading
  <2>. HIDE DEF c2
  <2>4. /\ d \in ObjectType /\ ~d.armed /\ (d.exists <=> c.writing) /\ (d.open <=> c.open)
        /\ (d.writing <=> c.writing) /\ (d.close <=> c.close) /\ (d.after <=> c.after)
        /\ (d.later <=> c.later) /\ (d.completed <=> c.completed) /\ (d.hooked <=> c.hooked)
        /\ (d.read <=> c.read) /\ d.writes = c.writes /\ d.aborted = c.aborted
        /\ ~d.reading
    BY <2>3, CheckDestroyIs DEF Fed
  <2>. HIDE DEF d
  <2>5. d.aborted = Dropped(FALSE, x) /\ ~x /\ c.writing \in BOOLEAN
    <3>1. x = FALSE
      BY <1>2
    <3>. QED  BY <2>4, <3>1, DroppedIs DEF Fed, ObjectType
  <2>6. InStep(d, FALSE, y, FALSE)
    BY <1>2, <2>4, <2>5 DEF InStep, Lives, OneWrite, Fed
  <2>. QED  BY <1>2, <2>1, <2>4, <2>5, <2>6 DEF Fed, ReadOver
<1>3. CASE ok /\ c.open /\ ~c.close /\ ~c.after
  <2>. DEFINE c1 == StartDeadline(c)
              d == DoRead(c1)
  <2>1. ReadDone(c, ok) = d
    BY <1>3 DEF ReadDone
  <2>2. /\ c1 \in ObjectType /\ c1.armed /\ (c1.exists <=> c.exists) /\ (c1.open <=> c.open)
        /\ (c1.writing <=> c.writing) /\ (c1.close <=> c.close) /\ (c1.after <=> c.after)
        /\ (c1.later <=> c.later) /\ (c1.completed <=> c.completed) /\ (c1.hooked <=> c.hooked)
        /\ c1.writes = c.writes /\ c1.aborted = c.aborted
    BY StartDeadlineIs
  <2>. HIDE DEF c1
  <2>3. /\ d \in ObjectType /\ d.armed /\ (d.exists <=> c.exists) /\ (d.open <=> c.open)
        /\ (d.writing <=> c.writing) /\ (d.close <=> c.close) /\ (d.after <=> c.after)
        /\ (d.later <=> c.later) /\ (d.completed <=> c.completed) /\ (d.hooked <=> c.hooked)
        /\ d.writes = c.writes /\ d.aborted = c.aborted
        /\ d.reading /\ d.read
    BY <2>2, DoReadIs
  <2>. HIDE DEF d
  <2>4. d.aborted = Dropped(FALSE, x) /\ ~x
    <3>1. x = FALSE
      BY <1>3
    <3>. QED  BY <2>3, <3>1, DroppedIs DEF Fed
  <2>5. InStep(d, FALSE, y, FALSE)
    BY <1>3, <2>3, <2>4 DEF InStep, Lives, OneWrite, Fed, ObjectType
  <2>. QED  BY <1>3, <2>1, <2>3, <2>4, <2>5 DEF Fed, ReadOver
<1>4. CASE ok /\ c.open /\ ~c.close /\ c.after
  <2>. DEFINE d == [c EXCEPT !.later = TRUE]
  <2>1. ReadDone(c, ok) = d
    BY <1>4 DEF ReadDone
  <2>2. /\ d \in ObjectType /\ d.later /\ (d.exists <=> c.exists) /\ (d.open <=> c.open)
        /\ (d.reading <=> c.reading) /\ (d.writing <=> c.writing) /\ (d.close <=> c.close)
        /\ (d.after <=> c.after) /\ (d.completed <=> c.completed) /\ (d.hooked <=> c.hooked)
        /\ (d.armed <=> c.armed) /\ (d.read <=> c.read) /\ d.writes = c.writes
        /\ d.aborted = c.aborted
    BY PutsOffRead
  <2>. HIDE DEF d
  <2>3. d.aborted = Dropped(FALSE, x) /\ ~x
    <3>1. x = FALSE
      BY <1>4
    <3>. QED  BY <2>2, <3>1, DroppedIs DEF Fed
  <2>4. InStep(d, FALSE, y, FALSE)
    BY <1>4, <2>2, <2>3 DEF InStep, Lives, OneWrite, Fed, ObjectType
  <2>. QED  BY <1>4, <2>1, <2>2, <2>3, <2>4 DEF Fed, ReadOver
<1>. QED  BY <1>1, <1>2, <1>3, <1>4

(* d is c with its request answered, unless the socket is closed.          *)
Answered(c, d) ==
    /\ d \in ObjectType /\ ~d.after /\ ~d.hooked /\ d.aborted = c.aborted
    /\ (d.exists <=> c.exists) /\ (d.open <=> c.open) /\ (d.close <=> c.close)
    /\ d.writes = IF c.open THEN <<"answer">> ELSE c.writes
    /\ d.writing <=> c.open \/ c.writing
    /\ d.reading <=> (c.open /\ c.later) \/ c.reading
    /\ d.read <=> (c.open /\ c.later) \/ c.read
    /\ d.armed <=> (c.open /\ c.later) \/ c.armed
    /\ d.later <=> ~c.open /\ c.later

LEMMA CompleteRequestIs ==
    ASSUME NEW c \in ObjectType, c.writes = <<>>
    PROVE  LET d == CompleteRequest(c)
           IN  Answered(c, d) /\ (d.completed <=> c.completed)
<1>. DEFINE done == [c EXCEPT !.after = FALSE, !.hooked = FALSE]
            written == DoWrite(done, "answer")
<1>0. done \in ObjectType /\ done.writes = <<>>
  BY Unhooks
<1>1. /\ ~done.after /\ ~done.hooked /\ (done.exists <=> c.exists)
      /\ (done.open <=> c.open) /\ (done.reading <=> c.reading)
      /\ (done.writing <=> c.writing) /\ (done.close <=> c.close)
      /\ (done.later <=> c.later) /\ (done.completed <=> c.completed)
      /\ (done.armed <=> c.armed) /\ (done.read <=> c.read) /\ done.aborted = c.aborted
  BY Unhooks
<1>2. CompleteRequest(c) =
        IF ~c.open THEN done
        ELSE IF c.later THEN DoRead(StartDeadline([written EXCEPT !.later = FALSE]))
        ELSE written
  BY DEF CompleteRequest
<1>. HIDE DEF done
<1>3. CASE ~c.open
  BY <1>0, <1>1, <1>2, <1>3 DEF Answered
<1>4. written \in ObjectType /\ written.writes = <<"answer">> /\ written.aborted = c.aborted
  BY <1>0, <1>1, DoWriteIs DEF Writes
<1>5. /\ ~written.after /\ ~written.hooked /\ (written.exists <=> c.exists)
      /\ (written.open <=> c.open) /\ (written.reading <=> c.reading)
      /\ written.writing /\ (written.close <=> c.close)
      /\ (written.later <=> c.later) /\ (written.completed <=> c.completed)
      /\ (written.armed <=> c.armed) /\ (written.read <=> c.read)
  BY <1>0, <1>1, DoWriteIs DEF Writes
<1>. HIDE DEF written
<1>6. CASE c.open /\ ~c.later
  BY <1>2, <1>4, <1>5, <1>6 DEF Answered
<1>7. CASE c.open /\ c.later
  <2>. DEFINE c1 == [written EXCEPT !.later = FALSE]
              c2 == StartDeadline(c1)
              d == DoRead(c2)
  <2>0. CompleteRequest(c) = d
    BY <1>2, <1>7
  <2>1. /\ c1 \in ObjectType /\ c1.writes = <<"answer">> /\ c1.aborted = c.aborted
        /\ ~c1.after /\ ~c1.hooked /\ (c1.exists <=> c.exists) /\ (c1.open <=> c.open)
        /\ c1.writing /\ (c1.close <=> c.close) /\ ~c1.later
        /\ (c1.completed <=> c.completed)
    BY <1>4, <1>5, TakesUpRead
  <2>. HIDE DEF c1
  <2>2. /\ c2 \in ObjectType /\ c2.writes = <<"answer">> /\ c2.aborted = c.aborted
        /\ ~c2.after /\ ~c2.hooked /\ (c2.exists <=> c.exists) /\ (c2.open <=> c.open)
        /\ c2.writing /\ (c2.close <=> c.close) /\ ~c2.later
        /\ (c2.completed <=> c.completed) /\ c2.armed
    BY <2>1, StartDeadlineIs
  <2>. HIDE DEF c2
  <2>3. /\ d \in ObjectType /\ d.writes = <<"answer">> /\ d.aborted = c.aborted
        /\ ~d.after /\ ~d.hooked /\ (d.exists <=> c.exists) /\ (d.open <=> c.open)
        /\ d.writing /\ (d.close <=> c.close) /\ ~d.later
        /\ (d.completed <=> c.completed) /\ d.armed /\ d.reading /\ d.read
    BY <2>2, DoReadIs
  <2>. HIDE DEF d
  <2>. QED  BY <1>7, <2>0, <2>3 DEF Answered
<1>. QED  BY <1>3, <1>6, <1>7

LEMMA EndIs ==
    ASSUME NEW c \in ObjectType, c.writes = <<>>, ~c.completed
    PROVE  /\ End(c).completed
           /\ c.hooked => Answered(c, End(c))
           /\ ~c.hooked => End(c) = [c EXCEPT !.completed = TRUE]
<1>. DEFINE e == [c EXCEPT !.completed = TRUE]
<1>1. End(c) = IF e.hooked THEN CompleteRequest(e) ELSE e
  BY DEF End
<1>2. e \in ObjectType /\ e.writes = <<>> /\ e.completed /\ e.aborted = c.aborted
  BY CompletedIs
<1>3. /\ (e.exists <=> c.exists) /\ (e.open <=> c.open) /\ (e.reading <=> c.reading)
      /\ (e.writing <=> c.writing) /\ (e.close <=> c.close) /\ (e.later <=> c.later)
      /\ (e.hooked <=> c.hooked) /\ (e.armed <=> c.armed) /\ (e.read <=> c.read)
  BY CompletedIs
<1>4. ~c.hooked => End(c) = e
  BY <1>1, <1>3
<1>. HIDE DEF e
<1>5. CASE c.hooked
  <2>1. End(c) = CompleteRequest(e)
    BY <1>1, <1>3, <1>5
  <2>2. Answered(e, End(c)) /\ End(c).completed
    BY <1>2, <2>1, CompleteRequestIs
  <2>. QED  BY <1>2, <1>3, <1>5, <2>2 DEF Answered
<1>. QED  BY <1>2, <1>4, <1>5 DEF e

(* An object whose read has brought bytes: nothing is being answered.      *)
Idle(c) ==
    /\ c \in ObjectType /\ c.exists /\ c.reading /\ ~c.read /\ ~c.later /\ ~c.close
    /\ ~c.writing /\ c.writes = <<>> /\ ~c.completed /\ ~c.after /\ ~c.hooked
    /\ c.aborted = <<>>

LEMMA HandleHeaderIs ==
    ASSUME NEW c, Idle(c), NEW r
    PROVE  LET d == HandleHeader(c, r)
           IN  /\ d \in ObjectType /\ Fed(d, FALSE) /\ (d.open <=> c.open)
               /\ ~d.close /\ ~d.after
               /\ d.writes = <<>> \/ (d.writes = <<"continue">> /\ r.expect)
<1>1. CASE r.version = "1.1" /\ r.expect
  <2>. DEFINE d == DoWrite(c, "continue")
  <2>1. HandleHeader(c, r) = d
    BY <1>1 DEF HandleHeader
  <2>2. /\ d \in ObjectType /\ d.writing /\ d.writes = <<"continue">>
        /\ (d.exists <=> c.exists) /\ (d.open <=> c.open) /\ (d.reading <=> c.reading)
        /\ (d.close <=> c.close) /\ (d.after <=> c.after) /\ (d.later <=> c.later)
        /\ (d.completed <=> c.completed) /\ (d.hooked <=> c.hooked)
        /\ (d.read <=> c.read) /\ d.aborted = c.aborted
    BY DoWriteIs DEF Idle, Writes
  <2>. HIDE DEF d
  <2>3. <<"continue">> # <<>>
    OBVIOUS
  <2>. QED  BY <1>1, <2>1, <2>2, <2>3 DEF Idle, Fed, OneWrite
<1>2. CASE ~(r.version = "1.1" /\ r.expect)
  <2>1. HandleHeader(c, r) = c
    BY <1>2 DEF HandleHeader
  <2>. QED  BY <2>1 DEF Idle, Fed, OneWrite
<1>. QED  BY <1>1, <1>2

LEMMA HandleIs ==
    ASSUME NEW c, Idle(c), NEW r, NEW d \in Handle(c, r)
    PROVE  /\ d \in ObjectType /\ Fed(d, FALSE)
           /\ d.writes = <<>> \/ d.writes = <<"answer">>
           /\ ~c.open => ~d.open
           /\ c.open /\ ~Later /\ r.known /\ ~Upgrades(r) =>
                d.open /\ d.writes = <<"answer">> /\ ~d.after
<1>. DEFINE v == c.close \/ AsksClose(r) \/ Upgrades(r)
            invalid == r.version = "1.1" /\ ~r.host
            c1 == CancelDeadline(c)
            u == c1.completed /\ ~invalid
            a1 == [c1 EXCEPT !.close = v]
            a == [a1 EXCEPT !.completed = u]
            z == [a EXCEPT !.completed = FALSE]
            b == [a EXCEPT !.hooked = TRUE, !.after = TRUE]
            n == [a EXCEPT !.after = FALSE]
<1>0. <<"answer">> # <<>>
  OBVIOUS
<1>1. /\ c1 \in ObjectType /\ ~c1.armed /\ c1.exists /\ (c1.open <=> c.open) /\ c1.reading
      /\ ~c1.writing /\ (c1.close <=> c.close) /\ ~c1.after /\ ~c1.later /\ ~c1.completed
      /\ ~c1.hooked /\ ~c1.read /\ c1.writes = <<>> /\ c1.aborted = <<>>
  BY CancelDeadlineIs DEF Idle
<1>2. [CancelDeadline(c) EXCEPT !.close = @ \/ AsksClose(r) \/ Upgrades(r),
                                !.completed = @ /\ ~invalid] = a
  <2>1. c1.close = c.close
    BY CancelDeadlineIs DEF Idle
  <2>. QED  BY <2>1
<1>3. d \in IF Upgrades(r) THEN {HandleUpgrade(a, r)}
            ELSE IF invalid \/ a.completed THEN {CompleteRequest(n)}
            ELSE RunHandler(b, r)
  BY <1>2 DEF Handle
<1>. HIDE DEF c1, v
<1>4. /\ a \in ObjectType /\ ~a.armed /\ a.exists /\ (a.open <=> c.open) /\ a.reading
      /\ ~a.writing /\ ~a.after /\ ~a.later /\ ~a.completed /\ (a.close <=> v)
      /\ ~a.hooked /\ ~a.read /\ a.writes = <<>> /\ a.aborted = <<>>
  <2>1. v \in BOOLEAN /\ u \in BOOLEAN /\ u = FALSE
    BY <1>1 DEF v
  <2>. HIDE DEF u
  <2>2. /\ a1 \in ObjectType /\ a1.close = v /\ a1.exists = c1.exists /\ a1.open = c1.open
        /\ a1.reading = c1.reading /\ a1.writing = c1.writing
        /\ a1.after = c1.after /\ a1.later = c1.later
        /\ a1.hooked = c1.hooked /\ a1.armed = c1.armed /\ a1.read = c1.read
        /\ a1.writes = c1.writes /\ a1.aborted = c1.aborted
    <3>1. c1 \in ObjectType /\ v \in BOOLEAN
      BY <1>1, <2>1
    <3>. QED  BY ONLY <3>1, WillClose
  <2>. HIDE DEF a1
  <2>3. /\ a \in ObjectType /\ a.completed = u /\ a.close = a1.close
        /\ a.exists = a1.exists /\ a.open = a1.open
        /\ a.reading = a1.reading /\ a.writing = a1.writing
        /\ a.after = a1.after /\ a.later = a1.later
        /\ a.hooked = a1.hooked /\ a.armed = a1.armed /\ a.read = a1.read
        /\ a.writes = a1.writes /\ a.aborted = a1.aborted
    BY <2>1, <2>2, CompletedIs
  <2>. HIDE DEF a
  <2>. QED  BY <1>1, <2>1, <2>2, <2>3
<1>. HIDE DEF a
<1>5. CASE Upgrades(r) /\ r.upgrade = "websocket"
  <2>1. d = [a EXCEPT !.open = FALSE]
    BY <1>3, <1>5 DEF HandleUpgrade
  <2>2. /\ d \in ObjectType /\ ~d.open /\ d.exists /\ d.reading /\ ~d.writing /\ ~d.after
        /\ ~d.later /\ ~d.completed /\ ~d.hooked /\ ~d.read /\ d.writes = <<>>
        /\ d.aborted = <<>>
    BY <1>4, <2>1, HandsOver
  <2>. QED  BY <1>5, <2>2 DEF Fed, OneWrite
<1>6. CASE Upgrades(r) /\ r.upgrade # "websocket"
  <2>1. /\ z \in ObjectType /\ (z.open <=> c.open) /\ z.exists /\ z.reading /\ ~z.writing
        /\ ~z.after /\ ~z.later /\ ~z.completed /\ z.close /\ ~z.hooked /\ ~z.read
        /\ z.writes = <<>> /\ z.aborted = <<>>
    <3>1. a \in ObjectType /\ FALSE \in BOOLEAN
      BY <1>4
    <3>2. /\ z \in ObjectType /\ z.completed = FALSE /\ z.exists = a.exists
          /\ z.open = a.open /\ z.reading = a.reading
          /\ z.writing = a.writing /\ z.close = a.close
          /\ z.after = a.after /\ z.later = a.later
          /\ z.hooked = a.hooked /\ z.read = a.read
          /\ z.writes = a.writes /\ z.aborted = a.aborted
      BY ONLY <3>1, CompletedIs
    <3>. HIDE DEF z
    <3>3. v
      BY <1>6 DEF v
    <3>. QED  BY <1>4, <3>2, <3>3
  <2>2. d = End(z)
    BY <1>3, <1>6 DEF HandleUpgrade, EndAnew
  <2>. HIDE DEF z
  <2>3. d = [z EXCEPT !.completed = TRUE]
    BY <2>1, <2>2, EndIs
  <2>4. /\ d \in ObjectType /\ (d.open <=> c.open) /\ d.exists /\ d.reading /\ ~d.writing
        /\ ~d.after /\ ~d.later /\ d.completed /\ d.close /\ ~d.hooked /\ ~d.read
        /\ d.writes = <<>> /\ d.aborted = <<>>
    <3>1. z \in ObjectType /\ TRUE \in BOOLEAN
      BY <2>1
    <3>2. /\ d \in ObjectType /\ d.completed = TRUE /\ d.exists = z.exists
          /\ d.open = z.open /\ d.reading = z.reading
          /\ d.writing = z.writing /\ d.close = z.close
          /\ d.after = z.after /\ d.later = z.later
          /\ d.hooked = z.hooked /\ d.read = z.read
          /\ d.writes = z.writes /\ d.aborted = z.aborted
      BY ONLY <2>3, <3>1, CompletedIs
    <3>. QED  BY <2>1, <3>2
  <2>. QED  BY <1>6, <2>4 DEF Fed, OneWrite
<1>7. CASE ~Upgrades(r) /\ invalid
  <2>1. /\ n \in ObjectType /\ ~n.armed /\ n.exists /\ (n.open <=> c.open) /\ n.reading
        /\ ~n.writing /\ ~n.after /\ ~n.later /\ ~n.completed
        /\ ~n.hooked /\ ~n.read /\ n.writes = <<>> /\ n.aborted = <<>>
    BY <1>4, ForgetsAfter
  <2>2. d = CompleteRequest(n)
    BY <1>3, <1>7
  <2>. HIDE DEF n
  <2>3. Answered(n, d) /\ ~d.completed
    BY <2>1, <2>2, CompleteRequestIs
  <2>. QED  BY <1>0, <2>1, <2>3 DEF Answered, Fed, OneWrite
<1>8. CASE ~Upgrades(r) /\ ~invalid
  <2>1. /\ b \in ObjectType /\ ~b.armed /\ b.exists /\ (b.open <=> c.open) /\ b.reading
        /\ ~b.writing /\ b.after /\ ~b.later /\ ~b.completed
        /\ b.hooked /\ ~b.read /\ b.writes = <<>> /\ b.aborted = <<>>
    BY <1>4, Hooks
  <2>2. d \in RunHandler(b, r)
    BY <1>3, <1>4, <1>8
  <2>. HIDE DEF b
  <2>3. d = End(b) \/ (d = b /\ (Later \/ ~r.known))
    BY <2>2 DEF RunHandler
  <2>4. CASE d = End(b)
    <3>1. Answered(b, d) /\ d.completed
      BY <2>1, <2>4, EndIs
    <3>. QED  BY <1>0, <2>1, <3>1 DEF Answered, Fed, OneWrite
  <2>5. CASE d = b /\ (Later \/ ~r.known)
    BY <2>1, <2>5 DEF Fed, OneWrite
  <2>. QED  BY <2>3, <2>4, <2>5
<1>. QED  BY <1>5, <1>6, <1>7, <1>8

LEMMA WriteDoneIs ==
    ASSUME NEW c \in ObjectType, NEW r \in BOOLEAN, NEW ok \in BOOLEAN, NEW k \in BOOLEAN,
           InStep(c, r, TRUE, k), c.exists, c.aborted = <<>>, ok => k
    PROVE  LET d == WriteDone(c, ok)
           IN  /\ d \in ObjectType /\ d.aborted = <<>> /\ InStep(d, r, FALSE, FALSE)
               /\ ~d.writing /\ d.writes = <<>> /\ c.writes = <<>> /\ (d.later <=> c.later)
               /\ ~c.open => ~d.open
               /\ d.exists => (d.open <=> c.open)
<1>. DEFINE w == [c EXCEPT !.writing = FALSE, !.completed = FALSE]
<1>1. WriteDone(c, ok) = IF ~ok THEN CheckDestroy(w)
                         ELSE IF c.close THEN CheckDestroy(CloseSocket(w)) ELSE w
  BY DEF WriteDone
<1>2. /\ c.exists /\ c.writes = <<>> /\ c.writing /\ (c.armed <=> c.open /\ c.reading)
      /\ ~c.later /\ ~c.after /\ ~c.hooked /\ (c.reading <=> c.read \/ r)
      /\ (c.read => ~r) /\ (c.close => c.open /\ ~c.reading)
      /\ (c.reading \/ c.close \/ ~(c.open \/ k)) /\ (~c.open => ~c.read)
  BY DEF InStep, Lives, OneWrite
<1>3. /\ w \in ObjectType /\ (w.exists <=> c.exists) /\ (w.open <=> c.open)
      /\ (w.reading <=> c.reading) /\ ~w.writing /\ (w.close <=> c.close) /\ (w.after <=> c.after)
      /\ (w.later <=> c.later) /\ ~w.completed /\ (w.hooked <=> c.hooked)
      /\ (w.armed <=> c.armed) /\ (w.read <=> c.read) /\ w.writes = c.writes
      /\ w.aborted = c.aborted
  BY EndsWrite
<1>. HIDE DEF w
<1>4. CASE ~ok
  <2>. DEFINE d == CheckDestroy(w)
  <2>1. WriteDone(c, ok) = d
    BY <1>1, <1>4
  <2>2. /\ d \in ObjectType /\ (d.exists <=> w.exists /\ (w.reading \/ w.writing))
        /\ (d.armed <=> w.armed /\ (w.reading \/ w.writing)) /\ (d.open <=> w.open)
        /\ (d.reading <=> w.reading) /\ (d.writing <=> w.writing) /\ (d.close <=> w.close)
        /\ (d.after <=> w.after) /\ (d.later <=> w.later) /\ (d.completed <=> w.completed)
        /\ (d.hooked <=> w.hooked) /\ (d.read <=> w.read) /\ d.writes = w.writes
        /\ d.aborted = w.aborted
    BY <1>3, CheckDestroyIs
  <2>. HIDE DEF d
  <2>3. InStep(d, r, FALSE, FALSE)
    BY <1>2, <1>3, <2>2 DEF InStep, Lives, OneWrite
  <2>. QED  BY <1>2, <1>3, <2>1, <2>2, <2>3
<1>5. CASE ok /\ c.close
  <2>. DEFINE s == CloseSocket(w)
              d == CheckDestroy(s)
  <2>1. WriteDone(c, ok) = d
    BY <1>1, <1>5
  <2>2. /\ s \in ObjectType /\ ~s.open /\ ~s.read /\ s.writes = <<>>
        /\ s.aborted = Dropped(FALSE, FALSE)
        /\ (s.exists <=> w.exists) /\ (s.reading <=> w.reading) /\ (s.writing <=> w.writing)
        /\ (s.later <=> w.later) /\ (s.armed <=> w.armed)
    <3>1. /\ ~w.read /\ w.writes = <<>> /\ w.aborted = <<>> /\ w \in ObjectType
          /\ OneWrite(w)
      BY <1>2, <1>3, <1>5 DEF OneWrite
    <3>2. (FALSE <=> w.read) /\ (FALSE <=> w.writes # <<>>) /\ FALSE \in BOOLEAN
      BY <3>1
    <3>. QED  BY <3>1, <3>2, CloseSocketIs
  <2>. HIDE DEF s
  <2>3. /\ d \in ObjectType /\ ~d.open /\ ~d.read /\ d.writes = <<>>
        /\ d.aborted = s.aborted /\ (d.writing <=> s.writing) /\ (d.later <=> s.later)
        /\ (d.exists <=> s.exists /\ (s.reading \/ s.writing))
        /\ (d.armed <=> s.armed /\ (s.reading \/ s.writing))
    BY <2>2, CheckDestroyIs
  <2>. HIDE DEF d
  <2>4. InStep(d, r, FALSE, FALSE)
    BY <1>2, <1>3, <1>5, <2>2, <2>3 DEF InStep, Lives, OneWrite
  <2>5. d.aborted = <<>>
    BY <2>2, <2>3, DroppedIs
  <2>. QED  BY <1>2, <1>3, <1>5, <2>1, <2>2, <2>3, <2>4, <2>5
<1>6. CASE ok /\ ~c.close
  <2>1. WriteDone(c, ok) = w
    BY <1>1, <1>6
  <2>2. InStep(w, r, FALSE, FALSE)
    BY <1>2, <1>3, <1>6 DEF InStep, Lives, OneWrite
  <2>. QED  BY <1>2, <1>3, <2>1, <2>2
<1>. QED  BY <1>4, <1>5, <1>6

-----------------------------------------------------------------------------
(* The queue after a completion, and the state it is part of               *)

LEMMA JoinedQueue ==
    ASSUME NEW q, InOrder(q), NEW r \in BOOLEAN, NEW w \in BOOLEAN,
           r => ~HasRead(q), w => ~HasWrite(q)
    PROVE  LET p == q \o Dropped(r, w)
           IN  /\ InOrder(p) /\ (HasWrote(p) <=> HasWrote(q))
               /\ (HasRead(p) <=> HasRead(q) \/ r) /\ (HasWrite(p) <=> HasWrite(q) \/ w)
               /\ p # <<>> /\ p[1] = Read("bytes") => q # <<>> /\ q[1] = Read("bytes")
<1>. DEFINE rd == Read("dropped")
            wr == Write("dropped")
<1>1. /\ rd \in Completion /\ rd.op = "read" /\ rd # Read("bytes") /\ rd # Write("ok")
      /\ wr \in Completion /\ wr.op = "write" /\ wr # Read("bytes") /\ wr # Write("ok")
  BY DEF Read, Write, Completion
<1>2. /\ Dropped(FALSE, FALSE) = <<>> /\ Dropped(TRUE, FALSE) = <<rd>>
      /\ Dropped(FALSE, TRUE) = <<wr>> /\ Dropped(TRUE, TRUE) = <<rd, wr>>
  BY DroppedIs
<1>. HIDE DEF rd, wr
<1>3. q \in Seq(Completion)
  BY DEF InOrder
<1>4. CASE ~r /\ ~w
  <2>1. q \o Dropped(r, w) = q
    <3>1. Dropped(r, w) = <<>>
      BY <1>2, <1>4
    <3>. QED  BY <1>3, <3>1
  <2>. QED  BY <1>4, <2>1
<1>5. CASE r /\ ~w
  <2>1. q \o Dropped(r, w) = Append(q, rd)
    <3>1. Dropped(r, w) = <<rd>>
      BY <1>2, <1>5
    <3>. QED  BY <1>1, <1>3, <3>1, Joined
  <2>2. /\ InOrder(Append(q, rd)) /\ (HasWrote(Append(q, rd)) <=> HasWrote(q))
        /\ Append(q, rd)[1] = IF q = <<>> THEN rd ELSE q[1]
        /\ HasRead(Append(q, rd)) /\ (HasWrite(Append(q, rd)) <=> HasWrite(q))
    BY <1>1, <1>5, AppendQueue
  <2>. QED  BY <1>1, <1>5, <2>1, <2>2
<1>6. CASE ~r /\ w
  <2>1. q \o Dropped(r, w) = Append(q, wr)
    <3>1. Dropped(r, w) = <<wr>>
      BY <1>2, <1>6
    <3>. QED  BY <1>1, <1>3, <3>1, Joined
  <2>2. /\ InOrder(Append(q, wr)) /\ (HasWrote(Append(q, wr)) <=> HasWrote(q))
        /\ Append(q, wr)[1] = IF q = <<>> THEN wr ELSE q[1]
        /\ (HasRead(Append(q, wr)) <=> HasRead(q)) /\ HasWrite(Append(q, wr))
    BY <1>1, <1>6, AppendQueue
  <2>. QED  BY <1>1, <1>6, <2>1, <2>2
<1>7. CASE r /\ w
  <2>. DEFINE p == Append(q, rd)
  <2>1. q \o Dropped(r, w) = Append(p, wr)
    <3>1. Dropped(r, w) = <<rd, wr>>
      BY <1>2, <1>7
    <3>. QED  BY <1>1, <1>3, <3>1, Joined
  <2>2. /\ InOrder(p) /\ p # <<>> /\ p[1] = IF q = <<>> THEN rd ELSE q[1]
        /\ HasRead(p) /\ (HasWrite(p) <=> HasWrite(q)) /\ (HasWrote(p) <=> HasWrote(q))
    BY <1>1, <1>7, AppendQueue
  <2>. HIDE DEF p
  <2>3. /\ InOrder(Append(p, wr)) /\ Append(p, wr)[1] = p[1]
        /\ HasRead(Append(p, wr)) /\ HasWrite(Append(p, wr))
        /\ (HasWrote(Append(p, wr)) <=> HasWrote(p))
    BY <1>1, <1>7, <2>2, AppendQueue
  <2>. QED  BY <1>1, <1>7, <2>1, <2>2, <2>3
<1>. QED  BY <1>4, <1>5, <1>6, <1>7

(* The object and the queue are in step.                                   *)
Together(c, q) ==
    /\ c \in ObjectType /\ c.aborted = <<>> /\ InOrder(q)
    /\ InStep(c, HasRead(q), HasWrite(q), HasWrote(q))
    /\ q # <<>> /\ q[1] = Read("bytes") => ~c.writing

(* What holds while the client waits.                                      *)
Waiting == patient /\ ~feeding

Parts == /\ conn \in ObjectType /\ conn.aborted = <<>> /\ ready \in Seq(Completion)
         /\ Waiting /\ OneWrite(conn)
         /\ NothingOutlives /\ CompletionsInStep /\ ObjectInStep

LEMMA TogetherNow ==
    ASSUME Parts
    PROVE  Together(conn, ready)
<1>1. InOrder(ready) /\ (ready # <<>> /\ ready[1] = Read("bytes") => ~conn.writing)
  BY DEF Parts, CompletionsInStep, InOrder
<1>2. ~HasRead(ready) /\ ~HasWrite(ready) <=> ready = <<>>
  BY <1>1, EmptyQueue
<1>3. /\ HasRead(ready) = Queued("read") /\ HasWrite(ready) = Queued("write")
      /\ HasWrote(ready) = Wrote
  BY DEF HasRead, HasWrite, HasWrote, Queued, Wrote
<1>4. InStep(conn, HasRead(ready), HasWrite(ready), HasWrote(ready))
  BY <1>2, <1>3 DEF Parts, Waiting, NothingOutlives, ObjectInStep, InStep, Lives
<1>. QED  BY <1>1, <1>4 DEF Together, Parts

LEMMA TogetherNext ==
    ASSUME Together(conn', ready'), Waiting'
    PROVE  Parts'
<1>1. InOrder(ready') /\ (ready' # <<>> /\ ready'[1] = Read("bytes") => ~conn'.writing)
  BY DEF Together
<1>2. ~HasRead(ready') /\ ~HasWrite(ready') <=> ready' = <<>>
  BY <1>1, EmptyQueue
<1>3. /\ HasRead(ready') = Queued("read")' /\ HasWrite(ready') = Queued("write")'
      /\ HasWrote(ready') = Wrote'
  BY DEF HasRead, HasWrite, HasWrote, Queued, Wrote
<1>4. InStep(conn', HasRead(ready'), HasWrite(ready'), HasWrote(ready'))
  BY DEF Together
<1>5. NothingOutlives'
  BY <1>2, <1>3, <1>4 DEF Waiting, NothingOutlives, InStep
<1>6. ObjectInStep' /\ OneWrite(conn')
  BY <1>3, <1>4 DEF ObjectInStep, InStep, Lives, OneWrite
<1>7. CompletionsInStep' /\ ready' \in Seq(Completion)
  BY <1>1 DEF CompletionsInStep, InOrder
<1>8. OneWrite(conn)'
  BY <1>6 DEF OneWrite
<1>. QED  BY <1>5, <1>6, <1>7, <1>8 DEF Parts, Together

LEMMA BecomesIs ==
    ASSUME NEW d \in ObjectType, NEW q, InOrder(q), NEW r \in BOOLEAN, NEW w \in BOOLEAN,
           d.aborted = Dropped(r, w), r => ~HasRead(q), w => ~HasWrite(q),
           NEW x \in BOOLEAN, x <=> HasRead(q) \/ r, NEW y \in BOOLEAN, y <=> HasWrite(q) \/ w,
           NEW k \in BOOLEAN, k <=> HasWrote(q), InStep(d, x, y, k),
           q # <<>> /\ q[1] = Read("bytes") => ~d.writing,
           Becomes(d, q), Waiting'
    PROVE  /\ Parts' /\ conn'.writes = d.writes /\ (conn'.exists <=> d.exists)
           /\ (conn'.open <=> d.open) /\ (conn'.later <=> d.later)
           /\ (conn'.writing <=> d.writing)
<1>. DEFINE p == q \o Dropped(r, w)
            c == [d EXCEPT !.aborted = <<>>]
<1>1. ready' = p /\ conn' = c
  BY DEF Becomes
<1>2. /\ InOrder(p) /\ (HasWrote(p) <=> k) /\ (HasRead(p) <=> x) /\ (HasWrite(p) <=> y)
      /\ p # <<>> /\ p[1] = Read("bytes") => ~d.writing
  BY JoinedQueue
<1>3. /\ c \in ObjectType /\ c.aborted = <<>> /\ (c.exists <=> d.exists)
      /\ (c.open <=> d.open) /\ (c.reading <=> d.reading) /\ (c.writing <=> d.writing)
      /\ (c.close <=> d.close) /\ (c.after <=> d.after) /\ (c.later <=> d.later)
      /\ (c.completed <=> d.completed) /\ (c.hooked <=> d.hooked) /\ (c.armed <=> d.armed)
      /\ (c.read <=> d.read) /\ c.writes = d.writes
  BY Cleared
<1>. HIDE DEF p, c
<1>4. InStep(c, HasRead(p), HasWrite(p), HasWrote(p))
  BY <1>2, <1>3 DEF InStep, Lives, OneWrite
<1>5. Together(conn', ready')
  BY <1>1, <1>2, <1>3, <1>4 DEF Together
<1>. QED  BY <1>1, <1>3, <1>5, TogetherNext

LEMMA ReadTaken ==
    ASSUME Parts, conn.exists, ready # <<>>, Head(ready).op = "read"
    PROVE  LET q == Tail(ready)
           IN  /\ InOrder(q) /\ ~HasRead(q) /\ ~HasWrote(q)
               /\ q # <<>> => q[1] # Read("bytes")
               /\ \A w \in BOOLEAN : (w <=> HasWrite(q)) => Fed(conn, w)
               /\ ~conn.close /\ ~conn.later
               /\ Head(ready) = Read("bytes") => Idle(conn) /\ ~HasWrite(q)
<1>. DEFINE q == Tail(ready)
<1>1. Together(conn, ready)
  BY TogetherNow
<1>2. /\ InOrder(q) /\ Head(ready) = ready[1] /\ HasRead(ready) /\ ~HasRead(q)
      /\ HasWrite(q) <=> HasWrite(ready)
      /\ ~HasWrote(q)
  BY <1>1, TailQueue DEF Together
<1>3. q # <<>> => q[1] # Read("bytes")
  <2>1. ASSUME q # <<>>, q[1] = Read("bytes")
        PROVE  FALSE
    <3>1. HasRead(q)
      BY <1>2, <2>1, TailQueue, Operations
    <3>. QED  BY <1>2, <3>1
  <2>. QED  BY <2>1
<1>. HIDE DEF q
<1>4. Lives(conn, HasRead(ready), HasWrite(ready), HasWrote(ready))
  BY <1>1 DEF Together, InStep
<1>5. /\ conn.reading /\ ~conn.read /\ ~conn.later /\ ~conn.close /\ conn.aborted = <<>>
      /\ ~conn.after /\ ~conn.hooked /\ (conn.writing <=> conn.writes # <<>> \/ HasWrite(q))
      /\ (conn.writes # <<>> => ~HasWrite(q)) /\ (conn.completed => conn.writing)
      /\ (~conn.open => conn.writes = <<>>) /\ conn \in ObjectType
  BY <1>1, <1>2, <1>4 DEF Lives, Together
<1>6. \A w \in BOOLEAN : (w <=> HasWrite(q)) => Fed(conn, w)
  BY <1>4, <1>5 DEF Fed, Lives
<1>7. Head(ready) = Read("bytes") => ~conn.writing
  BY <1>1, <1>2 DEF Together
<1>8. Head(ready) = Read("bytes") => Idle(conn) /\ ~HasWrite(q)
  BY <1>5, <1>7 DEF Idle
<1>. QED  BY <1>2, <1>3, <1>5, <1>6, <1>8 DEF q

LEMMA ReadDoneKeeps ==
    ASSUME Parts, conn.exists, ready # <<>>, Head(ready).op = "read",
           NEW c \in ObjectType, NEW ok \in BOOLEAN, ~ok => ~c.close,
           NEW w \in BOOLEAN, w <=> HasWrite(Tail(ready)), Fed(c, w),
           Becomes(ReadDone(c, ok), Tail(ready)), Waiting'
    PROVE  /\ Parts' /\ conn'.writes = IF ok /\ c.open THEN c.writes ELSE <<>>
           /\ conn'.open <=> ok /\ c.open
           /\ conn'.later <=> ok /\ c.open /\ ~c.close /\ c.after
           /\ ~conn'.exists => ~c.writing /\ (c.close \/ ~conn'.open)
           /\ c.after /\ conn'.exists => conn'.later
<1>. DEFINE q == Tail(ready)
            d == ReadDone(c, ok)
<1>1. InOrder(q) /\ ~HasRead(q) /\ ~HasWrote(q) /\ (q # <<>> => q[1] # Read("bytes"))
  BY ReadTaken
<1>2. PICK x \in BOOLEAN : x <=> ~(ok /\ c.open) /\ c.writes # <<>>
  OBVIOUS
<1>3. PICK y \in BOOLEAN : y <=> w \/ x
  OBVIOUS
<1>4. Becomes(d, q) /\ (w <=> HasWrite(q)) /\ (x => ~w)
  BY <1>2 DEF Fed
<1>5. ReadOver(c, ok, x, y, d)
  BY <1>2, <1>3, ReadDoneIs
<1>. HIDE DEF q, d
<1>6. (FALSE <=> HasRead(q) \/ FALSE) /\ (FALSE <=> HasWrote(q)) /\ FALSE \in BOOLEAN
  BY <1>1
<1>7. /\ Parts' /\ conn'.writes = d.writes /\ (conn'.exists <=> d.exists)
      /\ (conn'.open <=> d.open) /\ (conn'.later <=> d.later)
  <2>1. y <=> HasWrite(q) \/ x
    BY <1>3, <1>4
  <2>2. /\ d \in ObjectType /\ d.aborted = Dropped(FALSE, x)
        /\ InStep(d, FALSE, y, FALSE)
    BY <1>5 DEF ReadOver
  <2>. QED  BY <1>1, <1>4, <1>6, <2>1, <2>2, BecomesIs
<1>. QED  BY <1>5, <1>7 DEF ReadOver

-----------------------------------------------------------------------------
(* Every action leaves the connection in step                              *)

(* The state of a connection whose client waits, and what a step has to    *)
(* establish if the client goes on waiting.                                *)
WaitsInStep == ConnectionTypes /\ PatientInStep /\ Waiting

Keeps == PatientInStep' /\ (AnswersAtOnce /\ AnswersInStep => AnswersInStep')

LEMMA IInvIs ==
    WaitsInStep => /\ Parts /\ ClientInStep /\ Waiting
            /\ phase \in {"start", "body", "dead"} /\ req \in Requests \cup {NoRequest}
            /\ peer \in {"up", "gone"} /\ asked \in 0 .. MaxRequests
            /\ sent \in Nat /\ sent <= asked
            /\ cause \in {"none", "garbled", "timeout", "gone"}
            /\ held \in {0, 1} /\ (conn.exists /\ ~conn.later => held = 0)
BY DEF WaitsInStep, ConnectionTypes, PatientInStep, OneAtATime, OneWrite, Parts

LEMMA IInvNext ==
    ASSUME Parts', ClientInStep', sent' <= asked', held' \in {0, 1},
           held' = 1 /\ conn'.exists => conn'.later
    PROVE  PatientInStep'
BY DEF PatientInStep, OneAtATime, OneWrite, Parts

LEMMA NothingHeld ==
    ASSUME Parts', ClientInStep', sent' <= asked', held' = 0
    PROVE  PatientInStep'
<1>1. held' \in {0, 1} /\ held' # 1
  OBVIOUS
<1>. QED  BY <1>1, IInvNext

(* A client that goes on waiting sends one piece at a time.                *)
LEMMA FeedIs ==
    ASSUME WaitsInStep, patient', NEW c, NEW more \in BOOLEAN, Feed(c, more)
    PROVE  Waiting' /\ Becomes(ReadDone(c, TRUE), Tail(ready))
<1>1. ~feeding
  BY IInvIs DEF Waiting
<1>2. more = FALSE
  BY DEF Feed
<1>3. feeding' = FALSE /\ Behind = Tail(ready)
  BY <1>1, <1>2 DEF Feed, Behind
<1>4. Becomes(ReadDone(c, TRUE), Tail(ready))
  BY <1>2, <1>3 DEF Feed
<1>. QED  BY <1>3, <1>4 DEF Waiting

LEMMA OnBytesKeeps ==
    ASSUME Bounds, WaitsInStep, patient', OnBytes
    PROVE  Keeps
<1>. USE IInvIs
<1>1. /\ conn.exists /\ ready # <<>> /\ Head(ready) = Read("bytes")
      /\ Head(ready).op = "read" /\ peer' = peer /\ asked' = asked /\ sent' = sent
      /\ cause' = cause /\ held' = held
  BY Operations DEF OnBytes, HasBytes, Waiting
<1>2. Idle(conn) /\ ~HasWrite(Tail(ready)) /\ Fed(conn, FALSE)
  BY <1>1, ReadTaken
<1>10. held' = 0 /\ conn.writes # <<"answer">>
  <2>1. <<>> # <<"answer">>
    OBVIOUS
  <2>. QED  BY <1>1, <1>2, <2>1 DEF Idle
<1>3. FALSE \in BOOLEAN /\ TRUE \in BOOLEAN /\ (FALSE <=> HasWrite(Tail(ready)))
  BY <1>2
<1>4. CASE ~feeding /\ Feed(conn, FALSE) /\ UNCHANGED <<phase, req>>
  <2>0. Waiting' /\ Becomes(ReadDone(conn, TRUE), Tail(ready))
    BY <1>3, <1>4, FeedIs
  <2>1. /\ Parts' /\ conn'.writes = <<>> /\ (conn'.open <=> conn.open) /\ ~conn'.later
        /\ ~conn'.exists => ~conn'.open
    BY <1>1, <1>2, <1>3, <2>0, ReadDoneKeeps DEF Idle
  <2>2. PatientInStep'
    <3>1. ClientInStep'
      BY <1>1, <1>4, <2>1 DEF ClientInStep
    <3>2. sent' <= asked'
      BY <1>1
    <3>. QED  BY <1>10, <2>1, <3>1, <3>2, NothingHeld
  <2>3. AnswersAtOnce /\ AnswersInStep => AnswersInStep'
    BY <1>1, <1>2, <1>4, <2>1 DEF AnswersInStep, AnsweredBeforeDeleted, Idle, Waiting
  <2>. QED  BY <2>2, <2>3 DEF Keeps
<1>5. CASE /\ phase = "start" /\ asked < MaxRequests
           /\ \E r \in Requests, more \in BOOLEAN :
                Feed(HandleHeader(conn, r), more) /\ req' = r
           /\ phase' = "body"
  <2>1. PICK r \in Requests, more \in BOOLEAN :
             Feed(HandleHeader(conn, r), more) /\ req' = r
    BY <1>5
  <2>. DEFINE c == HandleHeader(conn, r)
  <2>2. /\ c \in ObjectType /\ Fed(c, FALSE) /\ (c.open <=> conn.open) /\ ~c.close /\ ~c.after
        /\ c.writes = <<>> \/ (c.writes = <<"continue">> /\ r.expect)
    BY <1>2, HandleHeaderIs
  <2>3. Becomes(ReadDone(c, TRUE), Tail(ready)) /\ Waiting'
    BY <2>1, FeedIs
  <2>. HIDE DEF c
  <2>4. /\ Parts' /\ conn'.writes = (IF c.open THEN c.writes ELSE <<>>)
        /\ (conn'.open <=> conn.open) /\ ~conn'.later
        /\ ~conn'.exists => ~conn'.open
    BY <1>1, <1>2, <1>3, <2>2, <2>3, ReadDoneKeeps
  <2>5. <<"continue">> # <<"answer">> /\ <<>> # <<"answer">> /\ <<>> # <<"continue">>
    OBVIOUS
  <2>6. conn'.writes # <<"answer">> /\ (conn'.writes = <<"continue">> => r.expect)
    BY <2>2, <2>4, <2>5
  <2>7. ClientInStep'
    BY <1>5, <2>1, <2>4, <2>6 DEF ClientInStep
  <2>8. PatientInStep'
    <3>1. sent' <= asked'
      BY <1>1
    <3>. QED  BY <1>10, <2>4, <2>7, <3>1, NothingHeld
  <2>9. AnswersAtOnce /\ AnswersInStep => AnswersInStep'
    BY <1>1, <1>2, <2>4, <2>5, <2>6 DEF AnswersInStep, AnsweredBeforeDeleted, Idle, Waiting
  <2>. QED  BY <2>8, <2>9 DEF Keeps
<1>. QED  BY <1>4, <1>5 DEF OnBytes

LEMMA OnMessageKeeps ==
    ASSUME Bounds, WaitsInStep, patient', OnMessage
    PROVE  Keeps
<1>. USE IInvIs
<1>1. /\ conn.exists /\ ready # <<>> /\ Head(ready) = Read("bytes")
      /\ Head(ready).op = "read" /\ asked < MaxRequests /\ phase' # "body"
      /\ req' = NoRequest /\ asked' = asked + 1 /\ peer' = peer /\ sent' = sent
      /\ cause' = cause
  BY Operations DEF OnMessage, HasBytes, Waiting
<1>2. Idle(conn) /\ ~HasWrite(Tail(ready)) /\ Fed(conn, FALSE)
  BY <1>1, ReadTaken
<1>3. FALSE \in BOOLEAN /\ TRUE \in BOOLEAN /\ (FALSE <=> HasWrite(Tail(ready)))
  BY <1>2
<1>4. PICK r \in Requests, more \in BOOLEAN :
        \E c \in Handle(conn, r) :
          /\ Feed(c, more)
          /\ held' = IF LeftForLater(c, r) THEN held + 1 ELSE held
  <2>1. phase = "body" => req \in Requests
    BY DEF ClientInStep
  <2>. QED  BY <2>1 DEF OnMessage
<1>5. PICK c \in Handle(conn, r) :
         /\ Feed(c, more)
         /\ held' = IF LeftForLater(c, r) THEN held + 1 ELSE held
  BY <1>4
<1>14. Becomes(ReadDone(c, TRUE), Tail(ready)) /\ Waiting'
  BY <1>5, FeedIs
<1>6. /\ c \in ObjectType /\ Fed(c, FALSE)
      /\ c.writes = <<>> \/ c.writes = <<"answer">>
      /\ ~conn.open => ~c.open
      /\ conn.open /\ ~Later /\ r.known /\ ~Upgrades(r) =>
            c.open /\ c.writes = <<"answer">> /\ ~c.after
  BY <1>2, <1>5, HandleIs
<1>7. /\ Parts' /\ conn'.writes = (IF c.open THEN c.writes ELSE <<>>)
      /\ conn'.open <=> c.open
      /\ conn'.later <=> c.open /\ ~c.close /\ c.after
      /\ ~conn'.exists => ~c.writing
      /\ c.after /\ conn'.exists => conn'.later
  BY <1>1, <1>3, <1>6, <1>14, ReadDoneKeeps
<1>8. <<"continue">> # <<"answer">> /\ <<>> # <<"answer">> /\ <<>> # <<"continue">>
  OBVIOUS
<1>9. asked \in Nat /\ MaxRequests \in Nat /\ sent \in Nat /\ sent <= asked
  BY DEF Bounds
<1>10. ClientInStep'
  BY <1>1, <1>6, <1>7, <1>8, <1>9 DEF ClientInStep
<1>11. sent' <= asked'
  BY <1>1, <1>9
<1>15. held' \in {0, 1} /\ (held' = 1 /\ conn'.exists => conn'.later)
  <2>1. held = 0
    BY <1>1, <1>2 DEF Idle
  <2>2. LeftForLater(c, r) => c.after
    BY <1>6 DEF LeftForLater, Fed
  <2>3. CASE LeftForLater(c, r)
    BY <1>5, <1>7, <2>1, <2>2, <2>3
  <2>4. CASE ~LeftForLater(c, r)
    BY <1>5, <2>1, <2>4
  <2>. QED  BY <2>3, <2>4
<1>12. PatientInStep'
  BY <1>7, <1>10, <1>11, <1>15, IInvNext
<1>13. ASSUME AnswersAtOnce, AnswersInStep
       PROVE  AnswersInStep'
  <2>1. ~Later /\ r.known /\ ~Upgrades(r)
    BY <1>13 DEF AnswersAtOnce
  <2>2. CASE conn.open
    <3>1. c.open /\ c.writes = <<"answer">> /\ ~c.after /\ c.writing
      BY <1>6, <1>8, <2>1, <2>2 DEF Fed
    <3>2. asked = sent
      BY <1>1, <1>2, <1>8, <1>13, <2>2 DEF AnswersInStep, Idle, Waiting
    <3>3. asked' = sent' + 1
      BY <1>1, <3>2
    <3>4. /\ conn'.open /\ conn'.writes = <<"answer">> /\ ~conn'.later /\ conn'.exists
      BY <1>7, <3>1
    <3>. QED  BY <3>3, <3>4 DEF AnswersInStep, AnsweredBeforeDeleted
  <2>3. CASE ~conn.open
    <3>1. cause' # "none" /\ ~conn'.open /\ ~conn'.later
      BY <1>1, <1>6, <1>7, <1>13, <2>3 DEF AnswersInStep, Waiting
    <3>. QED  BY <3>1 DEF AnswersInStep, AnsweredBeforeDeleted
  <2>. QED  BY <2>2, <2>3
<1>. QED  BY <1>12, <1>13 DEF Keeps

LEMMA OnReadErrorKeeps ==
    ASSUME Bounds, WaitsInStep, patient', OnReadError
    PROVE  Keeps
<1>. USE IInvIs
<1>1. /\ conn.exists /\ ready # <<>> /\ Head(ready).op = "read" /\ phase' = phase
      /\ req' = req /\ peer' = peer /\ asked' = asked /\ sent' = sent
      /\ Becomes(ReadDone(conn, FALSE), Tail(ready))
      /\ cause' # "none" /\ held' = held
  BY DEF OnReadError, Waiting, Behind
<1>9. Waiting'
  BY DEF OnReadError, Waiting
<1>2. PICK w \in BOOLEAN : w <=> HasWrite(Tail(ready))
  OBVIOUS
<1>3. Fed(conn, w) /\ ~conn.close /\ held = 0 /\ conn \in ObjectType /\ FALSE \in BOOLEAN
  BY <1>1, <1>2, ReadTaken DEF Parts
<1>4. Parts' /\ conn'.writes = <<>> /\ ~conn'.open /\ ~conn'.later
  BY <1>1, <1>2, <1>3, <1>9, ReadDoneKeeps
<1>5. <<>> # <<"answer">> /\ <<>> # <<"continue">>
  OBVIOUS
<1>6. ClientInStep'
  BY <1>1, <1>4, <1>5 DEF ClientInStep
<1>7. PatientInStep'
  BY <1>1, <1>3, <1>4, <1>6, IInvNext
<1>8. AnswersInStep'
  BY <1>1, <1>4 DEF AnswersInStep, AnsweredBeforeDeleted
<1>. QED  BY <1>7, <1>8 DEF Keeps

LEMMA FirstBytes ==
    ASSUME NEW q, InOrder(q), ~HasRead(q)
    PROVE  q # <<>> => q[1] # Read("bytes")
BY TailQueue, Operations

LEMMA OnWriteKeeps ==
    ASSUME Bounds, WaitsInStep, patient', OnWrite
    PROVE  Keeps
<1>. USE IInvIs
<1>. DEFINE q == Tail(ready)
<1>1. /\ conn.exists /\ ready # <<>> /\ Head(ready).op = "write" /\ phase' = phase
      /\ req' = req /\ peer' = peer /\ asked' = asked /\ sent' = sent /\ cause' = cause
      /\ held' = held /\ Becomes(WriteDone(conn, Head(ready).what = "ok"), q)
  BY DEF OnWrite
<1>20. Waiting'
  BY DEF OnWrite, Waiting
<1>2. Together(conn, ready)
  BY TogetherNow
<1>3. /\ InOrder(q) /\ Head(ready) = ready[1] /\ HasWrite(ready) /\ ~HasWrite(q)
      /\ HasRead(q) <=> HasRead(ready)
      /\ ~HasWrote(q)
      /\ ready[1] = Write("ok") => HasWrote(ready)
      /\ ready[1] \in Completion
  BY <1>1, <1>2, TailQueue DEF Together
<1>4. PICK r \in BOOLEAN : r <=> HasRead(ready)
  OBVIOUS
<1>5. PICK k \in BOOLEAN : k <=> HasWrote(ready)
  OBVIOUS
<1>6. PICK ok \in BOOLEAN : ok <=> Head(ready).what = "ok"
  OBVIOUS
<1>7. ok => k
  <2>1. ready[1].op = "write" /\ ready[1].what = "ok" => ready[1] = Write("ok")
    BY <1>3 DEF Completion, Write
  <2>. QED  BY <1>1, <1>3, <1>5, <1>6, <2>1
<1>8. InStep(conn, r, TRUE, k) /\ conn \in ObjectType /\ conn.aborted = <<>>
  BY <1>2, <1>3, <1>4, <1>5 DEF Together, InStep, Lives, OneWrite
<1>. DEFINE d == WriteDone(conn, ok)
<1>9. /\ d \in ObjectType /\ d.aborted = <<>> /\ InStep(d, r, FALSE, FALSE)
      /\ ~d.writing /\ d.writes = <<>> /\ conn.writes = <<>> /\ (d.later <=> conn.later)
      /\ ~conn.open => ~d.open
      /\ d.exists => (d.open <=> conn.open)
  BY <1>1, <1>7, <1>8, WriteDoneIs
<1>10. Becomes(d, q)
  <2>1. ok = (Head(ready).what = "ok")
    BY <1>6
  <2>. QED  BY <1>1, <2>1
<1>. HIDE DEF d, q
<1>11. /\ d.aborted = Dropped(FALSE, FALSE) /\ FALSE \in BOOLEAN
       /\ (r <=> HasRead(q) \/ FALSE) /\ (FALSE <=> HasWrite(q) \/ FALSE)
       /\ (FALSE <=> HasWrote(q))
  BY <1>3, <1>4, <1>9, DroppedIs
<1>12. /\ Parts' /\ conn'.writes = d.writes /\ (conn'.exists <=> d.exists)
       /\ (conn'.open <=> d.open) /\ (conn'.later <=> d.later)
  BY <1>3, <1>9, <1>10, <1>11, <1>20, BecomesIs
<1>13. <<>> # <<"answer">> /\ <<>> # <<"continue">>
  OBVIOUS
<1>14. ClientInStep'
  BY <1>1, <1>9, <1>12, <1>13 DEF ClientInStep
<1>21. held' = 0
  <2>1. ~conn.later
    BY <1>1, <1>8 DEF InStep, Lives
  <2>. QED  BY <1>1, <2>1
<1>15. PatientInStep'
  BY <1>1, <1>12, <1>14, <1>21, NothingHeld
<1>16. AnswersAtOnce /\ AnswersInStep => AnswersInStep'
  BY <1>1, <1>9, <1>12, <1>13 DEF AnswersInStep, AnsweredBeforeDeleted, Waiting
<1>. QED  BY <1>15, <1>16 DEF Keeps

LEMMA ExpireKeeps ==
    ASSUME Bounds, WaitsInStep, patient', Expire
    PROVE  Keeps
<1>. USE IInvIs
<1>1. /\ conn.exists /\ conn.armed /\ phase' = phase /\ req' = req /\ peer' = peer
      /\ asked' = asked /\ sent' = sent
      /\ cause' # "none" /\ held' = held
  BY DEF Expire
<1>20. Waiting'
  BY DEF Expire, Waiting
<1>2. Together(conn, ready)
  BY TogetherNow
<1>3. Lives(conn, HasRead(ready), HasWrite(ready), HasWrote(ready)) /\ conn.aborted = <<>>
        /\ conn \in ObjectType /\ InOrder(ready)
        /\ (ready # <<>> /\ ready[1] = Read("bytes") => ~conn.writing)
  BY <1>1, <1>2 DEF Together, InStep
<1>4. conn.open /\ conn.reading /\ ~conn.later /\ ~conn.close
  BY <1>1, <1>3 DEF Lives
<1>. DEFINE c == CancelDeadline(conn)
            d == CloseSocket(c)
<1>5. Becomes(d, ready)
  BY <1>4 DEF Expire
<1>6. /\ c \in ObjectType /\ ~c.armed /\ (c.exists <=> conn.exists)
      /\ (c.open <=> conn.open) /\ (c.reading <=> conn.reading)
      /\ (c.writing <=> conn.writing) /\ (c.close <=> conn.close)
      /\ (c.after <=> conn.after) /\ (c.later <=> conn.later)
      /\ (c.completed <=> conn.completed) /\ (c.hooked <=> conn.hooked)
      /\ (c.read <=> conn.read) /\ c.writes = conn.writes /\ c.aborted = conn.aborted
  BY <1>3, CancelDeadlineIs
<1>. HIDE DEF c
<1>7. PICK r \in BOOLEAN : r <=> c.read
  OBVIOUS
<1>8. PICK w \in BOOLEAN : w <=> c.writes # <<>>
  OBVIOUS
<1>9. /\ d \in ObjectType /\ ~d.open /\ ~d.read /\ d.writes = <<>>
      /\ d.aborted = Dropped(r, w) /\ (d.exists <=> c.exists)
      /\ (d.reading <=> c.reading) /\ (d.writing <=> c.writing)
      /\ (d.close <=> c.close) /\ (d.after <=> c.after) /\ (d.later <=> c.later)
      /\ (d.completed <=> c.completed) /\ (d.hooked <=> c.hooked) /\ (d.armed <=> c.armed)
  <2>1. c.aborted = <<>> /\ c \in ObjectType /\ OneWrite(c)
    BY <1>3, <1>6 DEF Lives, OneWrite
  <2>2. /\ d \in ObjectType /\ d.open = FALSE /\ d.read = FALSE /\ d.writes = <<>>
        /\ d.aborted = Dropped(r, w) /\ d.exists = c.exists /\ d.reading = c.reading
        /\ d.writing = c.writing /\ d.close = c.close /\ d.after = c.after
        /\ d.later = c.later /\ d.completed = c.completed /\ d.hooked = c.hooked
        /\ d.armed = c.armed
    BY <1>7, <1>8, <2>1, CloseSocketIs
  <2>. HIDE DEF d
  <2>. QED  BY <2>2
<1>. HIDE DEF d
<1>10. PICK x \in BOOLEAN : x <=> HasRead(ready) \/ r
  OBVIOUS
<1>11. PICK y \in BOOLEAN : y <=> HasWrite(ready) \/ w
  OBVIOUS
<1>12. PICK k \in BOOLEAN : k <=> HasWrote(ready)
  OBVIOUS
<1>13. InStep(d, x, y, k) /\ (r => ~HasRead(ready)) /\ (w => ~HasWrite(ready))
  <2>1. /\ (r <=> conn.read) /\ (w <=> conn.writes # <<>>)
        /\ (d.exists <=> conn.exists) /\ d.reading /\ (d.writing <=> conn.writing) /\ ~d.close
        /\ (d.after <=> conn.after) /\ ~d.later /\ (d.completed <=> conn.completed)
        /\ (d.hooked <=> conn.hooked) /\ ~d.armed /\ ~d.open /\ ~d.read /\ d.writes = <<>>
    BY <1>4, <1>6, <1>7, <1>8, <1>9
  <2>2. /\ (conn.read => ~HasRead(ready)) /\ (conn.writes # <<>> => ~HasWrite(ready))
        /\ (conn.completed => conn.writing) /\ ~conn.after /\ ~conn.hooked
        /\ (conn.read \/ HasRead(ready))
        /\ (conn.writing <=> conn.writes # <<>> \/ HasWrite(ready))
    BY <1>3, <1>4 DEF Lives
  <2>3. x /\ (y <=> conn.writing)
    BY <1>10, <1>11, <2>1, <2>2
  <2>4. InStep(d, x, y, k)
    BY <1>1, <2>1, <2>2, <2>3 DEF InStep, Lives, OneWrite
  <2>. QED  BY <2>1, <2>2, <2>4
<1>14. ready # <<>> /\ ready[1] = Read("bytes") => ~d.writing
  BY <1>3, <1>6, <1>9
<1>15. /\ Parts' /\ conn'.writes = <<>> /\ ~conn'.open /\ ~conn'.later
  BY <1>3, <1>4, <1>5, <1>6, <1>9, <1>10, <1>11, <1>12, <1>13, <1>14, <1>20, BecomesIs
<1>16. <<>> # <<"answer">> /\ <<>> # <<"continue">>
  OBVIOUS
<1>17. ClientInStep'
  BY <1>1, <1>15, <1>16 DEF ClientInStep
<1>18. PatientInStep'
  BY <1>1, <1>4, <1>15, <1>17, IInvNext
<1>19. AnswersInStep'
  BY <1>1, <1>15 DEF AnswersInStep, AnsweredBeforeDeleted
<1>. QED  BY <1>18, <1>19 DEF Keeps

LEMMA AnswerLaterKeeps ==
    ASSUME Bounds, WaitsInStep, patient', AnswerLater
    PROVE  Keeps
<1>. USE IInvIs
<1>1. /\ conn.exists /\ Later /\ held = 1 /\ held' = 0
      /\ phase' = phase /\ req' = req /\ peer' = peer /\ asked' = asked /\ sent' = sent
      /\ cause' = cause
  BY DEF AnswerLater, Held
<1>20. Waiting'
  BY DEF AnswerLater, Waiting
<1>2. Together(conn, ready)
  BY TogetherNow
<1>3. Lives(conn, HasRead(ready), HasWrite(ready), HasWrote(ready)) /\ conn.aborted = <<>>
        /\ conn \in ObjectType /\ InOrder(ready)
  BY <1>1, <1>2 DEF Together, InStep
<1>4. /\ conn.after /\ conn.hooked /\ ~conn.completed
      /\ conn.later /\ conn.open /\ conn.reading /\ ~conn.close /\ conn.writes = <<>>
      /\ ~HasRead(ready) /\ ~HasWrite(ready)
  BY <1>1, <1>3 DEF Lives
<1>. DEFINE z == [conn EXCEPT !.completed = FALSE]
<1>5. /\ z \in ObjectType /\ z.completed = FALSE /\ z.exists = conn.exists
      /\ z.open = conn.open /\ z.reading = conn.reading
      /\ z.writing = conn.writing /\ z.close = conn.close
      /\ z.after = conn.after /\ z.later = conn.later
      /\ z.hooked = conn.hooked /\ z.armed = conn.armed /\ z.read = conn.read
      /\ z.writes = conn.writes /\ z.aborted = conn.aborted
  <2>1. conn \in ObjectType /\ FALSE \in BOOLEAN
    BY <1>3
  <2>. QED  BY ONLY <2>1, CompletedIs
<1>21. PICK d : Becomes(d, ready) /\ Answered(conn, d) /\ d.completed
  <2>1. Answered(conn, End(conn)) /\ End(conn).completed
    BY <1>3, <1>4, EndIs
  <2>2. Answered(conn, End(z)) /\ End(z).completed
    <3>1. z \in ObjectType /\ z.writes = <<>> /\ ~z.completed /\ z.hooked
      BY <1>4, <1>5
    <3>2. Answered(z, End(z)) /\ End(z).completed
      BY ONLY <3>1, EndIs
    <3>. HIDE DEF z
    <3>. QED  BY <1>5, <3>2 DEF Answered
  <2>3. Becomes(End(conn), ready) \/ Becomes(End(z), ready)
    BY DEF AnswerLater, EndAnew
  <2>. HIDE DEF z
  <2>. QED  BY <2>1, <2>2, <2>3
<1>7. PICK k \in BOOLEAN : k <=> HasWrote(ready)
  OBVIOUS
<1>8. /\ d \in ObjectType /\ d.aborted = <<>> /\ d.writes = <<"answer">> /\ d.exists /\ ~d.later
  BY <1>1, <1>3, <1>4, <1>21 DEF Answered
<1>9. <<"answer">> # <<>> /\ <<"answer">> # <<"continue">>
  OBVIOUS
<1>10. InStep(d, FALSE, FALSE, k)
  BY <1>1, <1>3, <1>4, <1>8, <1>9, <1>21 DEF InStep, Lives, OneWrite, Answered
<1>11. /\ d.aborted = Dropped(FALSE, FALSE) /\ FALSE \in BOOLEAN
       /\ (FALSE <=> HasRead(ready) \/ FALSE) /\ (FALSE <=> HasWrite(ready) \/ FALSE)
       /\ (ready # <<>> => ready[1] # Read("bytes"))
  BY <1>3, <1>4, <1>8, DroppedIs, FirstBytes
<1>12. Parts' /\ conn'.writes = <<"answer">> /\ ~conn'.later
  BY <1>3, <1>7, <1>8, <1>10, <1>11, <1>20, <1>21, BecomesIs
<1>13. ClientInStep'
  BY <1>1, <1>4, <1>9, <1>12 DEF ClientInStep
<1>14. PatientInStep'
  BY <1>1, <1>12, <1>13, IInvNext
<1>. QED  BY <1>1, <1>14 DEF Keeps, AnswersAtOnce

LEMMA SocketWritesKeeps ==
    ASSUME Bounds, WaitsInStep, patient', SocketWrites
    PROVE  Keeps
<1>. USE IInvIs
<1>1. /\ conn.exists /\ conn.writes # <<>> /\ ~Queued("read") /\ phase' = phase /\ req' = req
      /\ peer' = peer /\ asked' = asked /\ cause' = cause /\ held' = held
      /\ sent' = IF Head(conn.writes) = "answer" THEN sent + 1 ELSE sent
  BY DEF SocketWrites, Waiting
<1>20. Waiting'
  BY DEF SocketWrites, Waiting
<1>2. PICK e \in {Write("ok"), Write("failed")} : ready' = Append(ready, e)
  BY DEF SocketWrites
<1>3. Together(conn, ready)
  BY TogetherNow
<1>4. Lives(conn, HasRead(ready), HasWrite(ready), HasWrote(ready)) /\ conn.aborted = <<>>
        /\ conn \in ObjectType /\ InOrder(ready)
  BY <1>1, <1>3 DEF Together, InStep
<1>5. ~HasRead(ready) /\ ~HasWrite(ready) /\ conn.open /\ conn.writing /\ ~conn.later
        /\ (conn.reading \/ conn.close)
  <2>1. ~HasRead(ready)
    BY <1>1 DEF HasRead, Queued
  <2>. QED  BY <1>1, <1>4, <2>1 DEF Lives
<1>6. conn.writes = <<"continue">> \/ conn.writes = <<"answer">>
  BY <1>1, <1>4 DEF Lives, OneWrite
<1>7. Tail(conn.writes) = <<>> /\ (Head(conn.writes) = "answer" <=> conn.writes = <<"answer">>)
  <2>1. <<"continue">> # <<"answer">>
    OBVIOUS
  <2>2. "continue" # "answer"
    OBVIOUS
  <2>3. ASSUME NEW u \in STRING, conn.writes = <<u>>
        PROVE  Head(conn.writes) = u /\ Tail(conn.writes) = <<>>
    <3>1. <<u>> \in Seq(STRING) /\ Len(<<u>>) = 1 /\ <<u>>[1] = u
      OBVIOUS
    <3>. QED  BY <2>3, <3>1, OfLengthOne
  <2>4. CASE conn.writes = <<"continue">>
    <3>1. Head(conn.writes) = "continue" /\ Tail(conn.writes) = <<>>
      BY <2>3, <2>4
    <3>. QED  BY <2>1, <2>2, <2>4, <3>1
  <2>5. CASE conn.writes = <<"answer">>
    <3>1. Head(conn.writes) = "answer" /\ Tail(conn.writes) = <<>>
      BY <2>3, <2>5
    <3>. QED  BY <2>5, <3>1
  <2>. QED  BY <1>6, <2>4, <2>5
<1>. DEFINE d == [conn EXCEPT !.writes = <<>>]
<1>8. conn' = d
  <2>1. conn' = [conn EXCEPT !.writes = Tail(conn.writes)]
    BY <1>4 DEF SocketWrites, ObjectType
  <2>. QED  BY <1>7, <2>1
<1>9. /\ d \in ObjectType /\ d.writes = <<>> /\ (d.exists <=> conn.exists)
      /\ (d.open <=> conn.open) /\ (d.reading <=> conn.reading) /\ (d.writing <=> conn.writing)
      /\ (d.close <=> conn.close) /\ (d.after <=> conn.after) /\ (d.later <=> conn.later)
      /\ (d.completed <=> conn.completed) /\ (d.hooked <=> conn.hooked)
      /\ (d.armed <=> conn.armed) /\ (d.read <=> conn.read) /\ d.aborted = conn.aborted
  <2>1. conn \in ObjectType /\ <<>> \in Seq(Writes)
    BY <1>4
  <2>2. /\ d \in ObjectType /\ d.writes = <<>> /\ d.exists = conn.exists
        /\ d.open = conn.open /\ d.reading = conn.reading
        /\ d.writing = conn.writing /\ d.close = conn.close
        /\ d.after = conn.after /\ d.later = conn.later
        /\ d.completed = conn.completed /\ d.hooked = conn.hooked
        /\ d.armed = conn.armed /\ d.read = conn.read
        /\ d.aborted = conn.aborted
    BY ONLY <2>1, TakesWrite
  <2>. HIDE DEF d
  <2>. QED  BY <2>2
<1>. HIDE DEF d
<1>10. e \in Completion /\ e.op = "write" /\ e # Read("bytes")
  BY <1>2, Operations DEF Read, Write
<1>11. /\ InOrder(ready') /\ ready' # <<>> /\ ready'[1] = IF ready = <<>> THEN e ELSE ready[1]
       /\ ~HasRead(ready') /\ HasWrite(ready')
  <2>1. e.op # "read"
    BY <1>10
  <2>. QED  BY <1>2, <1>4, <1>5, <1>10, <2>1, AppendQueue
<1>12. ready'[1] # Read("bytes")
  BY <1>11, FirstBytes
<1>13. InStep(d, HasRead(ready'), HasWrite(ready'), HasWrote(ready'))
  BY <1>1, <1>4, <1>5, <1>9, <1>11 DEF InStep, Lives, OneWrite
<1>14. Parts'
  <2>1. Together(conn', ready')
    BY <1>4, <1>8, <1>9, <1>11, <1>12, <1>13 DEF Together
  <2>. QED  BY <1>20, <2>1, TogetherNext
<1>15. <<>> # <<"answer">> /\ <<>> # <<"continue">>
  OBVIOUS
<1>16. ClientInStep'
  BY <1>1, <1>5, <1>8, <1>9, <1>15 DEF ClientInStep
<1>17. sent' <= asked'
  BY <1>1, <1>7 DEF ClientInStep, Bounds
<1>18. PatientInStep'
  <2>1. held' = 0
    BY <1>1, <1>5
  <2>. QED  BY <1>14, <1>16, <1>17, <2>1, NothingHeld
<1>19. AnswersAtOnce /\ AnswersInStep => AnswersInStep'
  BY <1>1, <1>5, <1>6, <1>7, <1>8, <1>9, <1>15 DEF AnswersInStep, AnsweredBeforeDeleted, Waiting
<1>. QED  BY <1>18, <1>19 DEF Keeps

LEMMA SocketReadsKeeps ==
    ASSUME Bounds, WaitsInStep, patient', SocketReads
    PROVE  Keeps
<1>. USE IInvIs
<1>1. /\ conn.exists /\ conn.read /\ phase' = phase /\ req' = req /\ peer' = peer
      /\ asked' = asked /\ cause' = cause /\ sent' = sent
      /\ conn' = [conn EXCEPT !.read = FALSE] /\ held' = held
  BY DEF SocketReads
<1>20. Waiting'
  BY DEF SocketReads, Waiting
<1>2. PICK e \in {Read("bytes"), Read("eof")} :
        ready' = Append(ready, e) /\ (e = Read("bytes") => ~Waits)
  BY Operations DEF SocketReads
<1>3. Together(conn, ready)
  BY TogetherNow
<1>4. Lives(conn, HasRead(ready), HasWrite(ready), HasWrote(ready)) /\ conn.aborted = <<>>
        /\ conn \in ObjectType /\ InOrder(ready)
  BY <1>1, <1>3 DEF Together, InStep
<1>5. ~HasRead(ready) /\ conn.reading /\ ~conn.later /\ conn.open
  BY <1>1, <1>4 DEF Lives
<1>. DEFINE d == [conn EXCEPT !.read = FALSE]
<1>6. /\ d \in ObjectType /\ ~d.read /\ (d.exists <=> conn.exists)
      /\ (d.open <=> conn.open) /\ (d.reading <=> conn.reading) /\ (d.writing <=> conn.writing)
      /\ (d.close <=> conn.close) /\ (d.after <=> conn.after) /\ (d.later <=> conn.later)
      /\ (d.completed <=> conn.completed) /\ (d.hooked <=> conn.hooked)
      /\ (d.armed <=> conn.armed) /\ d.writes = conn.writes /\ d.aborted = conn.aborted
  BY <1>4, TakesRead
<1>7. conn' = d
  BY <1>1
<1>. HIDE DEF d
<1>8. e \in Completion /\ e.op = "read" /\ e # Write("ok")
  BY <1>2, Operations DEF Read, Write
<1>9. /\ InOrder(ready') /\ ready' # <<>> /\ ready'[1] = IF ready = <<>> THEN e ELSE ready[1]
      /\ HasRead(ready') /\ (HasWrite(ready') <=> HasWrite(ready))
      /\ (HasWrote(ready') <=> HasWrote(ready))
  <2>1. e.op # "write"
    BY <1>8
  <2>. QED  BY <1>2, <1>4, <1>5, <1>8, <2>1, AppendQueue
<1>10. InStep(d, HasRead(ready'), HasWrite(ready'), HasWrote(ready'))
  BY <1>1, <1>4, <1>5, <1>6, <1>9 DEF InStep, Lives, OneWrite
<1>11. ready'[1] = Read("bytes") => ~d.writing
  <2>1. ASSUME ready'[1] = Read("bytes")
        PROVE  ~conn.writing
    <3>1. ready = <<>> /\ ~Waits
      BY <1>2, <1>4, <1>5, <1>9, <2>1, FirstBytes
    <3>2. conn.writes = <<>>
      <4>1. conn.writes \in {<<>>, <<"continue">>, <<"answer">>}
        BY <1>4 DEF Lives, OneWrite
      <4>2. <<"continue">> # <<>>
        OBVIOUS
      <4>3. conn.writes # <<"answer">>
        BY <3>1 DEF ClientInStep, Waits
      <4>4. conn.writes # <<"continue">>
        BY <3>1, <4>2 DEF ClientInStep, Waits
      <4>. QED  BY <4>1, <4>3, <4>4
    <3>3. ~HasWrite(ready)
      BY <1>4, <3>1, EmptyQueue
    <3>. QED  BY <1>4, <3>2, <3>3 DEF Lives
  <2>. QED  BY <1>6, <2>1
<1>12. Parts'
  <2>1. Together(conn', ready')
    BY <1>4, <1>6, <1>7, <1>9, <1>10, <1>11 DEF Together
  <2>. QED  BY <1>20, <2>1, TogetherNext
<1>13. ClientInStep'
  BY <1>1, <1>5, <1>6, <1>7 DEF ClientInStep
<1>14. PatientInStep'
  <2>1. held' = 0 /\ sent' <= asked'
    BY <1>1, <1>5
  <2>. QED  BY <1>12, <1>13, <2>1, NothingHeld
<1>15. AnswersAtOnce /\ AnswersInStep => AnswersInStep'
  BY <1>1, <1>6, <1>7 DEF AnswersInStep, AnsweredBeforeDeleted, Waiting
<1>. QED  BY <1>14, <1>15 DEF Keeps

LEMMA IdleKeeps ==
    ASSUME WaitsInStep, patient', PeerLeaves \/ UNCHANGED connVars
    PROVE  Keeps
<1>. USE IInvIs
<1>1. /\ conn' = conn /\ ready' = ready /\ phase' = phase /\ req' = req /\ asked' = asked
      /\ sent' = sent /\ cause' = cause /\ held' = held
      /\ patient' = patient /\ feeding' = feeding
  BY DEF PeerLeaves, connVars
<1>2. Parts' /\ ClientInStep'
  BY <1>1 DEF Parts, Waiting, OneWrite, NothingOutlives, CompletionsInStep, ObjectInStep, ClientInStep, Queued,
     Wrote
<1>3. PatientInStep'
  BY <1>1, <1>2, IInvNext DEF WaitsInStep, PatientInStep, OneAtATime
<1>4. AnswersInStep => AnswersInStep'
  BY <1>1 DEF AnswersInStep, AnsweredBeforeDeleted
<1>. QED  BY <1>3, <1>4 DEF Keeps

-----------------------------------------------------------------------------
(* The reads of a connection, whatever its client does                     *)

(* One read at most is queued.                                             *)
OneRead(q) ==
    \A i, j \in DOMAIN q : q[i].op = "read" /\ q[j].op = "read" => i = j

(* The object, with r telling whether a read is queued, and f whether the  *)
(* parser is being fed.                                                    *)
Timed(c, r, f) ==
    /\ c.read => ~r /\ ~c.later /\ ~f /\ c.open
    /\ r => ~c.later /\ ~f
    /\ f => c.exists /\ ~c.later
    /\ c.armed => c.exists /\ c.open /\ c.reading /\ ~c.later /\ ~c.close
    /\ c.exists => /\ c.reading <=> c.read \/ r \/ c.later \/ f
                   /\ c.open /\ c.reading /\ ~c.later /\ ~f => c.armed
                   /\ c.close /\ ~f => ~c.reading
                   /\ c.after => c.later \/ ~c.reading \/ (f /\ ~c.armed)
    /\ ~c.exists => ~c.reading /\ ~c.read /\ ~r

Sound(c, r, f) == c \in ObjectType /\ c.aborted = <<>> /\ Timed(c, r, f)

LEMMA ReadsOfTail ==
    ASSUME NEW q \in Seq(Completion), q # <<>>, OneRead(q)
    PROVE  /\ Tail(q) \in Seq(Completion) /\ OneRead(Tail(q)) /\ Head(q) \in Completion
           /\ Head(q).op = "read" => HasRead(q) /\ ~HasRead(Tail(q))
           /\ Head(q).op # "read" => (HasRead(Tail(q)) <=> HasRead(q))
<1>1. /\ Tail(q) \in Seq(Completion) /\ Head(q) = q[1] /\ Len(q) \in Nat \ {0}
      /\ Head(q) \in Completion
  BY EmptySeq, HeadTailProperties
<1>2. /\ DOMAIN q = 1 .. Len(q) /\ DOMAIN Tail(q) = 1 .. (Len(q) - 1)
      /\ \A i \in 1 .. (Len(q) - 1) : Tail(q)[i] = q[i + 1]
  BY <1>1
<1>3. 1 \in DOMAIN q /\ \A i \in DOMAIN Tail(q) : i + 1 \in DOMAIN q /\ i + 1 # 1
  BY <1>1, <1>2
<1>4. OneRead(Tail(q))
  <2>1. ASSUME NEW i \in DOMAIN Tail(q), NEW j \in DOMAIN Tail(q),
               Tail(q)[i].op = "read", Tail(q)[j].op = "read"
        PROVE  i = j
    <3>1. i + 1 = j + 1
      BY <1>2, <1>3, <2>1 DEF OneRead
    <3>. QED  BY <1>1, <1>2, <3>1
  <2>. QED  BY <2>1 DEF OneRead
<1>5. ASSUME q[1].op = "read"
      PROVE  HasRead(q) /\ ~HasRead(Tail(q))
  <2>1. ASSUME NEW i \in DOMAIN Tail(q), Tail(q)[i].op = "read"
        PROVE  FALSE
    BY <1>2, <1>3, <1>5, <2>1 DEF OneRead
  <2>. QED  BY <1>3, <1>5, <2>1 DEF HasRead
<1>6. ASSUME q[1].op # "read"
      PROVE  HasRead(Tail(q)) <=> HasRead(q)
  <2>1. ASSUME NEW i \in DOMAIN q, q[i].op = "read"
        PROVE  HasRead(Tail(q))
    <3>1. i - 1 \in DOMAIN Tail(q) /\ (i - 1) + 1 = i
      BY <1>1, <1>2, <1>6, <2>1
    <3>. QED  BY <1>2, <2>1, <3>1 DEF HasRead
  <2>2. ASSUME NEW i \in DOMAIN Tail(q), Tail(q)[i].op = "read"
        PROVE  HasRead(q)
    BY <1>2, <1>3, <2>2 DEF HasRead
  <2>. QED  BY <2>1, <2>2 DEF HasRead
<1>. QED  BY <1>1, <1>4, <1>5, <1>6

LEMMA ReadsOfJoin ==
    ASSUME NEW p \in Seq(Completion), NEW q \in Seq(Completion),
           OneRead(p), OneRead(q), ~HasRead(p) \/ ~HasRead(q)
    PROVE  /\ p \o q \in Seq(Completion) /\ OneRead(p \o q)
           /\ HasRead(p \o q) <=> HasRead(p) \/ HasRead(q)
<1>. DEFINE s == p \o q
            n == Len(p)
<1>1. /\ s \in Seq(Completion) /\ n \in Nat /\ Len(q) \in Nat
      /\ DOMAIN p = 1 .. n /\ DOMAIN q = 1 .. Len(q) /\ DOMAIN s = 1 .. (n + Len(q))
      /\ \A i \in 1 .. (n + Len(q)) : s[i] = IF i <= n THEN p[i] ELSE q[i - n]
  OBVIOUS
<1>. HIDE DEF s, n
<1>2. ASSUME NEW i \in DOMAIN s, s[i].op = "read"
      PROVE  \/ i \in DOMAIN p /\ p[i].op = "read"
             \/ i - n \in DOMAIN q /\ q[i - n].op = "read" /\ i > n
  BY <1>1, <1>2
<1>3. OneRead(s)
  <2>1. ASSUME NEW i \in DOMAIN s, NEW j \in DOMAIN s, s[i].op = "read", s[j].op = "read"
        PROVE  i = j
    <3>1. CASE i \in DOMAIN p /\ p[i].op = "read"
      <4>1. ~HasRead(q)
        BY <3>1 DEF HasRead
      <4>2. j \in DOMAIN p /\ p[j].op = "read"
        BY <1>2, <2>1, <4>1 DEF HasRead
      <4>. QED  BY <3>1, <4>2 DEF OneRead
    <3>2. CASE i - n \in DOMAIN q /\ q[i - n].op = "read" /\ i > n
      <4>1. ~HasRead(p)
        BY <3>2 DEF HasRead
      <4>2. j - n \in DOMAIN q /\ q[j - n].op = "read"
        BY <1>2, <2>1, <4>1 DEF HasRead
      <4>3. i - n = j - n
        BY <3>2, <4>2 DEF OneRead
      <4>. QED  BY <1>1, <4>3
    <3>. QED  BY <1>2, <2>1, <3>1, <3>2
  <2>. QED  BY <2>1 DEF OneRead
<1>4. HasRead(s) => HasRead(p) \/ HasRead(q)
  BY <1>2 DEF HasRead
<1>5. HasRead(p) => HasRead(s)
  <2>1. ASSUME NEW i \in DOMAIN p, p[i].op = "read"
        PROVE  HasRead(s)
    <3>1. i \in DOMAIN s /\ s[i] = p[i]
      BY <1>1
    <3>. QED  BY <2>1, <3>1 DEF HasRead
  <2>. QED  BY <2>1 DEF HasRead
<1>6. HasRead(q) => HasRead(s)
  <2>1. ASSUME NEW i \in DOMAIN q, q[i].op = "read"
        PROVE  HasRead(s)
    <3>1. i + n \in DOMAIN s /\ s[i + n] = q[(i + n) - n] /\ (i + n) - n = i
      BY <1>1
    <3>. QED  BY <2>1, <3>1 DEF HasRead
  <2>. QED  BY <2>1 DEF HasRead
<1>. QED  BY <1>1, <1>3, <1>4, <1>5, <1>6 DEF s

LEMMA ReadsOfOne ==
    ASSUME NEW e \in Completion
    PROVE  /\ <<>> \in Seq(Completion) /\ OneRead(<<>>) /\ ~HasRead(<<>>)
           /\ <<e>> \in Seq(Completion) /\ OneRead(<<e>>)
           /\ HasRead(<<e>>) <=> e.op = "read"
<1>1. /\ <<>> \in Seq(Completion) /\ DOMAIN <<>> = {}
      /\ <<e>> \in Seq(Completion) /\ DOMAIN <<e>> = {1}
  BY OneAndTwo
<1>. QED  BY <1>1, Holds DEF OneRead

LEMMA ReadsOfMore ==
    ASSUME NEW q \in Seq(Completion), OneRead(q), NEW e \in Completion,
           e.op = "read" => ~HasRead(q)
    PROVE  /\ Append(q, e) \in Seq(Completion) /\ OneRead(Append(q, e))
           /\ HasRead(Append(q, e)) <=> HasRead(q) \/ e.op = "read"
<1>. DEFINE p == <<e>>
<1>1. p \in Seq(Completion) /\ OneRead(p) /\ (HasRead(p) <=> e.op = "read")
  BY ReadsOfOne
<1>2. Append(q, e) = q \o p
  OBVIOUS
<1>. HIDE DEF p
<1>3. /\ q \o p \in Seq(Completion) /\ OneRead(q \o p)
      /\ HasRead(q \o p) <=> HasRead(q) \/ HasRead(p)
  BY <1>1, ReadsOfJoin
<1>. QED  BY <1>1, <1>2, <1>3

(* The socket drops what it holds: whatever there is of it.                *)
LEMMA SocketCloses ==
    ASSUME NEW c \in ObjectType, c.aborted = <<>>
    PROVE  LET d == CloseSocket(c)
           IN  /\ d \in ObjectType /\ d.open = FALSE /\ d.read = FALSE
               /\ OneRead(d.aborted) /\ (HasRead(d.aborted) <=> c.read)
               /\ d.exists = c.exists /\ d.reading = c.reading /\ d.writing = c.writing
               /\ d.close = c.close /\ d.after = c.after /\ d.later = c.later
               /\ d.completed = c.completed /\ d.hooked = c.hooked /\ d.armed = c.armed
<1>. DEFINE reads == IF c.read THEN <<Read("dropped")>> ELSE <<>>
            dropped == [i \in DOMAIN c.writes |-> Write("dropped")]
            all == reads \o dropped
<1>1. c.writes \in Seq(Writes) /\ c.read \in BOOLEAN /\ <<>> \in Seq(Writes)
  BY DEF ObjectType
<1>2. /\ reads \in Seq(Completion) /\ OneRead(reads)
      /\ HasRead(reads) <=> c.read
  BY <1>1, Operations, ReadsOfOne
<1>3. dropped \in Seq(Completion) /\ OneRead(dropped) /\ ~HasRead(dropped)
  <2>1. DOMAIN c.writes = 1 .. Len(c.writes) /\ Len(c.writes) \in Nat
    BY <1>1
  <2>2. dropped \in Seq(Completion) /\ DOMAIN dropped = DOMAIN c.writes
    BY <2>1, Operations
  <2>3. \A i \in DOMAIN dropped : dropped[i].op # "read"
    BY Operations
  <2>. QED  BY <2>2, <2>3 DEF OneRead, HasRead
<1>. HIDE DEF reads, dropped
<1>4. all \in Seq(Completion) /\ OneRead(all) /\ (HasRead(all) <=> c.read)
  BY <1>2, <1>3, ReadsOfJoin
<1>5. CloseSocket(c) =
        [c EXCEPT !.open = FALSE, !.read = FALSE, !.writes = <<>>, !.aborted = all]
  <2>1. c.aborted \o reads \o dropped = all
    BY <1>2, <1>3
  <2>. QED  BY <2>1 DEF CloseSocket, ObjectType, reads, dropped
<1>. HIDE DEF all
<1>6. \A u \in Seq(Completion) :
        LET d == [c EXCEPT !.open = FALSE, !.read = FALSE, !.writes = <<>>, !.aborted = u]
        IN  /\ d \in ObjectType /\ d.open = FALSE /\ d.read = FALSE
            /\ d.aborted = u /\ d.exists = c.exists /\ d.reading = c.reading
            /\ d.writing = c.writing /\ d.close = c.close /\ d.after = c.after
            /\ d.later = c.later /\ d.completed = c.completed /\ d.hooked = c.hooked
            /\ d.armed = c.armed
  BY <1>1 DEF ObjectType
<1>. DEFINE d == CloseSocket(c)
<1>7. /\ d \in ObjectType /\ d.open = FALSE /\ d.read = FALSE
      /\ d.aborted = all /\ d.exists = c.exists /\ d.reading = c.reading
      /\ d.writing = c.writing /\ d.close = c.close /\ d.after = c.after
      /\ d.later = c.later /\ d.completed = c.completed /\ d.hooked = c.hooked
      /\ d.armed = c.armed
  <2>. DEFINE e(u) == [c EXCEPT !.open = FALSE, !.read = FALSE, !.writes = <<>>, !.aborted = u]
  <2>1. d = e(all)
    BY <1>5
  <2>2. \A u \in Seq(Completion) :
          /\ e(u) \in ObjectType /\ e(u).open = FALSE /\ e(u).read = FALSE
          /\ e(u).aborted = u /\ e(u).exists = c.exists /\ e(u).reading = c.reading
          /\ e(u).writing = c.writing /\ e(u).close = c.close /\ e(u).after = c.after
          /\ e(u).later = c.later /\ e(u).completed = c.completed /\ e(u).hooked = c.hooked
          /\ e(u).armed = c.armed
    BY <1>6
  <2>. HIDE DEF d, e
  <2>. QED  BY <1>4, <2>1, <2>2
<1>. HIDE DEF d
<1>. QED  BY <1>4, <1>7 DEF d

(* d differs from c in what is written and answered only.                  *)
Like(c, d) ==
    /\ d \in ObjectType /\ d.aborted = c.aborted
    /\ d.exists = c.exists /\ d.open = c.open /\ d.reading = c.reading
    /\ d.close = c.close /\ d.after = c.after /\ d.later = c.later
    /\ d.armed = c.armed /\ d.read = c.read

LEMMA LikeIsSound ==
    ASSUME NEW c, NEW d, NEW r \in BOOLEAN, NEW f \in BOOLEAN, Sound(c, r, f), Like(c, d)
    PROVE  Sound(d, r, f)
BY DEF Sound, Like, Timed

LEMMA WriteStarts ==
    ASSUME NEW c \in ObjectType, NEW what \in Writes
    PROVE  Like(c, DoWrite(c, what))
<1>1. Append(c.writes, what) \in Seq(Writes)
  BY DEF ObjectType
<1>2. DoWrite(c, what) = [c EXCEPT !.writing = TRUE, !.writes = Append(c.writes, what)]
  BY DEF DoWrite, ObjectType
<1>3. \A u \in Seq(Writes) : Like(c, [c EXCEPT !.writing = TRUE, !.writes = u])
  BY DEF ObjectType, Like
<1>. QED  BY <1>1, <1>2, <1>3

LEMMA RequestCompletes ==
    ASSUME NEW c, NEW r \in BOOLEAN, NEW f \in BOOLEAN, Sound(c, r, f), c.exists
    PROVE  Sound(CompleteRequest(c), r, f) /\ CompleteRequest(c).exists
<1>. DEFINE done == [c EXCEPT !.after = FALSE, !.hooked = FALSE]
            written == DoWrite(done, "answer")
<1>1. c \in ObjectType
  BY DEF Sound
<1>2. /\ done \in ObjectType /\ done.after = FALSE /\ done.aborted = c.aborted
      /\ done.exists = c.exists /\ done.open = c.open /\ done.reading = c.reading
      /\ done.close = c.close /\ done.later = c.later
      /\ done.armed = c.armed /\ done.read = c.read
  BY <1>1, Unhooks
<1>3. CompleteRequest(c) =
        IF ~c.open THEN done
        ELSE IF c.later THEN DoRead(StartDeadline([written EXCEPT !.later = FALSE]))
        ELSE written
  BY DEF CompleteRequest
<1>. HIDE DEF done
<1>4. Sound(done, r, f) /\ done.exists
  BY <1>2 DEF Sound, Timed
<1>5. Like(done, written)
  BY <1>2, WriteStarts DEF Writes
<1>. HIDE DEF written
<1>6. Sound(written, r, f) /\ written.exists
  <2>1. Sound(written, r, f)
    BY <1>4, <1>5, LikeIsSound
  <2>2. written.exists
    BY <1>4, <1>5 DEF Like
  <2>. QED  BY <2>1, <2>2
<1>7. CASE ~(c.open /\ c.later)
  BY <1>3, <1>4, <1>6, <1>7
<1>8. CASE c.open /\ c.later
  <2>. DEFINE c1 == [written EXCEPT !.later = FALSE]
              c2 == StartDeadline(c1)
              d == DoRead(c2)
  <2>0. CompleteRequest(c) = d
    BY <1>3, <1>8
  <2>1. /\ written \in ObjectType /\ written.later = c.later /\ written.open = c.open
        /\ written.aborted = <<>> /\ written.exists = c.exists
    BY <1>2, <1>5, <1>6 DEF Like, Sound
  <2>2. /\ c1 \in ObjectType /\ c1.later = FALSE /\ c1.exists = written.exists
        /\ c1.open = written.open /\ c1.close = written.close
        /\ c1.after = written.after /\ c1.aborted = written.aborted
    BY <2>1, TakesUpRead
  <2>. HIDE DEF c1
  <2>3. /\ c2 \in ObjectType /\ c2.armed = TRUE /\ c2.exists = c1.exists
        /\ c2.open = c1.open /\ c2.close = c1.close /\ c2.after = c1.after
        /\ c2.later = c1.later /\ c2.aborted = c1.aborted
    BY <2>2, StartDeadlineIs
  <2>. HIDE DEF c2
  <2>4. /\ d \in ObjectType /\ d.reading = TRUE /\ d.read = TRUE /\ d.armed = c2.armed
        /\ d.exists = c2.exists /\ d.open = c2.open /\ d.close = c2.close
        /\ d.after = c2.after /\ d.later = c2.later /\ d.aborted = c2.aborted
    BY <2>3, DoReadIs
  <2>. HIDE DEF d
  <2>5. written.after = FALSE
    BY <1>2, <1>5 DEF Like
  <2>6. /\ d \in ObjectType /\ d.aborted = <<>> /\ d.exists /\ d.open /\ d.reading /\ d.read
        /\ d.armed /\ ~d.later /\ ~d.after /\ (d.close <=> written.close)
    BY <1>8, <2>1, <2>2, <2>3, <2>4, <2>5, <1>6
  <2>7. written.later /\ ~r /\ ~f /\ ~written.close
    BY <1>6, <1>8, <2>1 DEF Sound, Timed
  <2>8. Sound(d, r, f)
    BY <2>6, <2>7 DEF Sound, Timed
  <2>. QED  BY <2>0, <2>6, <2>8
<1>. QED  BY <1>7, <1>8

LEMMA EndIsSound ==
    ASSUME NEW c, NEW r \in BOOLEAN, NEW f \in BOOLEAN, Sound(c, r, f), c.exists
    PROVE  /\ Sound(End(c), r, f) /\ End(c).exists
           /\ Sound(EndAnew(c), r, f)
<1>1. ASSUME NEW u \in BOOLEAN, NEW b, Sound(b, r, f), b.exists
      PROVE  /\ Sound([b EXCEPT !.completed = u], r, f)
             /\ [b EXCEPT !.completed = u].exists
  <2>. DEFINE e == [b EXCEPT !.completed = u]
  <2>1. b \in ObjectType
    BY <1>1 DEF Sound
  <2>2. Like(b, e)
    BY <2>1, CompletedIs DEF Like
  <2>. HIDE DEF e
  <2>3. Sound(e, r, f)
    BY <1>1, <2>2, LikeIsSound
  <2>4. e.exists
    BY <1>1, <2>2 DEF Like
  <2>. QED  BY <2>3, <2>4 DEF e
<1>2. ASSUME NEW b, Sound(b, r, f), b.exists
      PROVE  Sound(End(b), r, f) /\ End(b).exists
  <2>. DEFINE e == [b EXCEPT !.completed = TRUE]
  <2>1. Sound(e, r, f) /\ e.exists
    BY <1>1, <1>2
  <2>2. End(b) = IF b.completed THEN b ELSE IF b.hooked THEN CompleteRequest(e) ELSE e
    BY DEF End
  <2>. HIDE DEF e
  <2>. QED  BY <1>2, <2>1, <2>2, RequestCompletes
<1>3. Sound(EndAnew(c), r, f)
  <2>. DEFINE z == [c EXCEPT !.completed = FALSE]
  <2>1. Sound(z, r, f) /\ z.exists
    BY <1>1
  <2>2. EndAnew(c) = End(z)
    BY DEF EndAnew
  <2>. HIDE DEF z
  <2>. QED  BY <1>2, <2>1, <2>2
<1>. QED  BY <1>2, <1>3

LEMMA HeaderIsSound ==
    ASSUME NEW c, NEW q, Sound(c, FALSE, TRUE)
    PROVE  Sound(HandleHeader(c, q), FALSE, TRUE)
<1>1. CASE q.version = "1.1" /\ q.expect
  <2>1. Like(c, DoWrite(c, "continue"))
    BY WriteStarts DEF Sound, Writes
  <2>2. Sound(DoWrite(c, "continue"), FALSE, TRUE)
    BY <2>1, LikeIsSound
  <2>. QED  BY <1>1, <2>2 DEF HandleHeader
<1>2. CASE ~(q.version = "1.1" /\ q.expect)
  BY <1>2 DEF HandleHeader
<1>. QED  BY <1>1, <1>2

LEMMA HandleIsSound ==
    ASSUME NEW c, NEW q, Sound(c, FALSE, TRUE), NEW d \in Handle(c, q)
    PROVE  Sound(d, FALSE, TRUE)
<1>. DEFINE v == c.close \/ AsksClose(q) \/ Upgrades(q)
            invalid == q.version = "1.1" /\ ~q.host
            c1 == CancelDeadline(c)
            u == c1.completed /\ ~invalid
            a1 == [c1 EXCEPT !.close = v]
            a == [a1 EXCEPT !.completed = u]
            b == [a EXCEPT !.hooked = TRUE, !.after = TRUE]
            n == [a EXCEPT !.after = FALSE]
            g == [a EXCEPT !.open = FALSE]
<1>1. /\ c \in ObjectType /\ c.aborted = <<>> /\ c.exists /\ ~c.read /\ ~c.later
      /\ c.reading
  BY DEF Sound, Timed
<1>2. /\ c1 \in ObjectType /\ c1.armed = FALSE /\ c1.exists = c.exists
      /\ c1.reading = c.reading /\ c1.read = c.read
      /\ c1.later = c.later /\ c1.aborted = c.aborted
      /\ c1.close = c.close
  BY <1>1, CancelDeadlineIs
<1>3. d \in IF Upgrades(q) THEN {HandleUpgrade(a, q)}
            ELSE IF invalid \/ a.completed THEN {CompleteRequest(n)}
            ELSE RunHandler(b, q)
  <2>1. [CancelDeadline(c) EXCEPT !.close = @ \/ AsksClose(q) \/ Upgrades(q),
                                  !.completed = @ /\ ~invalid] = a
    BY <1>2
  <2>. QED  BY <2>1 DEF Handle
<1>. HIDE DEF c1, v
<1>4. /\ a \in ObjectType /\ ~a.armed /\ a.exists /\ a.reading /\ ~a.later /\ ~a.read
      /\ a.aborted = <<>>
  <2>1. v \in BOOLEAN /\ u \in BOOLEAN
    BY DEF v
  <2>. HIDE DEF u
  <2>2. /\ a1 \in ObjectType /\ a1.armed = c1.armed /\ a1.exists = c1.exists
        /\ a1.reading = c1.reading /\ a1.later = c1.later /\ a1.read = c1.read
        /\ a1.aborted = c1.aborted
    <3>1. c1 \in ObjectType
      BY <1>2
    <3>. QED  BY ONLY <2>1, <3>1, WillClose
  <2>. HIDE DEF a1
  <2>3. /\ a \in ObjectType /\ a.armed = a1.armed /\ a.exists = a1.exists
        /\ a.reading = a1.reading /\ a.later = a1.later /\ a.read = a1.read
        /\ a.aborted = a1.aborted
    <3>1. a1 \in ObjectType
      BY <2>2
    <3>. QED  BY ONLY <2>1, <3>1, CompletedIs
  <2>. HIDE DEF a
  <2>. QED  BY <1>1, <1>2, <2>2, <2>3
<1>. HIDE DEF a
<1>5. /\ Sound(a, FALSE, TRUE)
      /\ Sound(n, FALSE, TRUE) /\ n.exists
      /\ Sound(b, FALSE, TRUE) /\ b.exists
      /\ Sound(g, FALSE, TRUE)
  <2>1. /\ n \in ObjectType /\ n.armed = a.armed /\ n.exists = a.exists
        /\ n.reading = a.reading /\ n.later = a.later /\ n.read = a.read
        /\ n.aborted = a.aborted
    BY <1>4, ForgetsAfter
  <2>2. /\ b \in ObjectType /\ b.armed = a.armed /\ b.exists = a.exists
        /\ b.reading = a.reading /\ b.later = a.later /\ b.read = a.read
        /\ b.aborted = a.aborted
    BY <1>4, Hooks
  <2>3. /\ g \in ObjectType /\ g.armed = a.armed /\ g.exists = a.exists
        /\ g.reading = a.reading /\ g.later = a.later /\ g.read = a.read
        /\ g.aborted = a.aborted
    BY <1>4, HandsOver
  <2>. HIDE DEF n, b, g
  <2>4. ASSUME NEW e \in ObjectType, e.armed = a.armed, e.exists = a.exists,
               e.reading = a.reading, e.later = a.later, e.read = a.read,
               e.aborted = a.aborted
        PROVE  Sound(e, FALSE, TRUE) /\ e.exists
    BY <1>4, <2>4 DEF Sound, Timed
  <2>. QED  BY <1>4, <2>1, <2>2, <2>3, <2>4
<1>. HIDE DEF n, b
<1>6. CASE Upgrades(q)
  <2>1. d = IF q.upgrade = "websocket" THEN g ELSE EndAnew(a)
    BY <1>3, <1>6 DEF HandleUpgrade
  <2>. HIDE DEF g
  <2>. QED  BY <1>4, <1>5, <2>1, EndIsSound
<1>7. CASE ~Upgrades(q) /\ (invalid \/ a.completed)
  <2>1. d = CompleteRequest(n)
    BY <1>3, <1>7
  <2>. QED  BY <1>5, <2>1, RequestCompletes
<1>8. CASE ~Upgrades(q) /\ ~(invalid \/ a.completed)
  <2>1. d = b \/ d = End(b)
    BY <1>3, <1>8 DEF RunHandler
  <2>. QED  BY <1>5, <2>1, EndIsSound
<1>. QED  BY <1>6, <1>7, <1>8

(* d is an object whose socket may have dropped a read, with x, and any    *)
(* number of writes.                                                       *)
Dropping(d, r, x) ==
    /\ d \in ObjectType /\ OneRead(d.aborted) /\ (HasRead(d.aborted) <=> x)
    /\ Timed(d, r, FALSE)

LEMMA DestroyedIsTimed ==
    ASSUME NEW c \in ObjectType, NEW r \in BOOLEAN, NEW x \in BOOLEAN, Dropping(c, r, x)
    PROVE  Dropping(CheckDestroy(c), r, x)
<1>. DEFINE d == CheckDestroy(c)
<1>1. /\ d \in ObjectType /\ (d.exists <=> c.exists /\ (c.reading \/ c.writing))
      /\ (d.armed <=> c.armed /\ (c.reading \/ c.writing)) /\ (d.open <=> c.open)
      /\ (d.reading <=> c.reading) /\ (d.close <=> c.close) /\ (d.after <=> c.after)
      /\ (d.later <=> c.later) /\ (d.read <=> c.read) /\ d.aborted = c.aborted
  BY CheckDestroyIs
<1>. HIDE DEF d
<1>2. OneRead(d.aborted) /\ (HasRead(d.aborted) <=> x)
  BY <1>1 DEF Dropping
<1>3. Timed(d, r, FALSE)
  BY <1>1 DEF Dropping, Timed
<1>. QED  BY <1>1, <1>2, <1>3 DEF Dropping, d

LEMMA ReadDoneIsTimed ==
    ASSUME NEW c, Sound(c, FALSE, TRUE), NEW ok \in BOOLEAN
    PROVE  Dropping(ReadDone(c, ok), FALSE, FALSE)
<1>1. /\ c \in ObjectType /\ c.aborted = <<>> /\ c.exists /\ ~c.read /\ ~c.later /\ c.reading
      /\ (c.after => ~c.armed) /\ (c.armed => c.open /\ ~c.close)
  BY DEF Sound, Timed
<1>2. OneRead(<<>>) /\ ~HasRead(<<>>) /\ FALSE \in BOOLEAN
  BY Operations, ReadsOfOne
<1>. DEFINE n == CancelDeadline(c)
<1>3. /\ n \in ObjectType /\ n.armed = FALSE /\ n.exists = c.exists /\ n.open = c.open
      /\ n.close = c.close /\ n.after = c.after /\ n.later = c.later
      /\ n.read = c.read /\ n.aborted = c.aborted /\ n.reading = c.reading
  BY <1>1, CancelDeadlineIs
<1>4. CASE ~(ok /\ c.open)
  <2>. DEFINE s == CloseSocket(n)
              e == [s EXCEPT !.reading = FALSE]
  <2>1. ReadDone(c, ok) = CheckDestroy(e)
    BY <1>4 DEF ReadDone
  <2>. HIDE DEF n
  <2>2. /\ s \in ObjectType /\ s.open = FALSE /\ s.read = FALSE
        /\ OneRead(s.aborted) /\ (HasRead(s.aborted) <=> n.read)
        /\ s.exists = n.exists /\ s.close = n.close /\ s.after = n.after
        /\ s.later = n.later /\ s.armed = n.armed
    <3>1. n \in ObjectType /\ n.aborted = <<>>
      BY <1>1, <1>3
    <3>. QED  BY ONLY <3>1, SocketCloses
  <2>. HIDE DEF s
  <2>3. /\ e \in ObjectType /\ e.reading = FALSE /\ e.aborted = s.aborted
        /\ e.exists = s.exists /\ e.open = s.open /\ e.close = s.close
        /\ e.after = s.after /\ e.later = s.later /\ e.armed = s.armed /\ e.read = s.read
    BY <2>2, StopsReading
  <2>. HIDE DEF e
  <2>4. /\ e \in ObjectType /\ ~e.reading /\ ~e.open /\ ~e.read /\ ~e.later /\ ~e.armed
    BY <1>1, <1>3, <2>2, <2>3
  <2>5. OneRead(e.aborted) /\ ~HasRead(e.aborted)
    BY <1>1, <1>3, <2>2, <2>3
  <2>6. Dropping(e, FALSE, FALSE)
    BY <2>4, <2>5 DEF Dropping, Timed
  <2>. QED  BY <1>2, <2>1, <2>4, <2>6, DestroyedIsTimed
<1>5. CASE ok /\ c.open /\ c.close
  <2>. DEFINE e == [n EXCEPT !.reading = FALSE]
  <2>1. ReadDone(c, ok) = CheckDestroy(e)
    BY <1>5 DEF ReadDone
  <2>. HIDE DEF n
  <2>2. /\ e \in ObjectType /\ e.reading = FALSE /\ e.aborted = n.aborted
        /\ e.exists = n.exists /\ e.open = n.open /\ e.close = n.close
        /\ e.after = n.after /\ e.later = n.later /\ e.armed = n.armed /\ e.read = n.read
    BY <1>3, StopsReading
  <2>. HIDE DEF e
  <2>3. /\ e \in ObjectType /\ ~e.reading /\ ~e.read /\ ~e.later /\ ~e.armed
        /\ e.aborted = <<>>
    BY <1>1, <1>3, <2>2
  <2>4. Dropping(e, FALSE, FALSE)
    BY <1>2, <2>3 DEF Dropping, Timed
  <2>. QED  BY <1>2, <2>1, <2>3, <2>4, DestroyedIsTimed
<1>6. CASE ok /\ c.open /\ ~c.close /\ ~c.after
  <2>. DEFINE e == StartDeadline(c)
              d == DoRead(e)
  <2>1. ReadDone(c, ok) = d
    BY <1>6 DEF ReadDone
  <2>2. /\ e \in ObjectType /\ e.armed = TRUE /\ e.exists = c.exists /\ e.open = c.open
        /\ e.close = c.close /\ e.after = c.after /\ e.later = c.later
        /\ e.aborted = c.aborted
    BY <1>1, StartDeadlineIs
  <2>. HIDE DEF e
  <2>3. /\ d \in ObjectType /\ d.reading = TRUE /\ d.read = TRUE /\ d.armed = e.armed
        /\ d.exists = e.exists /\ d.open = e.open /\ d.close = e.close
        /\ d.after = e.after /\ d.later = e.later /\ d.aborted = e.aborted
    BY <2>2, DoReadIs
  <2>. HIDE DEF d
  <2>4. /\ d \in ObjectType /\ d.reading /\ d.read /\ d.armed /\ d.exists /\ d.open
        /\ ~d.close /\ ~d.after /\ ~d.later /\ d.aborted = <<>>
    BY <1>1, <1>6, <2>2, <2>3
  <2>5. Dropping(d, FALSE, FALSE)
    BY <1>2, <2>4 DEF Dropping, Timed
  <2>. QED  BY <2>1, <2>5
<1>7. CASE ok /\ c.open /\ ~c.close /\ c.after
  <2>. DEFINE d == [c EXCEPT !.later = TRUE]
  <2>1. ReadDone(c, ok) = d
    BY <1>7 DEF ReadDone
  <2>2. /\ d \in ObjectType /\ d.later = TRUE /\ d.exists = c.exists /\ d.open = c.open
        /\ d.close = c.close /\ d.after = c.after /\ d.armed = c.armed
        /\ d.read = c.read /\ d.reading = c.reading /\ d.aborted = c.aborted
    BY <1>1, PutsOffRead
  <2>. HIDE DEF d
  <2>3. /\ d.exists /\ d.open /\ ~d.close /\ ~d.armed /\ ~d.read /\ d.reading /\ d.later
        /\ d.aborted = <<>>
    BY <1>1, <1>7, <2>2
  <2>4. Dropping(d, FALSE, FALSE)
    BY <1>2, <2>2, <2>3 DEF Dropping, Timed
  <2>. QED  BY <2>1, <2>4
<1>. QED  BY <1>4, <1>5, <1>6, <1>7

LEMMA WriteDoneIsTimed ==
    ASSUME NEW c, NEW r \in BOOLEAN, Sound(c, r, FALSE), c.exists, NEW ok \in BOOLEAN
    PROVE  Dropping(WriteDone(c, ok), r, FALSE)
<1>. DEFINE w1 == [c EXCEPT !.writing = FALSE]
            w == [w1 EXCEPT !.completed = FALSE]
<1>1. c \in ObjectType /\ c.aborted = <<>> /\ OneRead(<<>>) /\ ~HasRead(<<>>)
      /\ FALSE \in BOOLEAN
  BY Operations, ReadsOfOne DEF Sound
<1>2. WriteDone(c, ok) = IF ~ok THEN CheckDestroy(w)
                         ELSE IF c.close THEN CheckDestroy(CloseSocket(w)) ELSE w
  BY DEF WriteDone
<1>3. Like(c, w)
  BY <1>1, EndsWrite DEF Like
<1>. HIDE DEF w
<1>4. Sound(w, r, FALSE)
  BY <1>3, LikeIsSound
<1>5. w \in ObjectType /\ w.aborted = <<>>
  BY <1>4 DEF Sound
<1>6. Dropping(w, r, FALSE)
  BY <1>1, <1>4, <1>5 DEF Dropping, Sound
<1>7. CASE ok /\ c.close
  <2>. DEFINE s == CloseSocket(w)
  <2>1. /\ s \in ObjectType /\ s.open = FALSE /\ s.read = FALSE
        /\ OneRead(s.aborted) /\ (HasRead(s.aborted) <=> w.read)
        /\ s.exists = w.exists /\ s.reading = w.reading /\ s.close = w.close
        /\ s.after = w.after /\ s.later = w.later /\ s.armed = w.armed
    BY <1>5, SocketCloses
  <2>. HIDE DEF s
  <2>2. w.exists /\ ~w.reading /\ ~w.read /\ ~r /\ ~w.later /\ ~w.armed
    <3>1. w.close /\ w.exists
      BY <1>3, <1>7 DEF Like
    <3>. QED  BY <1>4, <3>1 DEF Sound, Timed
  <2>3. Timed(s, r, FALSE)
    BY <2>1, <2>2 DEF Timed
  <2>4. Dropping(s, r, FALSE)
    BY <2>1, <2>2, <2>3 DEF Dropping
  <2>5. WriteDone(c, ok) = CheckDestroy(s)
    BY <1>2, <1>7 DEF s
  <2>. QED  BY <1>1, <2>1, <2>4, <2>5, DestroyedIsTimed
<1>. QED  BY <1>1, <1>2, <1>5, <1>6, <1>7, DestroyedIsTimed

LEMMA TimedNow ==
    ASSUME ConnectionTypes, ReadingInStep
    PROVE  /\ ready \in Seq(Completion) /\ OneRead(ready) /\ (feeding => ~patient)
           /\ \A r, f \in BOOLEAN :
                (r <=> HasRead(ready)) /\ (f <=> feeding) => Sound(conn, r, f)
<1>1. Queued("read") <=> HasRead(ready)
  BY DEF Queued, HasRead
<1>2. conn \in ObjectType /\ conn.aborted = <<>> /\ ready \in Seq(Completion)
  BY DEF ConnectionTypes
<1>3. OneRead(ready) /\ (feeding => ~patient)
  BY DEF ReadingInStep, OneRead
<1>4. ASSUME NEW r \in BOOLEAN, NEW f \in BOOLEAN, r <=> HasRead(ready), f <=> feeding
      PROVE  Timed(conn, r, f)
  BY <1>1, <1>4 DEF ReadingInStep, Timed
<1>. QED  BY <1>2, <1>3, <1>4 DEF Sound

LEMMA TimedNext ==
    ASSUME OneRead(ready'), NEW r \in BOOLEAN, r <=> HasRead(ready'),
           NEW f \in BOOLEAN, f <=> feeding', Timed(conn', r, f), feeding' => ~patient'
    PROVE  ReadingInStep'
<1>1. Queued("read")' <=> HasRead(ready')
  BY DEF Queued, HasRead
<1>2. \A i, j \in DOMAIN ready' :
        ready'[i].op = "read" /\ ready'[j].op = "read" => i = j
  BY DEF OneRead
<1>. QED  BY <1>1, <1>2 DEF ReadingInStep, Timed

(* The object becomes d, whose socket may have dropped a read, with x,     *)
(* behind a queue that may hold one, with y.                               *)
LEMMA BecomesTimed ==
    ASSUME NEW d, NEW q \in Seq(Completion), OneRead(q), NEW r \in BOOLEAN,
           NEW x \in BOOLEAN, NEW y \in BOOLEAN, y <=> HasRead(q), ~x \/ ~y, r <=> x \/ y,
           Dropping(d, r, x), Becomes(d, q), feeding' = FALSE
    PROVE  /\ conn' \in ObjectType /\ conn'.aborted = <<>> /\ ready' \in Seq(Completion)
           /\ ReadingInStep'
<1>1. /\ d \in ObjectType /\ d.aborted \in Seq(Completion)
      /\ OneRead(d.aborted) /\ (HasRead(d.aborted) <=> x) /\ Timed(d, r, FALSE)
  BY DEF Dropping, ObjectType
<1>2. conn' = [d EXCEPT !.aborted = <<>>] /\ ready' = q \o d.aborted
  BY DEF Becomes
<1>3. /\ ready' \in Seq(Completion) /\ OneRead(ready')
      /\ HasRead(ready') <=> r
  BY <1>1, <1>2, ReadsOfJoin
<1>4. /\ conn' \in ObjectType /\ conn'.aborted = <<>> /\ conn'.exists = d.exists
      /\ conn'.open = d.open /\ conn'.reading = d.reading /\ conn'.close = d.close
      /\ conn'.after = d.after /\ conn'.later = d.later /\ conn'.armed = d.armed
      /\ conn'.read = d.read
  BY <1>1, <1>2, Cleared
<1>5. Timed(conn', r, FALSE)
  BY <1>1, <1>4 DEF Timed
<1>6. ReadingInStep'
  BY <1>3, <1>5, TimedNext
<1>. QED  BY <1>3, <1>4, <1>6

(* A read's completion is taken up, or is being dealt with.                *)
LEMMA ReadIsTaken ==
    ASSUME ConnectionTypes, ReadingInStep, conn.exists,
           feeding \/ (ready # <<>> /\ Head(ready).op = "read")
    PROVE  /\ Behind \in Seq(Completion) /\ OneRead(Behind) /\ ~HasRead(Behind)
           /\ Sound(conn, FALSE, TRUE)
<1>1. /\ ready \in Seq(Completion) /\ OneRead(ready)
      /\ \A r, f \in BOOLEAN :
           (r <=> HasRead(ready)) /\ (f <=> feeding) => Sound(conn, r, f)
  BY TimedNow
<1>2. PICK r \in BOOLEAN : r <=> HasRead(ready)
  OBVIOUS
<1>3. CASE feeding
  <2>1. Sound(conn, r, TRUE)
    BY <1>1, <1>2, <1>3
  <2>2. ~r /\ Sound(conn, FALSE, TRUE)
    BY <2>1 DEF Sound, Timed
  <2>. QED  BY <1>1, <1>2, <1>3, <2>2 DEF Behind
<1>4. CASE ~feeding
  <2>1. /\ Tail(ready) \in Seq(Completion) /\ OneRead(Tail(ready)) /\ ~HasRead(Tail(ready))
        /\ HasRead(ready)
    BY <1>1, <1>4, ReadsOfTail
  <2>2. Sound(conn, TRUE, FALSE)
    BY <1>1, <1>4, <2>1
  <2>3. Sound(conn, FALSE, TRUE)
    BY <2>2 DEF Sound, Timed
  <2>. QED  BY <1>4, <2>1, <2>3 DEF Behind
<1>. QED  BY <1>3, <1>4

LEMMA ReadEnds ==
    ASSUME ConnectionTypes, ReadingInStep, conn.exists,
           feeding \/ (ready # <<>> /\ Head(ready).op = "read"),
           NEW c, Sound(c, FALSE, TRUE), NEW ok \in BOOLEAN,
           Becomes(ReadDone(c, ok), Behind), feeding' = FALSE
    PROVE  /\ conn' \in ObjectType /\ conn'.aborted = <<>> /\ ready' \in Seq(Completion)
           /\ ReadingInStep'
<1>1. Behind \in Seq(Completion) /\ OneRead(Behind) /\ ~HasRead(Behind)
  BY ReadIsTaken
<1>2. Dropping(ReadDone(c, ok), FALSE, FALSE)
  BY ReadDoneIsTimed
<1>. DEFINE b == Behind
            d == ReadDone(c, ok)
<1>3. b \in Seq(Completion) /\ OneRead(b) /\ ~HasRead(b) /\ Dropping(d, FALSE, FALSE)
        /\ Becomes(d, b)
  BY <1>1, <1>2
<1>. HIDE DEF b, d
<1>. QED  BY <1>3, BecomesTimed

LEMMA FeedTimed ==
    ASSUME ConnectionTypes, ReadingInStep, HasBytes,
           NEW c, Sound(c, FALSE, TRUE), NEW more \in BOOLEAN, Feed(c, more)
    PROVE  /\ conn' \in ObjectType /\ conn'.aborted = <<>> /\ ready' \in Seq(Completion)
           /\ feeding' \in BOOLEAN /\ patient' \in BOOLEAN /\ ReadingInStep'
<1>1. conn.exists /\ (feeding \/ (ready # <<>> /\ Head(ready).op = "read"))
  BY Operations DEF HasBytes
<1>2. /\ feeding' = more /\ patient' = (patient /\ ~feeding /\ ~more)
      /\ IF more THEN conn' = c /\ ready' = Behind
                 ELSE Becomes(ReadDone(c, TRUE), Behind)
  BY DEF Feed
<1>3. CASE more
  <2>1. Behind \in Seq(Completion) /\ OneRead(Behind) /\ ~HasRead(Behind)
    BY <1>1, ReadIsTaken
  <2>2. conn' = c /\ ready' = Behind /\ feeding' /\ ~patient'
    BY <1>2, <1>3
  <2>3. conn' \in ObjectType /\ conn'.aborted = <<>> /\ Timed(conn', FALSE, TRUE)
    BY <2>2 DEF Sound
  <2>4. OneRead(ready') /\ ~HasRead(ready') /\ ready' \in Seq(Completion)
    BY <2>1, <2>2
  <2>5. ReadingInStep'
    BY <2>2, <2>3, <2>4, TimedNext
  <2>. QED  BY <1>2, <2>3, <2>4, <2>5
<1>4. CASE ~more
  <2>1. Becomes(ReadDone(c, TRUE), Behind) /\ feeding' = FALSE
    BY <1>2, <1>4
  <2>2. /\ conn' \in ObjectType /\ conn'.aborted = <<>> /\ ready' \in Seq(Completion)
        /\ ReadingInStep'
    BY <1>1, <2>1, ReadEnds
  <2>. QED  BY <1>2, <2>1, <2>2
<1>. QED  BY <1>3, <1>4

(* What holds of every client.                                             *)
ReadsInStep == ConnectionTypes /\ ReadingInStep

LEMMA OnBytesReads ==
    ASSUME Bounds, ReadsInStep, OnBytes
    PROVE  ReadsInStep'
<1>1. conn.exists /\ (feeding \/ (ready # <<>> /\ Head(ready).op = "read"))
  BY Operations DEF OnBytes, HasBytes
<1>2. Sound(conn, FALSE, TRUE) /\ HasBytes
  BY <1>1, ReadIsTaken DEF ReadsInStep, OnBytes
<1>3. UNCHANGED <<peer, held, asked, sent, cause>>
  BY DEF OnBytes
<1>4. /\ conn' \in ObjectType /\ conn'.aborted = <<>> /\ ready' \in Seq(Completion)
      /\ feeding' \in BOOLEAN /\ patient' \in BOOLEAN /\ ReadingInStep'
      /\ phase' \in {"start", "body", "dead"} /\ req' \in Requests \cup {NoRequest}
  <2>1. CASE Feed(conn, FALSE) /\ UNCHANGED <<phase, req>>
    <3>1. /\ conn' \in ObjectType /\ conn'.aborted = <<>> /\ ready' \in Seq(Completion)
          /\ feeding' \in BOOLEAN /\ patient' \in BOOLEAN /\ ReadingInStep'
      BY <1>2, <2>1, FeedTimed DEF ReadsInStep
    <3>. QED  BY <2>1, <3>1 DEF ReadsInStep, ConnectionTypes
  <2>2. ASSUME NEW q \in Requests, NEW more \in BOOLEAN,
               Feed(HandleHeader(conn, q), more), req' = q, phase' = "body"
        PROVE  /\ conn' \in ObjectType /\ conn'.aborted = <<>> /\ ready' \in Seq(Completion)
               /\ feeding' \in BOOLEAN /\ patient' \in BOOLEAN /\ ReadingInStep'
    <3>. DEFINE c == HandleHeader(conn, q)
    <3>1. Sound(c, FALSE, TRUE) /\ Feed(c, more)
      BY <1>2, <2>2, HeaderIsSound
    <3>. HIDE DEF c
    <3>. QED  BY <1>2, <3>1, FeedTimed DEF ReadsInStep
  <2>. QED  BY <2>1, <2>2 DEF OnBytes
<1>. QED  BY <1>3, <1>4 DEF ReadsInStep, ConnectionTypes

LEMMA OnMessageReads ==
    ASSUME Bounds, ReadsInStep, OnMessage
    PROVE  ReadsInStep'
<1>1. conn.exists /\ (feeding \/ (ready # <<>> /\ Head(ready).op = "read"))
  BY Operations DEF OnMessage, HasBytes
<1>2. Sound(conn, FALSE, TRUE) /\ HasBytes
  BY <1>1, ReadIsTaken DEF ReadsInStep, OnMessage
<1>3. PICK q \in IF phase = "body" THEN {req}
                  ELSE {p \in Requests : HandleHeader(conn, p) = conn},
           more \in BOOLEAN :
        /\ \E c \in Handle(conn, q) :
             Feed(c, more) /\ held' = IF LeftForLater(c, q) THEN held + 1 ELSE held
        /\ phase' = IF IsLast(q) \/ (more /\ q.upgrade # "none") THEN "dead" ELSE "start"
  BY DEF OnMessage
<1>4. PICK c \in Handle(conn, q) :
        Feed(c, more) /\ held' = IF LeftForLater(c, q) THEN held + 1 ELSE held
  BY <1>3
<1>5. Sound(c, FALSE, TRUE)
  BY <1>2, HandleIsSound
<1>6. /\ conn' \in ObjectType /\ conn'.aborted = <<>> /\ ready' \in Seq(Completion)
      /\ feeding' \in BOOLEAN /\ patient' \in BOOLEAN /\ ReadingInStep'
  BY <1>2, <1>4, <1>5, FeedTimed DEF ReadsInStep
<1>7. held' \in Nat /\ phase' \in {"start", "body", "dead"}
  BY <1>3, <1>4 DEF ReadsInStep, ConnectionTypes
<1>8. asked' \in 0 .. MaxRequests /\ req' = NoRequest /\ UNCHANGED <<peer, sent, cause>>
  BY DEF OnMessage, ReadsInStep, ConnectionTypes, Bounds
<1>. QED  BY <1>6, <1>7, <1>8 DEF ReadsInStep, ConnectionTypes

LEMMA OnReadErrorReads ==
    ASSUME ReadsInStep, OnReadError
    PROVE  ReadsInStep'
<1>1. /\ conn.exists /\ (feeding \/ (ready # <<>> /\ Head(ready).op = "read"))
      /\ Becomes(ReadDone(conn, FALSE), Behind) /\ feeding' = FALSE
      /\ cause' \in {cause, "garbled", "gone"}
      /\ UNCHANGED <<phase, req, peer, held, patient, asked, sent>>
  BY DEF OnReadError
<1>2. Sound(conn, FALSE, TRUE)
  BY <1>1, ReadIsTaken DEF ReadsInStep
<1>3. /\ conn' \in ObjectType /\ conn'.aborted = <<>> /\ ready' \in Seq(Completion)
      /\ ReadingInStep'
  BY <1>1, <1>2, ReadEnds DEF ReadsInStep
<1>. QED  BY <1>1, <1>3 DEF ReadsInStep, ConnectionTypes

LEMMA OnWriteReads ==
    ASSUME ReadsInStep, OnWrite
    PROVE  ReadsInStep'
<1>1. /\ conn.exists /\ ~feeding /\ ready # <<>> /\ Head(ready).op = "write"
      /\ Becomes(WriteDone(conn, Head(ready).what = "ok"), Tail(ready))
      /\ UNCHANGED <<phase, feeding, req, peer, held, patient, asked, sent, cause>>
  BY DEF OnWrite
<1>2. /\ ready \in Seq(Completion) /\ OneRead(ready)
      /\ \A r, f \in BOOLEAN :
           (r <=> HasRead(ready)) /\ (f <=> feeding) => Sound(conn, r, f)
  BY TimedNow DEF ReadsInStep
<1>3. PICK r \in BOOLEAN : r <=> HasRead(ready)
  OBVIOUS
<1>4. Sound(conn, r, FALSE)
  BY <1>1, <1>2, <1>3
<1>. DEFINE ok == Head(ready).what = "ok"
            t == Tail(ready)
            d == WriteDone(conn, ok)
<1>5. Dropping(d, r, FALSE)
  BY <1>1, <1>4, WriteDoneIsTimed
<1>6. t \in Seq(Completion) /\ OneRead(t) /\ (HasRead(t) <=> r) /\ Becomes(d, t)
  BY <1>1, <1>2, <1>3, ReadsOfTail
<1>7. feeding' = FALSE /\ FALSE \in BOOLEAN
  BY <1>1 DEF ReadsInStep, ConnectionTypes
<1>. HIDE DEF d, t
<1>8. /\ conn' \in ObjectType /\ conn'.aborted = <<>> /\ ready' \in Seq(Completion)
      /\ ReadingInStep'
  BY <1>5, <1>6, <1>7, BecomesTimed
<1>. QED  BY <1>1, <1>8 DEF ReadsInStep, ConnectionTypes

LEMMA ExpireReads ==
    ASSUME ReadsInStep, Expire
    PROVE  ReadsInStep'
<1>. DEFINE n == CancelDeadline(conn)
            s == CloseSocket(n)
<1>1. /\ conn.exists /\ ~feeding /\ conn.armed
      /\ Becomes(IF conn.open THEN s ELSE n, ready)
      /\ cause' \in {"timeout", cause}
      /\ UNCHANGED <<phase, feeding, req, peer, held, patient, asked, sent>>
  BY DEF Expire
<1>2. /\ ready \in Seq(Completion) /\ OneRead(ready)
      /\ \A r, f \in BOOLEAN :
           (r <=> HasRead(ready)) /\ (f <=> feeding) => Sound(conn, r, f)
  BY TimedNow DEF ReadsInStep
<1>3. PICK y \in BOOLEAN : y <=> HasRead(ready)
  OBVIOUS
<1>4. Sound(conn, y, FALSE)
  BY <1>1, <1>2, <1>3
<1>5. /\ conn \in ObjectType /\ conn.aborted = <<>> /\ conn.open /\ conn.reading
      /\ ~conn.later /\ ~conn.close /\ (conn.read => ~y) /\ conn.read \in BOOLEAN
      /\ (conn.read \/ y) /\ ~conn.after
  BY <1>1, <1>4 DEF Sound, Timed, ObjectType
<1>6. /\ n \in ObjectType /\ n.armed = FALSE /\ n.exists = conn.exists /\ n.open = conn.open
      /\ n.close = conn.close /\ n.after = conn.after /\ n.later = conn.later
      /\ n.read = conn.read /\ n.aborted = conn.aborted /\ n.reading = conn.reading
  BY <1>5, CancelDeadlineIs
<1>. HIDE DEF n
<1>7. /\ s \in ObjectType /\ s.open = FALSE /\ s.read = FALSE
      /\ OneRead(s.aborted) /\ (HasRead(s.aborted) <=> n.read)
      /\ s.exists = n.exists /\ s.reading = n.reading /\ s.close = n.close
      /\ s.after = n.after /\ s.later = n.later /\ s.armed = n.armed
  <2>1. n \in ObjectType /\ n.aborted = <<>>
    BY <1>5, <1>6
  <2>. QED  BY ONLY <2>1, SocketCloses
<1>. HIDE DEF s
<1>8. Dropping(s, TRUE, conn.read)
  <2>1. Timed(s, TRUE, FALSE)
    BY <1>1, <1>5, <1>6, <1>7 DEF Timed
  <2>. QED  BY <1>6, <1>7, <2>1 DEF Dropping
<1>9. feeding' = FALSE /\ Becomes(s, ready)
  BY <1>1, <1>5 DEF ReadsInStep, ConnectionTypes
<1>10. /\ conn' \in ObjectType /\ conn'.aborted = <<>> /\ ready' \in Seq(Completion)
       /\ ReadingInStep'
  BY <1>2, <1>3, <1>5, <1>8, <1>9, BecomesTimed
<1>. QED  BY <1>1, <1>10 DEF ReadsInStep, ConnectionTypes

LEMMA AnswerLaterReads ==
    ASSUME ReadsInStep, AnswerLater
    PROVE  ReadsInStep'
<1>1. /\ conn.exists /\ ~feeding /\ held > 0 /\ held' = held - 1
      /\ Becomes(End(conn), ready) \/ Becomes(EndAnew(conn), ready)
      /\ UNCHANGED <<phase, feeding, req, peer, patient, asked, sent, cause>>
  BY DEF AnswerLater, Held
<1>2. /\ ready \in Seq(Completion) /\ OneRead(ready)
      /\ \A r, f \in BOOLEAN :
           (r <=> HasRead(ready)) /\ (f <=> feeding) => Sound(conn, r, f)
  BY TimedNow DEF ReadsInStep
<1>3. PICK y \in BOOLEAN : y <=> HasRead(ready)
  OBVIOUS
<1>4. Sound(conn, y, FALSE)
  BY <1>1, <1>2, <1>3
<1>5. PICK d : Sound(d, y, FALSE) /\ Becomes(d, ready)
  <2>1. Sound(End(conn), y, FALSE) /\ Sound(EndAnew(conn), y, FALSE)
    BY <1>1, <1>4, EndIsSound
  <2>. QED  BY <1>1, <2>1
<1>6. Dropping(d, y, FALSE)
  <2>1. OneRead(<<>>) /\ ~HasRead(<<>>)
    BY Operations, ReadsOfOne
  <2>. QED  BY <1>5, <2>1 DEF Dropping, Sound
<1>7. feeding' = FALSE /\ held' \in Nat /\ FALSE \in BOOLEAN
  BY <1>1 DEF ReadsInStep, ConnectionTypes
<1>8. /\ conn' \in ObjectType /\ conn'.aborted = <<>> /\ ready' \in Seq(Completion)
      /\ ReadingInStep'
  BY <1>2, <1>3, <1>5, <1>6, <1>7, BecomesTimed
<1>. QED  BY <1>1, <1>7, <1>8 DEF ReadsInStep, ConnectionTypes

LEMMA SocketWritesReads ==
    ASSUME ReadsInStep, SocketWrites
    PROVE  ReadsInStep'
<1>1. /\ conn.writes # <<>> /\ conn' = [conn EXCEPT !.writes = Tail(conn.writes)]
      /\ \E e \in {Write("ok"), Write("failed")} : ready' = Append(ready, e)
      /\ sent' \in {sent + 1, sent}
      /\ UNCHANGED <<phase, feeding, req, peer, held, patient, asked, cause>>
  BY DEF SocketWrites
<1>2. /\ ready \in Seq(Completion) /\ OneRead(ready) /\ (feeding => ~patient)
      /\ \A r, f \in BOOLEAN :
           (r <=> HasRead(ready)) /\ (f <=> feeding) => Sound(conn, r, f)
  BY TimedNow DEF ReadsInStep
<1>3. PICK r \in BOOLEAN : r <=> HasRead(ready)
  OBVIOUS
<1>4. PICK f \in BOOLEAN : f <=> feeding
  OBVIOUS
<1>5. Sound(conn, r, f)
  BY <1>2, <1>3, <1>4
<1>6. PICK e \in Completion : ready' = Append(ready, e) /\ e.op # "read"
  BY <1>1, Operations
<1>7. ready' \in Seq(Completion) /\ OneRead(ready') /\ (HasRead(ready') <=> r)
  BY <1>2, <1>3, <1>6, ReadsOfMore
<1>8. Like(conn, conn')
  <2>1. conn \in ObjectType /\ Tail(conn.writes) \in Seq(Writes)
    BY <1>1, <1>5 DEF Sound, ObjectType
  <2>. QED  BY <1>1, <2>1, TakesWrite DEF Like
<1>9. Sound(conn', r, f)
  BY <1>5, <1>8, LikeIsSound
<1>10. ReadingInStep'
  BY <1>1, <1>2, <1>4, <1>7, <1>9, TimedNext DEF Sound
<1>. QED  BY <1>1, <1>7, <1>9, <1>10 DEF ReadsInStep, ConnectionTypes, Sound

LEMMA SocketReadsReads ==
    ASSUME ReadsInStep, SocketReads
    PROVE  ReadsInStep'
<1>1. /\ conn.exists /\ conn.read /\ conn' = [conn EXCEPT !.read = FALSE]
      /\ \E e \in {Read("bytes"), Read("eof")} : ready' = Append(ready, e)
      /\ patient' \in {patient /\ ~Waits, patient}
      /\ UNCHANGED <<phase, feeding, req, peer, held, asked, sent, cause>>
  BY DEF SocketReads
<1>2. /\ ready \in Seq(Completion) /\ OneRead(ready) /\ (feeding => ~patient)
      /\ \A r, f \in BOOLEAN :
           (r <=> HasRead(ready)) /\ (f <=> feeding) => Sound(conn, r, f)
  BY TimedNow DEF ReadsInStep
<1>3. PICK r \in BOOLEAN : r <=> HasRead(ready)
  OBVIOUS
<1>4. PICK f \in BOOLEAN : f <=> feeding
  OBVIOUS
<1>5. Sound(conn, r, f)
  BY <1>2, <1>3, <1>4
<1>6. ~r /\ ~f /\ conn \in ObjectType /\ conn.aborted = <<>>
  BY <1>1, <1>5 DEF Sound, Timed
<1>7. PICK e \in Completion : ready' = Append(ready, e) /\ e.op = "read"
  BY <1>1, Operations
<1>8. ready' \in Seq(Completion) /\ OneRead(ready') /\ HasRead(ready')
  BY <1>2, <1>3, <1>6, <1>7, ReadsOfMore
<1>9. /\ conn' \in ObjectType /\ conn'.read = FALSE /\ conn'.aborted = conn.aborted
      /\ conn'.exists = conn.exists /\ conn'.open = conn.open /\ conn'.reading = conn.reading
      /\ conn'.close = conn.close /\ conn'.after = conn.after /\ conn'.later = conn.later
      /\ conn'.armed = conn.armed
  BY <1>1, <1>6, TakesRead
<1>10. Timed(conn', TRUE, FALSE)
  BY <1>1, <1>5, <1>6, <1>9 DEF Sound, Timed
<1>11. ~feeding' /\ patient' \in BOOLEAN
  BY <1>1, <1>4, <1>6 DEF ReadsInStep, ConnectionTypes
<1>12. ReadingInStep'
  BY <1>8, <1>10, <1>11, TimedNext
<1>. QED  BY <1>1, <1>6, <1>8, <1>9, <1>11, <1>12 DEF ReadsInStep, ConnectionTypes

LEMMA IdleReads ==
    ASSUME ReadsInStep, PeerLeaves \/ UNCHANGED connVars
    PROVE  ReadsInStep'
<1>1. /\ UNCHANGED <<conn, ready, phase, feeding, req, held, patient, asked, sent, cause>>
      /\ peer' \in {"gone", peer}
  BY DEF PeerLeaves, connVars
<1>2. ReadingInStep'
  BY <1>1 DEF ReadsInStep, ReadingInStep, Queued
<1>. QED  BY <1>1, <1>2 DEF ReadsInStep, ConnectionTypes

LEMMA EveryStepReads ==
    ASSUME Bounds, ReadsInStep, [ConnectionNext]_connVars
    PROVE  ReadsInStep'
<1>1. CASE OnBytes  BY <1>1, OnBytesReads
<1>2. CASE OnMessage  BY <1>2, OnMessageReads
<1>3. CASE OnReadError  BY <1>3, OnReadErrorReads
<1>4. CASE OnWrite  BY <1>4, OnWriteReads
<1>5. CASE Expire  BY <1>5, ExpireReads
<1>6. CASE AnswerLater  BY <1>6, AnswerLaterReads
<1>7. CASE SocketWrites  BY <1>7, SocketWritesReads
<1>8. CASE SocketReads  BY <1>8, SocketReadsReads
<1>9. CASE PeerLeaves \/ UNCHANGED connVars  BY <1>9, IdleReads
<1>. QED  BY <1>1, <1>2, <1>3, <1>4, <1>5, <1>6, <1>7, <1>8, <1>9 DEF ConnectionNext, RunReady

LEMMA StartsInStep ==
    ASSUME Bounds, ConnectionInit
    PROVE  ConnectionInStep /\ AnswersInStep
<1>1. /\ conn = Started /\ ready = <<>> /\ phase = "start" /\ req = NoRequest /\ peer = "up"
      /\ feeding = FALSE /\ held = 0 /\ patient = TRUE
      /\ asked = 0 /\ sent = 0 /\ cause = "none"
  BY DEF ConnectionInit
<1>2. /\ conn \in ObjectType /\ conn.aborted = <<>> /\ conn.exists /\ conn.open /\ conn.reading
      /\ ~conn.writing /\ ~conn.close /\ ~conn.after /\ ~conn.later /\ ~conn.completed
      /\ ~conn.hooked /\ conn.armed /\ conn.read /\ conn.writes = <<>>
  <2>1. <<>> \in Seq(Completion)
    OBVIOUS
  <2>. QED  BY <1>1, <2>1 DEF Started, ObjectType
<1>3. ready \in Seq(Completion) /\ Len(ready) = 0 /\ DOMAIN ready = {}
  BY <1>1
<1>4. <<>> # <<"answer">> /\ <<>> # <<"continue">>
  OBVIOUS
<1>5. ConnectionTypes
  <2>1. asked \in 0 .. MaxRequests /\ sent \in Nat /\ held \in Nat
    BY <1>1 DEF Bounds
  <2>2. feeding \in BOOLEAN /\ patient \in BOOLEAN /\ peer \in {"up", "gone"}
    BY <1>1
  <2>3. /\ phase \in {"start", "body", "dead"} /\ req \in Requests \cup {NoRequest}
        /\ cause \in {"none", "garbled", "timeout", "gone"}
    BY <1>1
  <2>. QED  BY <1>2, <1>3, <2>1, <2>2, <2>3 DEF ConnectionTypes
<1>6. ReadingInStep
  BY <1>1, <1>2, <1>3 DEF ReadingInStep, Queued
<1>7. OneAtATime /\ NothingOutlives /\ CompletionsInStep
  BY <1>1, <1>2, <1>3 DEF OneAtATime, NothingOutlives, CompletionsInStep
<1>8. ObjectInStep
  BY <1>2, <1>3 DEF ObjectInStep, Queued, Wrote
<1>9. ClientInStep
  BY <1>1, <1>2, <1>4 DEF ClientInStep
<1>10. AnswersInStep
  BY <1>1, <1>2, <1>4 DEF AnswersInStep, AnsweredBeforeDeleted
<1>. QED  BY <1>5, <1>6, <1>7, <1>8, <1>9, <1>10 DEF ConnectionInStep, PatientInStep

(* A client that has not waited once is never counted as one that waits.   *)
LEMMA ImpatientForGood ==
    ASSUME ConnectionTypes, [ConnectionNext]_connVars, patient'
    PROVE  patient
<1>1. CASE OnBytes
  BY <1>1 DEF OnBytes, Feed
<1>2. CASE OnMessage
  BY <1>2 DEF OnMessage, Feed
<1>3. CASE SocketReads
  BY <1>3 DEF SocketReads
<1>4. CASE OnReadError \/ OnWrite \/ Expire \/ AnswerLater
  BY <1>4 DEF OnReadError, OnWrite, Expire, AnswerLater
<1>5. CASE SocketWrites \/ PeerLeaves \/ UNCHANGED connVars
  BY <1>5 DEF SocketWrites, PeerLeaves, connVars
<1>. QED  BY <1>1, <1>2, <1>3, <1>4, <1>5 DEF ConnectionNext, RunReady

LEMMA EveryStepKeeps ==
    ASSUME Bounds, ConnectionInStep, [ConnectionNext]_connVars
    PROVE  /\ ConnectionInStep'
           /\ AnswersAtOnce /\ AnswersInStep => AnswersInStep'
<1>1. ReadsInStep'
  BY EveryStepReads DEF ConnectionInStep, ReadsInStep
<1>2. CASE ~patient'
  BY <1>1, <1>2 DEF ReadsInStep, ConnectionInStep, AnswersInStep
<1>3. CASE patient'
  <2>. USE <1>3
  <2>1. WaitsInStep
    <3>1. ConnectionTypes /\ ReadingInStep /\ patient
      BY ImpatientForGood DEF ConnectionInStep
    <3>2. ~feeding
      BY <3>1 DEF ReadingInStep
    <3>. QED  BY <3>1, <3>2 DEF ConnectionInStep, WaitsInStep, Waiting
  <2>2. Keeps
    <3>. USE <2>1
    <3>1. CASE OnBytes  BY <3>1, OnBytesKeeps
    <3>2. CASE OnMessage  BY <3>2, OnMessageKeeps
    <3>3. CASE OnReadError  BY <3>3, OnReadErrorKeeps
    <3>4. CASE OnWrite  BY <3>4, OnWriteKeeps
    <3>5. CASE Expire  BY <3>5, ExpireKeeps
    <3>6. CASE AnswerLater  BY <3>6, AnswerLaterKeeps
    <3>7. CASE SocketWrites  BY <3>7, SocketWritesKeeps
    <3>8. CASE SocketReads  BY <3>8, SocketReadsKeeps
    <3>9. CASE PeerLeaves \/ UNCHANGED connVars  BY <3>9, IdleKeeps
    <3>. QED
      BY <3>1, <3>2, <3>3, <3>4, <3>5, <3>6, <3>7, <3>8, <3>9 DEF ConnectionNext, RunReady
  <2>. QED  BY <1>1, <2>2 DEF Keeps, ReadsInStep, ConnectionInStep
<1>. QED  BY <1>2, <1>3

-----------------------------------------------------------------------------
(* Theorems                                                                *)

\* Flags, socket, deadline and queue of a connection stay in step, whatever
\* the client sends and whenever it leaves, the deadline expires or a handler
\* answers: for every client what is_reading, the deadline and the queued reads
\* say of each other, and for one that waits for its answers all the rest.
THEOREM ConnectionStaysInStep ==
    ASSUME Bounds
    PROVE  ConnectionSpec => []ConnectionInStep
<1>1. ConnectionInit => ConnectionInStep
  BY StartsInStep
<1>2. ConnectionInStep /\ [ConnectionNext]_connVars => ConnectionInStep'
  BY EveryStepKeeps
<1>. QED  BY <1>1, <1>2, PTL DEF ConnectionSpec

\* No read of its socket, no completion of one, no deadline and no feeding of
\* the parser refers to a connection once it has deleted itself, even for a
\* client that sends many requests at once; and nothing at all, no write either,
\* if the client waited for its answers.
THEOREM NothingOutlivesTheConnection ==
    ASSUME Bounds
    PROVE  ConnectionSpec => []NothingOutlives
<1>1. ConnectionInStep => NothingOutlives
  <2>. SUFFICES ASSUME ConnectionInStep, ~conn.exists
                PROVE  /\ ~conn.read /\ ~Queued("read") /\ ~feeding /\ ~conn.armed
                       /\ patient => conn.writes = <<>> /\ ready = <<>>
    BY DEF NothingOutlives
  <2>1. ~conn.read /\ ~Queued("read") /\ ~feeding /\ ~conn.armed
    BY DEF ConnectionInStep, ReadingInStep
  <2>2. patient => conn.writes = <<>> /\ ready = <<>>
    BY DEF ConnectionInStep, PatientInStep, NothingOutlives
  <2>. QED  BY <2>1, <2>2
<1>. QED  BY <1>1, ConnectionStaysInStep, PTL

\* is_reading tells check_destroy exactly whether a read is outstanding, and
\* there is never more than one, even for a client that sends many requests at
\* once; is_writing does so for one that waits for its answers.
THEOREM FlagsAreTrue ==
    ASSUME Bounds
    PROVE  ConnectionSpec => []FlagsMatchOperations
<1>1. ConnectionInStep => FlagsMatchOperations
  <2>. DEFINE R == {i \in DOMAIN ready : ready[i].op = "read"}
              W == {i \in DOMAIN ready : ready[i].op = "write"}
  <2>. SUFFICES ASSUME ConnectionInStep, conn.exists
                PROVE  /\ conn.reading <=>
                             conn.read \/ Queued("read") \/ conn.later \/ feeding
                       /\ Cardinality(R) + (IF conn.read \/ feeding THEN 1 ELSE 0) <= 1
                       /\ patient => /\ conn.writing <=> conn.writes # <<>> \/ Queued("write")
                                     /\ Len(conn.writes) + Cardinality(W) <= 1
    BY DEF FlagsMatchOperations
  <2>1. /\ conn.reading <=> conn.read \/ Queued("read") \/ conn.later \/ feeding
        /\ conn.read \/ feeding => ~Queued("read")
        /\ OneRead(ready) /\ (feeding => ~patient)
    BY DEF ConnectionInStep, ReadingInStep, OneRead
  <2>2. Cardinality(R) = IF Queued("read") THEN 1 ELSE 0
    <3>1. CASE Queued("read")
      <4>1. PICK i \in DOMAIN ready : ready[i].op = "read"
        BY <3>1 DEF Queued
      <4>2. R = {i}
        BY <2>1, <4>1 DEF OneRead
      <4>. QED  BY <3>1, <4>2, FS_Singleton
    <3>2. CASE ~Queued("read")
      <4>1. R = {}
        BY <3>2 DEF Queued
      <4>. QED  BY <3>2, <4>1, FS_EmptySet
    <3>. QED  BY <3>1, <3>2
  <2>3. Cardinality(R) + (IF conn.read \/ feeding THEN 1 ELSE 0) <= 1
    BY <2>1, <2>2
  <2>4. ASSUME patient
        PROVE  /\ conn.writing <=> conn.writes # <<>> \/ Queued("write")
               /\ Len(conn.writes) + Cardinality(W) <= 1
    <3>. USE <2>4
    <3>1. Together(conn, ready)
      <4>1. WaitsInStep
        BY <2>1 DEF ConnectionInStep, WaitsInStep, Waiting
      <4>. QED  BY <4>1, IInvIs, TogetherNow
    <3>2. InOrder(ready) /\ OneWrite(conn)
      BY <3>1 DEF Together, InStep, Lives
    <3>3. (HasWrite(ready) <=> W # {}) /\ (HasWrite(ready) <=> Queued("write"))
      BY DEF HasWrite, Queued
    <3>4. ASSUME NEW i \in DOMAIN ready, NEW j \in DOMAIN ready,
                 ready[i].op = "write", ready[j].op = "write"
          PROVE  i = j
      <4>1. CASE ready = <<>>
        BY <4>1, OneAndTwo
      <4>2. ASSUME NEW a \in Completion, ready = <<a>>
            PROVE  i = j
        BY <4>2, OneAndTwo
      <4>3. ASSUME NEW a \in Completion, NEW b \in Completion, ready = <<a, b>>, a.op # b.op
            PROVE  i = j
        <5>1. DOMAIN ready = {1, 2} /\ ready[1] = a /\ ready[2] = b
          BY <4>3, OneAndTwo
        <5>. QED  BY <3>4, <4>3, <5>1
      <4>. QED  BY <3>2, <4>1, <4>2, <4>3, QueueIs
    <3>5. Cardinality(W) = IF HasWrite(ready) THEN 1 ELSE 0
      <4>1. CASE W = {}
        BY <3>3, <4>1, FS_EmptySet
      <4>2. CASE W # {}
        <5>1. PICK i \in DOMAIN ready : ready[i].op = "write"
          BY <4>2
        <5>2. W = {i}
          BY <3>4, <5>1
        <5>. QED  BY <3>3, <4>2, <5>2, FS_Singleton
      <4>. QED  BY <4>1, <4>2
    <3>6. Len(conn.writes) = IF conn.writes # <<>> THEN 1 ELSE 0
      <4>1. /\ Len(<<>>) = 0 /\ Len(<<"continue">>) = 1 /\ Len(<<"answer">>) = 1
            /\ <<"continue">> # <<>> /\ <<"answer">> # <<>>
        OBVIOUS
      <4>. QED  BY <3>2, <4>1 DEF OneWrite
    <3>7. conn.writes # <<>> => ~HasWrite(ready)
      BY <3>1 DEF Together, InStep, Lives
    <3>8. Len(conn.writes) + Cardinality(W) <= 1
      BY <3>5, <3>6, <3>7
    <3>9. conn.writing <=> conn.writes # <<>> \/ Queued("write")
      BY DEF ConnectionInStep, PatientInStep, ObjectInStep
    <3>. QED  BY <3>8, <3>9
  <2>. QED  BY <2>1, <2>3, <2>4
<1>. QED  BY <1>1, ConnectionStaysInStep, PTL

\* The server waits for its client only with the deadline set, whatever the
\* client sends.
THEOREM ReadsAreTimed ==
    ASSUME Bounds
    PROVE  ConnectionSpec => []ReadsHaveDeadline
<1>1. ConnectionInStep => ReadsHaveDeadline
  BY DEF ConnectionInStep, ReadingInStep, ReadsHaveDeadline
<1>. QED  BY <1>1, ConnectionStaysInStep, PTL

\* After a request that asked for the connection to be closed the connection
\* reads no more: only what the very same read brought behind that request may
\* still be handled, whatever the client sends.
THEOREM NothingFollowsClose ==
    ASSUME Bounds
    PROVE  ConnectionSpec => CloseIsLast
<1>1. ConnectionInStep /\ [ConnectionNext]_connVars =>
        [conn.close => asked' = asked \/ feeding]_connVars
  <2>. SUFFICES ASSUME ConnectionInStep, ConnectionNext, conn.close, ~feeding
                PROVE  asked' = asked
    OBVIOUS
  <2>1. ASSUME OnMessage
        PROVE  FALSE
    <3>1. conn.exists /\ (feeding \/ (ready # <<>> /\ Head(ready).op = "read"))
      BY <2>1, Operations DEF OnMessage, HasBytes
    <3>2. Queued("read")
      <4>1. ready \in Seq(Completion) /\ ready # <<>> /\ OneRead(ready)
        BY <3>1, TimedNow DEF ConnectionInStep
      <4>2. HasRead(ready)
        BY <3>1, <4>1, ReadsOfTail
      <4>. QED  BY <4>2 DEF HasRead, Queued
    <3>. QED  BY <3>1, <3>2 DEF ConnectionInStep, ReadingInStep
  <2>. QED
    BY <2>1 DEF ConnectionNext, RunReady, OnBytes, OnReadError, OnWrite, Expire, AnswerLater,
                        SocketWrites, SocketReads, PeerLeaves
<1>. QED  BY <1>1, ConnectionStaysInStep, PTL DEF ConnectionSpec, CloseIsLast

\* All of this together: what it says of reads and of the deadline for every
\* client, the rest for one that waits for its answers.
THEOREM ConnectionKeepsItsPromises ==
    ASSUME Bounds
    PROVE  ConnectionSpec => ConnectionIsSafe
BY ConnectionStaysInStep, NothingOutlivesTheConnection, FlagsAreTrue, ReadsAreTimed,
   NothingFollowsClose, PTL DEF ConnectionIsSafe

\* With rules that answer at once, a connection that was not cut off has
\* answered every request of a client that waits before it deletes itself.
THEOREM RequestsAreAnswered ==
    ASSUME Bounds, AnswersAtOnce
    PROVE  ConnectionSpec => []AnsweredBeforeDeleted
<1>1. ConnectionInit => AnswersInStep
  BY StartsInStep
<1>2. ConnectionInStep /\ AnswersInStep /\ [ConnectionNext]_connVars => AnswersInStep'
  BY EveryStepKeeps
<1>3. AnswersInStep => AnsweredBeforeDeleted
  BY DEF AnswersInStep, AnsweredBeforeDeleted
<1>. QED  BY <1>1, <1>2, <1>3, ConnectionStaysInStep, PTL DEF ConnectionSpec
=============================================================================
