----------------------------- MODULE MatchProofs -----------------------------
(***************************************************************************)
(* Proofs about Match for any number of AIs, turns, stars and ticks, pipes *)
(* of any size and any lines.                                              *)
(***************************************************************************)
EXTENDS Match, FiniteSetTheorems, WellFoundedInduction, TLAPS

LEMMA PlayersAreNumbers == Players \subseteq Nat
BY MatchAssumption DEF Players

LEMMA SmallestNat ==
    ASSUME NEW T, T \subseteq Nat, T # {}
    PROVE  \E m \in T : \A n \in T : m <= n
<1>1. PICK m \in T : \A n \in T : ~ (<< n, m >> \in OpToRel(<, Nat))
  BY WFMin, NatLessThanWellFounded
<1>2. \A n \in T : ~ (n < m)
  BY <1>1 DEF OpToRel
<1>. QED  BY <1>2

(* The runner asks one of those it has not asked yet.                      *)
LEMMA CurrentIsTodo ==
    ASSUME todo \subseteq Players, todo # {}
    PROVE  Current \in todo /\ Current \in Players
<1>1. \E m \in todo : \A n \in todo : m <= n
  BY PlayersAreNumbers, SmallestNat
<1>. QED  BY <1>1 DEF Current, Min

-----------------------------------------------------------------------------
(* The lines of an AI                                                      *)

LEMMA LineAfter ==
    ASSUME NEW line \in LineType
    PROVE  /\ line.answer \in 1 .. MaxTurns /\ line.kind \in Kinds
           /\ After(line) = IF line.kind = "done" THEN line.answer + 1 ELSE line.answer
           /\ After(line) \in 1 .. MaxTurns + 1
BY MatchAssumption DEF LineType, After

LEMMA AppendLine ==
    ASSUME NEW T, NEW s \in Seq(T), NEW x \in T
    PROVE  /\ Append(s, x) \in Seq(T) /\ Append(s, x) # << >>
           /\ Len(Append(s, x)) = Len(s) + 1 /\ Append(s, x)[Len(s) + 1] = x
           /\ \A i \in DOMAIN Append(s, x) :
                i # Len(s) + 1 => i \in DOMAIN s /\ Append(s, x)[i] = s[i]
OBVIOUS

LEMMA TailLine ==
    ASSUME NEW T, NEW s \in Seq(T), s # << >>
    PROVE  /\ Tail(s) \in Seq(T) /\ Head(s) = s[1] /\ Head(s) \in T
           /\ 1 \in DOMAIN s /\ Len(Tail(s)) = Len(s) - 1
           /\ Len(s) \in Nat \ {0} /\ DOMAIN s = 1 .. Len(s)
           /\ DOMAIN Tail(s) = 1 .. Len(s) - 1 /\ (Tail(s) = << >> <=> Len(s) = 1)
           /\ \A i \in DOMAIN Tail(s) : i + 1 \in DOMAIN s /\ Tail(s)[i] = s[i + 1]
<1>1. Len(s) \in Nat \ {0} /\ DOMAIN s = 1 .. Len(s)
  OBVIOUS
<1>2. Tail(s) \in Seq(T) /\ DOMAIN Tail(s) = 1 .. Len(s) - 1 /\ Len(Tail(s)) = Len(s) - 1
  BY <1>1
<1>3. Tail(s) = << >> <=> Len(s) = 1
  BY <1>1, <1>2
<1>. QED  BY <1>1, <1>2, <1>3

(* A line more: it belongs to the answer the AI is writing.                *)
LEMMA StreamGrows ==
    ASSUME NEW r \in ProcessType, NEW s, NEW due, NEW line \in LineType,
           StreamInStep(r, due), line.answer = r.answer,
           s.out = Append(r.out, line), s.answer = After(line)
    PROVE  StreamInStep(s, due)
<1>1. r.out \in Seq(LineType)
  BY DEF ProcessType
<1> DEFINE n == Len(r.out)
<1>2. /\ s.out # << >> /\ Len(s.out) = n + 1 /\ s.out[n + 1] = line
      /\ \A i \in DOMAIN s.out : i # n + 1 => i \in DOMAIN r.out /\ s.out[i] = r.out[i]
  BY <1>1, AppendLine
<1>3. DOMAIN s.out = 1 .. n + 1 /\ DOMAIN r.out = 1 .. n /\ n \in Nat
      /\ (r.out = << >> <=> n = 0)
  BY <1>1, <1>2, AppendLine
<1> HIDE DEF n
<1>4. ASSUME NEW i \in DOMAIN s.out
      PROVE  s.out[i].answer = IF i = 1 THEN due ELSE After(s.out[i - 1])
  <2>1. CASE i # n + 1
    <3>1. i \in DOMAIN r.out /\ s.out[i] = r.out[i]
      BY <1>2, <2>1
    <3>2. i # 1 => i - 1 \in DOMAIN s.out /\ i - 1 # n + 1
      BY <1>3, <3>1
    <3>3. i # 1 => s.out[i - 1] = r.out[i - 1]
      BY <1>2, <3>2
    <3>. QED  BY <3>1, <3>3 DEF StreamInStep
  <2>2. CASE i = n + 1 /\ n = 0
    BY <1>2, <1>3, <2>2 DEF StreamInStep
  <2>3. CASE i = n + 1 /\ n # 0
    <3>1. i # 1 /\ i - 1 = n /\ n \in DOMAIN s.out /\ n # n + 1 /\ r.out # << >>
      BY <1>3, <2>3
    <3>2. s.out[i - 1] = r.out[n]
      BY <1>2, <3>1
    <3>3. r.answer = After(r.out[n])
      BY <3>1 DEF StreamInStep, n
    <3>. QED  BY <1>2, <2>3, <3>1, <3>2, <3>3
  <2>. QED  BY <2>1, <2>2, <2>3
<1>. QED  BY <1>2, <1>4 DEF StreamInStep

(* A line less: the next one belongs to the answer after it.               *)
LEMMA StreamShrinks ==
    ASSUME NEW r \in ProcessType, NEW s, NEW due, StreamInStep(r, due),
           r.out # << >>, s.out = Tail(r.out), s.answer = r.answer
    PROVE  StreamInStep(s, After(Head(r.out))) /\ Head(r.out).answer = due
<1>1. r.out \in Seq(LineType)
  BY DEF ProcessType
<1> DEFINE n == Len(r.out)
<1>2. /\ Head(r.out) = r.out[1] /\ 1 \in DOMAIN r.out /\ Len(s.out) = n - 1
      /\ \A i \in DOMAIN s.out : i + 1 \in DOMAIN r.out /\ s.out[i] = r.out[i + 1]
  BY <1>1, TailLine
<1>3. DOMAIN s.out = 1 .. n - 1 /\ DOMAIN r.out = 1 .. n /\ n \in Nat \ {0}
      /\ (s.out = << >> <=> n = 1)
  BY <1>1, TailLine
<1>4. Head(r.out).answer = due
  BY <1>2 DEF StreamInStep
<1> HIDE DEF n
<1>5. ASSUME NEW i \in DOMAIN s.out
      PROVE  s.out[i].answer = IF i = 1 THEN After(Head(r.out)) ELSE After(s.out[i - 1])
  <2>1. s.out[i] = r.out[i + 1] /\ i + 1 \in DOMAIN r.out /\ i + 1 # 1 /\ (i + 1) - 1 = i
    BY <1>2, <1>3
  <2>2. s.out[i].answer = After(r.out[i])
    BY <2>1 DEF StreamInStep
  <2>3. i # 1 => s.out[i - 1] = r.out[i]
    <3>1. i # 1 => i - 1 \in DOMAIN s.out /\ (i - 1) + 1 = i
      BY <1>3
    <3>. QED  BY <1>2, <3>1
  <2>. QED  BY <1>2, <2>2, <2>3
<1>6. s.answer = IF s.out = << >> THEN After(Head(r.out)) ELSE After(s.out[Len(s.out)])
  <2>1. r.out # << >> /\ r.answer = After(r.out[n])
    BY DEF StreamInStep, n
  <2>2. CASE n = 1
    BY <1>2, <1>3, <2>1, <2>2
  <2>3. CASE n # 1
    <3>1. s.out # << >> /\ Len(s.out) \in DOMAIN s.out /\ Len(s.out) + 1 = n
      BY <1>2, <1>3, <2>3
    <3>2. s.out[Len(s.out)] = r.out[n]
      BY <1>2, <3>1
    <3>. QED  BY <2>1, <3>1, <3>2
  <2>. QED  BY <2>2, <2>3
<1>. QED  BY <1>4, <1>5, <1>6 DEF StreamInStep

-----------------------------------------------------------------------------
(* Processes                                                               *)

LEMMA StartedType ==
    ASSUME NEW r \in {Up, NotUp}
    PROVE  /\ r \in ProcessType /\ StreamInStep(r, 1)
           /\ r.failed <=> r.cause # "none"
           /\ r.failed => ~r.alive
           /\ r.cause # "stopped"
<1>1. << >> \in Seq(LineType) /\ 0 \in 0 .. PipeSize /\ 0 \in 0 .. MaxOrders
      /\ 1 \in 1 .. MaxTurns + 1
  BY MatchAssumption
<1>2. Up \in ProcessType /\ NotUp \in ProcessType
  BY <1>1 DEF Up, NotUp, ProcessType, Causes
<1>3. r.out = << >> /\ r.answer = 1 /\ r.cause # "stopped"
      /\ (r.failed <=> r.cause # "none") /\ (r.failed => ~r.alive)
  <2>1. CASE r = Up
    BY <2>1 DEF Up
  <2>2. CASE r = NotUp
    BY <2>2 DEF Up, NotUp
  <2>. QED  BY <2>1, <2>2
<1>4. StreamInStep(r, 1)
  <2>1. DOMAIN r.out = {}
    BY <1>3
  <2>. QED  BY <1>3, <2>1 DEF StreamInStep
<1>. QED  BY <1>2, <1>3, <1>4

(* A process that failed or goes on with the lines it has written.         *)
Kept(old, new) ==
    /\ new.failed <=> new.cause # "none"
    /\ new.failed => ~new.alive
    /\ old.failed => new.failed
    /\ new.cause = "stopped" => old.cause = "stopped"
    /\ ~new.failed => new.out = old.out /\ new.answer = old.answer

LEMMA Marked ==
    ASSUME NEW r \in ProcessType, NEW why \in Causes \ {"none"},
           r.failed <=> r.cause # "none", r.failed => ~r.alive
    PROVE  /\ MarkAsFailed(r, why) \in ProcessType
           /\ MarkAsFailed(r, why).failed /\ ~MarkAsFailed(r, why).alive
           /\ MarkAsFailed(r, why).cause = IF r.failed THEN r.cause ELSE why
           /\ MarkAsFailed(r, why).cause # "none"
<1>1. << >> \in Seq(LineType)
  OBVIOUS
<1>. QED  BY <1>1 DEF MarkAsFailed, ProcessType

LEMMA ProcIsTyped ==
    ASSUME IInv, NEW p \in Players
    PROVE  /\ proc \in [Players -> ProcessType] /\ proc[p] \in ProcessType
           /\ ProcessInStep(p) /\ Kept(proc[p], proc[p])
BY DEF IInv, MatchConsistent, TypeOK, RunnerInStep, ProcessInStep, Kept

(* What a failure leaves of the processes.                                 *)
LEMMA FailKeeps ==
    ASSUME IInv, NEW p \in Players, NEW why \in Causes \ {"none", "stopped"}, Fail(p, why)
    PROVE  /\ proc' \in [Players -> ProcessType] /\ proc'[p].failed
           /\ \A q \in Players \ {p} : proc'[q] = proc[q]
           /\ \A q \in Players : Kept(proc[q], proc'[q])
<1> DEFINE r == MarkAsFailed(proc[p], why)
<1>1. /\ proc \in [Players -> ProcessType] /\ proc[p] \in ProcessType
      /\ proc[p].failed <=> proc[p].cause # "none"
      /\ proc[p].failed => ~proc[p].alive
  BY ProcIsTyped DEF ProcessInStep
<1>2. r \in ProcessType /\ r.failed /\ ~r.alive /\ r.cause # "none"
      /\ r.cause = IF proc[p].failed THEN proc[p].cause ELSE why
  BY <1>1, Marked
<1>3. proc' = [proc EXCEPT ![p] = r]
  BY DEF Fail
<1> HIDE DEF r
<1>4. Kept(proc[p], proc'[p])
  BY <1>1, <1>2, <1>3 DEF Kept
<1>. QED  BY <1>1, <1>2, <1>3, <1>4, ProcIsTyped

LEMMA WriteKeeps ==
    ASSUME IInv, NEW p \in Players, WriteMessage(p)
    PROVE  /\ proc' \in [Players -> ProcessType]
           /\ \A q \in Players \ {p} : proc'[q] = proc[q]
           /\ \A q \in Players : Kept(proc[q], proc'[q])
<1>1. proc \in [Players -> ProcessType] /\ proc[p] \in ProcessType
  BY ProcIsTyped
<1>2. CASE UNCHANGED proc
  BY <1>1, <1>2, ProcIsTyped
<1>3. CASE Fail(p, "unread")
  BY <1>3, FailKeeps DEF Causes
<1>4. CASE /\ proc[p].alive /\ proc[p].inbox < PipeSize
           /\ proc' = [proc EXCEPT ![p].inbox = @ + 1]
  <2> DEFINE r == [proc[p] EXCEPT !.inbox = @ + 1]
  <2>1. proc[p].inbox + 1 \in 0 .. PipeSize
    BY <1>1, <1>4, MatchAssumption DEF ProcessType
  <2>2. r \in ProcessType /\ r.failed = proc[p].failed /\ r.cause = proc[p].cause
        /\ r.alive = proc[p].alive /\ r.out = proc[p].out /\ r.answer = proc[p].answer
    BY <1>1, <2>1 DEF ProcessType
  <2>3. proc' = [proc EXCEPT ![p] = r]
    BY <1>1, <1>4
  <2> HIDE DEF r
  <2>4. Kept(proc[p], proc'[p])
    <3>1. Kept(proc[p], proc[p]) /\ proc'[p] = r
      BY <1>1, <2>3, ProcIsTyped
    <3>. QED  BY <2>2, <3>1 DEF Kept
  <2>. QED  BY <1>1, <2>2, <2>3, <2>4, ProcIsTyped
<1>. QED  BY <1>2, <1>3, <1>4 DEF WriteMessage

(* A process that is kept stays in step while its next answer stays due.   *)
LEMMA ProcessStays ==
    ASSUME NEW p \in Players, ProcessInStep(p), Kept(proc[p], proc'[p]),
           pc \notin {"over", "thrown"}, pc' # "over",
           proc'[p].failed \/ pc' = "thrown" \/ Due(p)' = Due(p),
           pc' \in {"writing", "reading"} /\ p \in todo' => orders'[p] = {}
    PROVE  ProcessInStep(p)'
<1>1. /\ proc'[p].failed <=> proc'[p].cause # "none"
      /\ proc'[p].failed => ~proc'[p].alive
      /\ proc'[p].cause # "stopped"
  BY DEF ProcessInStep, Kept
<1>2. ASSUME ~proc'[p].failed, pc' # "thrown"
      PROVE  StreamInStep(proc[p], Due(p))'
  <2>1. StreamInStep(proc[p], Due(p)) /\ Due(p)' = Due(p)
        /\ proc'[p].out = proc[p].out /\ proc'[p].answer = proc[p].answer
    BY <1>2 DEF ProcessInStep, Kept
  <2>. QED  BY <2>1 DEF StreamInStep, After
<1>. QED  BY <1>1, <1>2 DEF ProcessInStep

LEMMA InitIInv == Init => IInv
<1> SUFFICES ASSUME Init PROVE IInv
  OBVIOUS
<1>1. /\ proc \in [Players -> {Up, NotUp}] /\ pc = "greeting" /\ todo = Players
      /\ lines = << >> /\ quiet = 0 /\ asked = 0 /\ turn = 0 /\ score = << >>
      /\ stars \in [Sides -> {PerSide}] /\ reported = {}
      /\ orders \in [Players -> {{}}]
  BY DEF Init, Idle
<1>2. TypeOK
  <2>1. proc \in [Players -> ProcessType]
    BY <1>1, StartedType
  <2>2. << >> \in Seq(LineType) /\ << >> \in Seq(Nat)
    OBVIOUS
  <2>3. quiet \in 0 .. LineLimit /\ asked \in 0 .. LineLimit + 1 /\ turn \in 0 .. MaxTurns
    BY <1>1, MatchAssumption
  <2>4. PerSide \in 0 .. NumStars
    BY MatchAssumption
  <2>5. stars \in [Sides -> 0 .. NumStars] /\ orders \in [Players -> SUBSET (1 .. MaxTurns)]
    BY <1>1, <2>4
  <2>. QED  BY <1>1, <2>1, <2>2, <2>3, <2>5 DEF TypeOK
<1>3. ASSUME NEW p \in Players
      PROVE  ProcessInStep(p)
  <2>1. Due(p) = 1
    BY <1>1 DEF Due, InTurn
  <2>2. proc[p] \in {Up, NotUp}
    BY <1>1
  <2>. QED  BY <1>1, <2>1, <2>2, StartedType DEF ProcessInStep
<1>4. stars[0] + stars[1] <= NumStars
  <2>1. stars[0] = PerSide /\ stars[1] = PerSide
    BY <1>1 DEF Sides
  <2>. QED  BY <2>1, MatchAssumption
<1>. QED  BY <1>1, <1>2, <1>3, <1>4
     DEF IInv, MatchConsistent, RunnerInStep, InTurn, AnswersStayInStep, EndIsClean

-----------------------------------------------------------------------------
(* The runner                                                              *)

LEMMA KnownOfRunner ==
    ASSUME IInv
    PROVE  /\ TypeOK /\ RunnerInStep /\ AnswersStayInStep
           /\ todo \subseteq Players /\ turn \in Nat /\ MaxTurns \in Nat
           /\ lines \in Seq(LineType)
           /\ orders \in [Players -> SUBSET (1 .. MaxTurns)]
BY MatchAssumption DEF IInv, MatchConsistent, TypeOK

LEMMA GreetIInv == ASSUME IInv, NEW p \in Players, Greet(p) PROVE IInv'
<1>1. pc = "greeting" /\ pc' \in {"greeting", "turn"} /\ todo' = todo \ {p}
      /\ UNCHANGED << timing, orders, turn, outcome >>
  BY DEF Greet
<1>2. /\ proc' \in [Players -> ProcessType]
      /\ \A q \in Players : Kept(proc[q], proc'[q])
  BY WriteKeeps DEF Greet
<1>3. TypeOK'
  BY <1>1, <1>2, KnownOfRunner DEF TypeOK, timing, outcome
<1>4. ASSUME NEW q \in Players
      PROVE  ProcessInStep(q)'
  <2>1. Due(q)' = Due(q)
    BY <1>1 DEF Due, InTurn
  <2>. QED  BY <1>1, <1>2, <2>1, ProcessStays, ProcIsTyped
<1>5. RunnerInStep' /\ AnswersStayInStep'
  BY <1>1, <1>4, KnownOfRunner DEF RunnerInStep, AnswersStayInStep, InTurn, timing,
     outcome
<1>. QED  BY <1>1, <1>3, <1>5 DEF IInv, MatchConsistent, EndIsClean

LEMMA BeginTurnIInv == ASSUME IInv, BeginTurn PROVE IInv'
<1>1. pc = "turn" /\ pc' = "writing" /\ todo' = Players /\ orders' = Idle
      /\ turn < MaxTurns /\ UNCHANGED << proc, timing, turn, outcome >>
  BY DEF BeginTurn
<1>2. orders' \in [Players -> SUBSET (1 .. MaxTurns)] /\ \A q \in Players : orders'[q] = {}
  BY <1>1 DEF Idle
<1>3. TypeOK'
  <2>1. 0 \in Players
    BY MatchAssumption DEF Players
  <2>. QED  BY <1>1, <1>2, <2>1, KnownOfRunner DEF TypeOK, timing, outcome
<1>4. ASSUME NEW q \in Players
      PROVE  ProcessInStep(q)'
  <2>1. Due(q)' = Due(q) /\ Kept(proc[q], proc'[q])
    BY <1>1, ProcIsTyped DEF Due, InTurn
  <2>. QED  BY <1>1, <1>2, <2>1, ProcessStays, ProcIsTyped
<1>5. RunnerInStep'
  BY <1>1, <1>4, KnownOfRunner DEF RunnerInStep, timing, outcome
<1>6. AnswersStayInStep'
  BY <1>1, <1>2, KnownOfRunner DEF RunnerInStep, AnswersStayInStep, timing
<1>. QED  BY <1>1, <1>3, <1>5, <1>6 DEF IInv, MatchConsistent, EndIsClean

LEMMA AskNextIInv == ASSUME IInv, AskNext PROVE IInv'
<1>1. pc = "writing" /\ pc' = "reading" /\ lines' = << >> /\ quiet' = 0 /\ asked' = 0
      /\ UNCHANGED << todo, orders, turn, outcome >>
  BY DEF AskNext
<1>2. Current \in todo /\ Current \in Players
  BY <1>1, KnownOfRunner, CurrentIsTodo DEF TypeOK
<1>3. /\ proc' \in [Players -> ProcessType]
      /\ \A q \in Players \ {Current} : proc'[q] = proc[q]
      /\ \A q \in Players : Kept(proc[q], proc'[q])
  BY <1>2, WriteKeeps DEF AskNext
<1>4. TypeOK'
  <2>1. << >> \in Seq(LineType) /\ 0 \in 0 .. LineLimit /\ 0 \in 0 .. LineLimit + 1
    BY MatchAssumption
  <2>. QED  BY <1>1, <1>3, <2>1, KnownOfRunner DEF TypeOK, outcome
<1>5. ASSUME NEW q \in Players
      PROVE  ProcessInStep(q)' /\ (q \in todo => orders[q] = {})
  <2>1. Due(q)' = Due(q)
    BY <1>1 DEF Due, InTurn
  <2>2. q \in todo => orders[q] = {}
    BY <1>1, KnownOfRunner DEF RunnerInStep, ProcessInStep
  <2>. QED  BY <1>1, <1>3, <2>1, <2>2, ProcessStays, ProcIsTyped
<1>6. RunnerInStep'
  BY <1>1, <1>5, KnownOfRunner DEF RunnerInStep, InTurn, outcome
<1>7. AnswersStayInStep'
  <2>1. ASSUME NEW q \in Players
        PROVE  orders'[q] \subseteq IF proc'[q].failed THEN {} ELSE {turn' + 1}
    <3>1. CASE q = Current
      BY <1>1, <1>2, <1>5, <3>1
    <3>2. CASE q # Current
      BY <1>1, <1>3, <3>2, KnownOfRunner DEF AnswersStayInStep
    <3>. QED  BY <3>1, <3>2
  <2>. QED  BY <1>1, <2>1 DEF AnswersStayInStep
<1>. QED  BY <1>1, <1>4, <1>6, <1>7 DEF IInv, MatchConsistent, EndIsClean

(* Without an answer, the AI asked has failed now or before.               *)
LEMMA UnansweredIInv ==
    ASSUME IInv, pc = "reading", Answered, UNCHANGED << orders, turn, outcome >>,
           proc' \in [Players -> ProcessType], proc'[Current].failed,
           \A q \in Players \ {Current} : proc'[q] = proc[q],
           \A q \in Players : Kept(proc[q], proc'[q])
    PROVE  IInv'
<1>1. /\ todo' = todo \ {Current} /\ pc' = IF todo' = {} THEN "advancing" ELSE "writing"
      /\ lines' = << >> /\ quiet' = 0 /\ asked' = 0
  BY DEF Answered
<1>2. Current \in todo /\ Current \in Players
  BY KnownOfRunner, CurrentIsTodo DEF TypeOK
<1>3. TypeOK'
  <2>1. << >> \in Seq(LineType) /\ 0 \in 0 .. LineLimit /\ 0 \in 0 .. LineLimit + 1
    BY MatchAssumption
  <2>. QED  BY <1>1, <2>1, KnownOfRunner DEF TypeOK, outcome
<1>4. ASSUME NEW q \in Players
      PROVE  ProcessInStep(q)' /\ (q \in todo => orders[q] = {})
  <2>1. q # Current => Due(q)' = Due(q)
    BY <1>1 DEF Due, InTurn
  <2>2. q \in todo => orders[q] = {}
    BY KnownOfRunner DEF RunnerInStep, ProcessInStep
  <2>. QED  BY <1>1, <2>1, <2>2, ProcessStays, ProcIsTyped
<1>5. RunnerInStep'
  BY <1>1, <1>4, KnownOfRunner DEF RunnerInStep, InTurn, outcome
<1>6. AnswersStayInStep'
  <2>1. ASSUME NEW q \in Players
        PROVE  orders'[q] \subseteq IF proc'[q].failed THEN {} ELSE {turn' + 1}
    <3>1. CASE q = Current
      BY <1>2, <1>4, <3>1
    <3>2. CASE q # Current
      BY <3>2, KnownOfRunner DEF AnswersStayInStep
    <3>. QED  BY <3>1, <3>2
  <2>. QED  BY <1>1, <2>1 DEF AnswersStayInStep
<1>. QED  BY <1>1, <1>3, <1>5, <1>6 DEF IInv, MatchConsistent, EndIsClean

LEMMA SkipFailedIInv == ASSUME IInv, SkipFailed PROVE IInv'
BY UnansweredIInv, ProcIsTyped, KnownOfRunner DEF SkipFailed, TypeOK

LEMMA NoAnswerIInv ==
    ASSUME IInv, Reading, NEW why \in Causes \ {"none", "stopped"}, NoAnswer(why)
    PROVE  IInv'
<1>1. pc = "reading" /\ Fail(Current, why) /\ Answered /\ UNCHANGED << orders, turn, outcome >>
  BY DEF Reading, NoAnswer
<1>2. Current \in Players
  BY <1>1, KnownOfRunner, CurrentIsTodo DEF TypeOK
<1>3. /\ proc' \in [Players -> ProcessType] /\ proc'[Current].failed
      /\ \A q \in Players \ {Current} : proc'[q] = proc[q]
      /\ \A q \in Players : Kept(proc[q], proc'[q])
  BY <1>1, <1>2, FailKeeps
<1>. QED  BY <1>1, <1>3, UnansweredIInv

LEMMA TickIInv == ASSUME IInv, Tick PROVE IInv'
<1>1. pc = "reading" /\ UNCHANGED << proc, pc, todo, lines, orders, turn, outcome >>
      /\ quiet' \in 0 .. LineLimit /\ asked' \in 0 .. LineLimit + 1
  BY KnownOfRunner, MatchAssumption DEF Tick, Reading, TypeOK
<1>2. TypeOK'
  BY <1>1, KnownOfRunner DEF TypeOK, outcome
<1>3. ASSUME NEW q \in Players
      PROVE  ProcessInStep(q)'
  <2>1. Due(q)' = Due(q) /\ Kept(proc[q], proc'[q])
    BY <1>1, ProcIsTyped DEF Due, InTurn
  <2>2. pc \in {"writing", "reading"} /\ q \in todo => orders[q] = {}
    BY ProcIsTyped DEF ProcessInStep
  <2>. QED  BY <1>1, <2>1, <2>2, ProcessStays, ProcIsTyped
<1>4. RunnerInStep' /\ AnswersStayInStep'
  BY <1>1, <1>3, KnownOfRunner DEF RunnerInStep, AnswersStayInStep, InTurn, outcome
<1>. QED  BY <1>1, <1>2, <1>4 DEF IInv, MatchConsistent, EndIsClean
(* The line read is of the answer to this turn.                            *)
LEMMA LineIsRead ==
    ASSUME IInv, Reading, ~NothingToRead, proc' = Consumed
    PROVE  /\ pc = "reading" /\ Current \in todo /\ Current \in Players
           /\ Line \in LineType /\ Line.answer = turn + 1
           /\ proc' \in [Players -> ProcessType]
           /\ \A q \in Players \ {Current} : proc'[q] = proc[q]
           /\ ~proc'[Current].failed /\ proc'[Current].cause = "none"
           /\ StreamInStep(proc'[Current], After(Line))
<1> DEFINE p == Current
           r == [proc[p] EXCEPT !.out = Tail(@)]
<1>1. pc = "reading" /\ ~proc[p].failed /\ proc[p].out # << >>
  BY DEF Reading, NothingToRead
<1>2. p \in todo /\ p \in Players
  BY <1>1, KnownOfRunner, CurrentIsTodo DEF TypeOK
<1>3. /\ proc \in [Players -> ProcessType] /\ proc[p] \in ProcessType
      /\ proc[p].cause = "none" /\ StreamInStep(proc[p], turn + 1)
  <2>1. Due(p) = turn + 1
    BY <1>1, <1>2 DEF Due
  <2>. QED  BY <1>1, <1>2, <2>1, ProcIsTyped DEF ProcessInStep
<1>4. proc[p].out \in Seq(LineType)
  BY <1>3 DEF ProcessType
<1>5. Tail(proc[p].out) \in Seq(LineType) /\ Head(proc[p].out) \in LineType
  BY <1>1, <1>4, TailLine
<1>6. /\ r \in ProcessType /\ r.out = Tail(proc[p].out) /\ r.answer = proc[p].answer
      /\ r.failed = proc[p].failed /\ r.cause = proc[p].cause
  BY <1>3, <1>5 DEF ProcessType
<1>7. proc' = [proc EXCEPT ![p] = r]
  BY <1>2, <1>3 DEF Consumed
<1>8. Line = Head(proc[p].out)
  BY DEF Line
<1> HIDE DEF r, p
<1>9. StreamInStep(r, After(Head(proc[p].out))) /\ Head(proc[p].out).answer = turn + 1
  BY <1>1, <1>3, <1>6, StreamShrinks
<1>10. proc'[p] = r /\ \A q \in Players \ {p} : proc'[q] = proc[q]
  BY <1>2, <1>3, <1>7
<1>. QED  BY <1>1, <1>2, <1>3, <1>5, <1>6, <1>7, <1>8, <1>9, <1>10 DEF p

LEMMA ReadOrderIInv == ASSUME IInv, ReadOrder PROVE IInv'
<1>1. /\ Reading /\ ~NothingToRead /\ proc' = Consumed
      /\ lines' = Append(lines, Line) /\ quiet' = 0
      /\ UNCHANGED << pc, todo, asked, orders, turn, outcome >>
      /\ Line.kind # "done"
  BY DEF ReadOrder
<1>2. /\ pc = "reading" /\ Current \in todo /\ Current \in Players
      /\ Line \in LineType /\ Line.answer = turn + 1
      /\ proc' \in [Players -> ProcessType]
      /\ \A q \in Players \ {Current} : proc'[q] = proc[q]
      /\ ~proc'[Current].failed /\ proc'[Current].cause = "none"
      /\ StreamInStep(proc'[Current], After(Line))
  BY <1>1, LineIsRead
<1>3. After(Line) = turn + 1
  BY <1>1, <1>2 DEF After
<1> DEFINE line == Line
<1> HIDE DEF line
<1>4. /\ lines' \in Seq(LineType)
      /\ \A i \in DOMAIN lines' : lines'[i].answer = turn + 1
  <2>1. \A i \in DOMAIN lines : lines[i].answer = turn + 1
    BY KnownOfRunner DEF AnswersStayInStep
  <2>2. lines' = Append(lines, line) /\ line \in LineType /\ line.answer = turn + 1
    BY <1>1, <1>2 DEF line
  <2>. QED  BY <2>1, <2>2, KnownOfRunner, AppendLine
<1>5. TypeOK'
  <2>1. 0 \in 0 .. LineLimit
    BY MatchAssumption
  <2>. QED  BY <1>1, <1>2, <1>4, <2>1, KnownOfRunner DEF TypeOK, outcome
<1>6. ASSUME NEW q \in Players
      PROVE  ProcessInStep(q)' /\ (q \in todo => orders[q] = {})
  <2>1. Due(q)' = Due(q) /\ (q \in todo => orders[q] = {})
    BY <1>1, <1>2, ProcIsTyped DEF Due, InTurn, ProcessInStep
  <2>2. CASE q = Current
    <3>1. Due(q)' = turn + 1
      BY <1>1, <1>2, <2>1, <2>2 DEF Due
    <3>2. StreamInStep(proc[q], Due(q))'
      BY <1>2, <1>3, <2>2, <3>1 DEF StreamInStep, After
    <3>. QED  BY <1>1, <1>2, <2>1, <2>2, <3>2 DEF ProcessInStep
  <2>3. CASE q # Current
    BY <1>1, <1>2, <2>1, <2>3, ProcessStays, ProcIsTyped
  <2>. QED  BY <2>1, <2>2, <2>3
<1>7. RunnerInStep'
  BY <1>1, <1>2, <1>6, KnownOfRunner DEF RunnerInStep, InTurn, outcome
<1>8. AnswersStayInStep'
  <2>1. ASSUME NEW q \in Players
        PROVE  orders'[q] \subseteq IF proc'[q].failed THEN {} ELSE {turn' + 1}
    <3>1. CASE q = Current
      BY <1>1, <1>2, <1>6, <3>1
    <3>2. CASE q # Current
      BY <1>1, <1>2, <3>2, KnownOfRunner DEF AnswersStayInStep
    <3>. QED  BY <3>1, <3>2
  <2>. QED  BY <1>1, <1>4, <2>1 DEF AnswersStayInStep
<1>. QED  BY <1>1, <1>2, <1>5, <1>7, <1>8 DEF IInv, MatchConsistent, EndIsClean

LEMMA ReadDoneIInv == ASSUME IInv, ReadDone PROVE IInv'
<1>1. /\ Reading /\ ~NothingToRead /\ proc' = Consumed /\ Line.kind = "done"
      /\ orders' = [orders EXCEPT ![Current] = Parsed(lines)]
      /\ UNCHANGED << turn, outcome >>
      /\ todo' = todo \ {Current} /\ pc' = IF todo' = {} THEN "advancing" ELSE "writing"
      /\ lines' = << >> /\ quiet' = 0 /\ asked' = 0
  BY DEF ReadDone, Answered
<1>2. /\ pc = "reading" /\ Current \in todo /\ Current \in Players
      /\ Line \in LineType /\ Line.answer = turn + 1
      /\ proc' \in [Players -> ProcessType]
      /\ \A q \in Players \ {Current} : proc'[q] = proc[q]
      /\ ~proc'[Current].failed /\ proc'[Current].cause = "none"
      /\ StreamInStep(proc'[Current], After(Line))
  BY <1>1, LineIsRead
<1>3. After(Line) = turn + 2
  BY <1>1, <1>2, KnownOfRunner DEF After
<1>4. turn < MaxTurns /\ turn + 1 \in 1 .. MaxTurns
  BY <1>2, KnownOfRunner DEF RunnerInStep, InTurn
<1>5. /\ Parsed(lines) \subseteq {turn + 1} /\ orders'[Current] = Parsed(lines)
      /\ orders' \in [Players -> SUBSET (1 .. MaxTurns)]
      /\ \A q \in Players \ {Current} : orders'[q] = orders[q]
  <2>1. Parsed(lines) \subseteq {turn + 1}
    BY KnownOfRunner DEF Parsed, AnswersStayInStep
  <2>. QED  BY <1>1, <1>2, <1>4, <2>1, KnownOfRunner
<1>6. TypeOK'
  <2>1. << >> \in Seq(LineType) /\ 0 \in 0 .. LineLimit /\ 0 \in 0 .. LineLimit + 1
    BY MatchAssumption
  <2>. QED  BY <1>1, <1>2, <1>5, <2>1, KnownOfRunner DEF TypeOK, outcome
<1>7. ASSUME NEW q \in Players
      PROVE  ProcessInStep(q)'
  <2>1. CASE q = Current
    <3>1. Due(q)' = turn + 2
      BY <1>1, <2>1 DEF Due, InTurn
    <3>2. StreamInStep(proc[q], Due(q))'
      BY <1>2, <1>3, <2>1, <3>1 DEF StreamInStep, After
    <3>. QED  BY <1>1, <1>2, <2>1, <3>2 DEF ProcessInStep
  <2>2. CASE q # Current
    <3>1. Due(q)' = Due(q) /\ (q \in todo => orders[q] = {})
      BY <1>1, <1>2, <2>2, ProcIsTyped DEF Due, InTurn, ProcessInStep
    <3>. QED  BY <1>1, <1>2, <1>5, <2>2, <3>1, ProcessStays, ProcIsTyped
  <2>. QED  BY <2>1, <2>2
<1>8. RunnerInStep'
  BY <1>1, <1>2, <1>7, KnownOfRunner DEF RunnerInStep, InTurn, outcome
<1>9. AnswersStayInStep'
  <2>1. ASSUME NEW q \in Players
        PROVE  orders'[q] \subseteq IF proc'[q].failed THEN {} ELSE {turn' + 1}
    <3>1. CASE q = Current
      BY <1>1, <1>2, <1>5, <3>1
    <3>2. CASE q # Current
      BY <1>1, <1>2, <1>5, <3>2, KnownOfRunner DEF AnswersStayInStep
    <3>. QED  BY <3>1, <3>2
  <2>. QED  BY <1>1, <2>1 DEF AnswersStayInStep
<1>. QED  BY <1>1, <1>6, <1>8, <1>9 DEF IInv, MatchConsistent, EndIsClean

LEMMA AdvanceTurnIInv == ASSUME IInv, AdvanceTurn PROVE IInv'
<1>1. /\ pc = "advancing" /\ turn' = turn + 1
      /\ pc' = IF \E s \in Sides : stars'[s] >= WinningStars THEN "ending" ELSE "turn"
      /\ UNCHANGED << proc, todo, timing, orders, score, reported >>
  BY DEF AdvanceTurn
<1>2. todo = {} /\ turn' \in 0 .. MaxTurns /\ lines = << >>
  BY <1>1, KnownOfRunner DEF RunnerInStep, InTurn
<1>3. stars' \in [Sides -> 0 .. NumStars] /\ stars'[0] + stars'[1] <= NumStars
  <2>1. PICK n \in 0 .. NumStars, m \in 0 .. NumStars :
          n + m <= NumStars /\ stars' = [s \in Sides |-> IF s = 0 THEN n ELSE m]
    BY DEF AdvanceTurn
  <2>. QED  BY <2>1 DEF Sides
<1>4. TypeOK'
  BY <1>1, <1>2, <1>3, KnownOfRunner DEF TypeOK, timing
<1>5. ASSUME NEW q \in Players
      PROVE  ProcessInStep(q)'
  <2>1. Due(q) = turn + 2 /\ Due(q)' = turn' + 1
    BY <1>1, <1>2 DEF Due, InTurn
  <2>2. Due(q)' = Due(q) /\ Kept(proc[q], proc'[q])
    BY <1>1, <2>1, KnownOfRunner, ProcIsTyped
  <2>. QED  BY <1>1, <2>2, ProcessStays, ProcIsTyped
<1>6. pc' = "ending" => \E s \in Sides : stars'[s] >= WinningStars'
  BY <1>1 DEF WinningStars
<1>7. RunnerInStep' /\ AnswersStayInStep'
  BY <1>1, <1>2, <1>3, <1>5, <1>6 DEF RunnerInStep, AnswersStayInStep, InTurn, timing
<1>. QED  BY <1>1, <1>4, <1>7 DEF IInv, MatchConsistent, EndIsClean

LEMMA AdvanceThrowsIInv == ASSUME IInv, AdvanceThrows PROVE IInv'
<1>1. /\ pc = "advancing" /\ pc' = "thrown"
      /\ UNCHANGED << proc, todo, timing, orders, turn, outcome >>
  BY DEF AdvanceThrows
<1>2. TypeOK'
  BY <1>1, KnownOfRunner DEF TypeOK, timing, outcome
<1>3. ASSUME NEW q \in Players
      PROVE  ProcessInStep(q)'
  BY <1>1, ProcessStays, ProcIsTyped
<1>4. RunnerInStep' /\ AnswersStayInStep'
  BY <1>1, <1>3, KnownOfRunner DEF RunnerInStep, AnswersStayInStep, InTurn, timing,
     outcome
<1>. QED  BY <1>1, <1>2, <1>4 DEF IInv, MatchConsistent, EndIsClean

LEMMA LastTurnIInv == ASSUME IInv, LastTurn PROVE IInv'
<1>1. /\ pc = "turn" /\ pc' = "ending" /\ (turn = MaxTurns \/ AllFailed)
      /\ UNCHANGED << proc, todo, timing, orders, turn, outcome >>
  BY DEF LastTurn
<1>2. TypeOK'
  BY <1>1, KnownOfRunner DEF TypeOK, timing, outcome
<1>3. ASSUME NEW q \in Players
      PROVE  ProcessInStep(q)'
  <2>1. Due(q)' = Due(q)
    BY <1>1 DEF Due, InTurn
  <2>. QED  BY <1>1, <2>1, ProcessStays, ProcIsTyped
<1>4. turn' = MaxTurns \/ AllFailed'
  BY <1>1 DEF AllFailed
<1>5. RunnerInStep' /\ AnswersStayInStep'
  BY <1>1, <1>3, <1>4, KnownOfRunner DEF RunnerInStep, AnswersStayInStep, InTurn,
     timing, outcome
<1>. QED  BY <1>1, <1>2, <1>5 DEF IInv, MatchConsistent, EndIsClean
(* Two sides cannot both have three quarters of the stars.                 *)
LEMMA OneWinner ==
    /\ QuarterStars \in Nat /\ WinningStars \in Nat
    /\ QuarterStars < WinningStars /\ NumStars < WinningStars + WinningStars + 1
<1>1. NumStars \in Nat /\ NumStars >= 2
  BY MatchAssumption
<1>. QED  BY <1>1 DEF QuarterStars, WinningStars

LEMMA PointsFollowStars ==
    ASSUME stars \in [Sides -> 0 .. NumStars], stars[0] + stars[1] <= NumStars
    PROVE  /\ Points \in Seq(Nat) /\ Points[1] + Points[2] > 0
           /\ (\E s \in Sides : stars[s] >= WinningStars) =>
                \E s \in Sides : stars[s] >= WinningStars /\ Points[2 - s] = 0
           /\ \A s \in Sides :
                stars[s] > stars[1 - s] =>
                  /\ Points[s + 1] >= Points[2 - s]
                  /\ stars[s] > QuarterStars => Points[s + 1] > Points[2 - s]
<1> DEFINE a == stars[0]
           b == stars[1]
           W == WinningStars
           Q == QuarterStars
<1>1. a \in Nat /\ b \in Nat /\ NumStars \in Nat /\ a + b <= NumStars /\ W \in Nat
      /\ Q \in Nat /\ NumStars < W + W + 1
  BY OneWinner, MatchAssumption DEF Sides
<1>2. PICK x, y \in Nat : /\ Points = << x, y >> /\ x + y > 0
                          /\ a >= W => x = 1 /\ y = 0
                          /\ a < W /\ b >= W => x = 0 /\ y = 1
                          /\ a > b => x >= y /\ (a > Q => x > y)
                          /\ b > a => y >= x /\ (b > Q => y > x)
  <2>1. CASE a >= W
    <3>1. Points = << 1, 0 >> /\ ~(b > a)
      BY <1>1, <2>1 DEF Points
    <3>. QED  BY <3>1, <2>1, <1>1
  <2>2. CASE a < W /\ b >= W
    <3>1. Points = << 0, 1 >> /\ ~(a > b) /\ ~(a >= W)
      BY <1>1, <2>2 DEF Points
    <3>. QED  BY <3>1, <2>2, <1>1
  <2>3. CASE a < W /\ b < W
    <3> DEFINE x == Above(0)
               y == Above(1)
    <3>1. x = IF a > Q THEN a - Q ELSE 0
      BY DEF Above
    <3>2. y = IF b > Q THEN b - Q ELSE 0
      BY DEF Above
    <3>3. ~(a >= W) /\ ~(b >= W) /\ x \in Nat /\ y \in Nat
      BY <1>1, <2>3, <3>1, <3>2
    <3>4. Points = IF x + y = 0 THEN << 1, 1 >> ELSE << x, y >>
      BY <3>3 DEF Points
    <3> HIDE DEF x, y, a, b, W, Q
    <3>5. CASE x + y = 0
      <4>1. Points = << 1, 1 >> /\ ~(a > Q) /\ ~(b > Q)
        BY <1>1, <3>1, <3>2, <3>3, <3>4, <3>5
      <4>. QED  BY <3>3, <4>1
    <3>6. CASE x + y # 0
      <4>1. Points = << x, y >> /\ x + y > 0
        BY <3>3, <3>4, <3>6
      <4>2. /\ a > b => x >= y /\ (a > Q => x > y)
            /\ b > a => y >= x /\ (b > Q => y > x)
        BY <1>1, <3>1, <3>2
      <4>. QED  BY <3>3, <4>1, <4>2
    <3>. QED  BY <3>5, <3>6
  <2>. QED  BY <1>1, <2>1, <2>2, <2>3
<1>3. Points \in Seq(Nat) /\ Points[1] = x /\ Points[2] = y
  BY <1>2
<1>4. ASSUME NEW s \in Sides, stars[s] > stars[1 - s]
      PROVE  /\ Points[s + 1] >= Points[2 - s]
             /\ stars[s] > QuarterStars => Points[s + 1] > Points[2 - s]
  <2>1. CASE s = 0
    BY <1>2, <1>3, <1>4, <2>1
  <2>2. CASE s = 1
    BY <1>2, <1>3, <1>4, <2>2
  <2>. QED  BY <2>1, <2>2 DEF Sides
<1>5. ASSUME NEW s \in Sides, stars[s] >= WinningStars
      PROVE  \E winner \in Sides : stars[winner] >= WinningStars /\ Points[2 - winner] = 0
  <2>1. CASE a >= W
    BY <1>2, <1>3, <2>1 DEF Sides
  <2>2. CASE a < W
    <3>1. s = 1 /\ b >= W
      BY <1>1, <1>5, <2>2 DEF Sides
    <3>. QED  BY <1>2, <1>3, <2>2, <3>1 DEF Sides
  <2>. QED  BY <1>1, <2>1, <2>2
<1>. QED  BY <1>2, <1>3, <1>4, <1>5

LEMMA EndMatchIInv == ASSUME IInv, EndMatch PROVE IInv'
<1>1. /\ pc = "ending" /\ pc' = "over" /\ score' = Points
      /\ reported' = IF Practice THEN {p \in Players : proc[p].failed} ELSE {}
      /\ proc' = [p \in Players |-> MarkAsFailed(proc[p], "stopped")]
      /\ UNCHANGED << todo, timing, orders, turn, stars >>
  BY DEF EndMatch, StopAll
<1>2. ASSUME NEW p \in Players
      PROVE  /\ proc'[p] \in ProcessType /\ proc'[p].failed /\ ~proc'[p].alive
             /\ proc'[p].cause # "none"
             /\ (proc'[p].cause # "stopped") <=> proc[p].failed
  <2>1. proc[p] \in ProcessType /\ (proc[p].failed <=> proc[p].cause # "none")
        /\ (proc[p].failed => ~proc[p].alive) /\ proc[p].cause # "stopped"
    BY <1>1, ProcIsTyped DEF ProcessInStep
  <2>2. "stopped" \in Causes \ {"none"}
    BY DEF Causes
  <2>. QED  BY <1>1, <2>1, <2>2, Marked
<1>3. stars \in [Sides -> 0 .. NumStars] /\ stars[0] + stars[1] <= NumStars
  BY KnownOfRunner DEF TypeOK, RunnerInStep
<1>4. TypeOK'
  <2>1. proc' \in [Players -> ProcessType] /\ reported' \subseteq Players
    BY <1>1, <1>2
  <2>. QED  BY <1>1, <1>3, <2>1, PointsFollowStars, KnownOfRunner DEF TypeOK, timing
<1>5. \A p \in Players : ProcessInStep(p)'
  BY <1>1, <1>2 DEF ProcessInStep
<1>6. RunnerInStep' /\ AnswersStayInStep'
  BY <1>1, <1>5, KnownOfRunner DEF RunnerInStep, AnswersStayInStep, InTurn, timing
<1>7. EndIsClean'
  <2>1. ASSUME NEW p \in Players
        PROVE  ~proc'[p].alive /\ (p \in reported' <=> Practice /\ proc'[p].cause # "stopped")
    BY <1>1, <1>2
  <2>2. \/ turn' = MaxTurns
        \/ \A p \in Players : proc'[p].cause # "stopped"
        \/ \E s \in Sides : stars'[s] >= WinningStars /\ score'[2 - s] = 0
    <3>1. turn = MaxTurns \/ AllFailed \/ \E s \in Sides : stars[s] >= WinningStars
      BY <1>1, KnownOfRunner DEF RunnerInStep
    <3>. QED  BY <1>1, <1>2, <1>3, <3>1, PointsFollowStars DEF AllFailed
  <2>. QED  BY <1>1, <1>3, <2>1, <2>2, PointsFollowStars DEF EndIsClean
<1>. QED  BY <1>4, <1>6, <1>7 DEF IInv, MatchConsistent

-----------------------------------------------------------------------------
(* The AIs                                                                 *)

LEMMA AIIInv == ASSUME IInv, NEW p \in Players, AI(p) PROVE IInv'
<1>1. UNCHANGED << pc, todo, timing, orders, turn, outcome >>
  BY DEF AI
<1>2. /\ proc \in [Players -> ProcessType] /\ proc[p] \in ProcessType /\ ProcessInStep(p)
      /\ proc[p].out \in Seq(LineType)
  BY ProcIsTyped DEF ProcessType
<1>3. proc[p].alive /\ ~proc[p].failed /\ proc[p].cause = "none" /\ pc # "over"
  BY <1>2 DEF AI, Reads, Exits, Writes, ProcessInStep
<1>4. PICK r \in ProcessType :
        /\ proc' = [proc EXCEPT ![p] = r] /\ ~r.failed /\ r.cause = "none"
        /\ pc # "thrown" => StreamInStep(r, Due(p))
  <2>0. pc # "thrown" => StreamInStep(proc[p], Due(p))
    BY <1>2, <1>3 DEF ProcessInStep
  <2>1. CASE Reads(p)
    <3> DEFINE r == [proc[p] EXCEPT !.inbox = @ - 1]
    <3>1. proc[p].inbox - 1 \in 0 .. PipeSize
      BY <1>2, <2>1, MatchAssumption DEF Reads, ProcessType
    <3>2. r \in ProcessType /\ r.failed = proc[p].failed /\ r.cause = proc[p].cause
          /\ r.out = proc[p].out /\ r.answer = proc[p].answer
      BY <1>2, <3>1 DEF ProcessType
    <3>3. proc' = [proc EXCEPT ![p] = r]
      BY <1>2, <2>1 DEF Reads
    <3> HIDE DEF r
    <3>4. pc # "thrown" => StreamInStep(r, Due(p))
      BY <2>0, <3>2 DEF StreamInStep
    <3>. QED  BY <1>3, <3>2, <3>3, <3>4
  <2>2. CASE Exits(p)
    <3> DEFINE r == [proc[p] EXCEPT !.alive = FALSE]
    <3>1. r \in ProcessType /\ r.failed = proc[p].failed /\ r.cause = proc[p].cause
          /\ r.out = proc[p].out /\ r.answer = proc[p].answer
      BY <1>2 DEF ProcessType
    <3>2. proc' = [proc EXCEPT ![p] = r]
      BY <1>2, <2>2 DEF Exits
    <3> HIDE DEF r
    <3>3. pc # "thrown" => StreamInStep(r, Due(p))
      BY <2>0, <3>1 DEF StreamInStep
    <3>. QED  BY <1>3, <3>1, <3>2, <3>3
  <2>3. ASSUME NEW kind \in Kinds, Writes(p, kind)
        PROVE  \E r \in ProcessType :
                 /\ proc' = [proc EXCEPT ![p] = r] /\ ~r.failed /\ r.cause = "none"
                 /\ pc # "thrown" => StreamInStep(r, Due(p))
    <3> DEFINE line == [kind |-> kind, answer |-> proc[p].answer]
               next == IF kind = "done" THEN proc[p].answer + 1 ELSE proc[p].answer
               said == IF kind = "done" THEN 0 ELSE proc[p].said + 1
               r == [proc[p] EXCEPT !.out = Append(@, line), !.answer = next, !.said = said]
    <3>1. proc[p].answer \in 1 .. MaxTurns /\ (kind # "done" => proc[p].said < MaxOrders)
      BY <1>2, <2>3, MatchAssumption DEF Writes, ProcessType
    <3>2. line \in LineType /\ After(line) = next /\ line.answer = proc[p].answer
      BY <3>1 DEF LineType, After
    <3>3. next \in 1 .. MaxTurns + 1
      BY <3>1, MatchAssumption
    <3>4. said \in 0 .. MaxOrders
      BY <1>2, <3>1, MatchAssumption DEF ProcessType
    <3>5. Append(proc[p].out, line) \in Seq(LineType)
      BY <1>2, <3>2, AppendLine
    <3>6. proc' = [proc EXCEPT ![p] = r]
      BY <1>2, <2>3 DEF Writes
    <3> HIDE DEF line, next, said
    <3>7. r \in ProcessType /\ r.failed = proc[p].failed /\ r.cause = proc[p].cause
          /\ r.out = Append(proc[p].out, line) /\ r.answer = After(line)
      BY <1>2, <3>2, <3>3, <3>4, <3>5 DEF ProcessType
    <3> HIDE DEF r
    <3>8. pc # "thrown" => StreamInStep(r, Due(p))
      BY <1>2, <2>0, <3>2, <3>7, StreamGrows
    <3>. QED  BY <1>3, <3>6, <3>7, <3>8
  <2>. QED  BY <2>1, <2>2, <2>3 DEF AI
<1>5. proc' \in [Players -> ProcessType] /\ proc'[p] = r
      /\ \A q \in Players \ {p} : proc'[q] = proc[q]
  BY <1>2, <1>4
<1>6. TypeOK'
  BY <1>1, <1>5, KnownOfRunner DEF TypeOK, timing, outcome
<1>7. ASSUME NEW q \in Players
      PROVE  ProcessInStep(q)' /\ proc'[q].failed = proc[q].failed
  <2>1. Due(q)' = Due(q)
    BY <1>1 DEF Due, InTurn
  <2>2. ProcessInStep(q)
    BY ProcIsTyped
  <2>3. CASE q = p
    <3>1. pc' # "thrown" => StreamInStep(proc[q], Due(q))'
      BY <1>1, <1>4, <1>5, <2>1, <2>3 DEF StreamInStep, After
    <3>2. /\ ~proc'[q].failed /\ ~proc[q].failed /\ proc'[q].cause = "none"
          /\ pc' # "over" /\ (pc' \in {"writing", "reading"} /\ q \in todo' => orders'[q] = {})
      BY <1>1, <1>3, <1>4, <1>5, <2>2, <2>3 DEF ProcessInStep
    <3>3. proc'[q].failed = proc[q].failed
      <4>1. proc[q].failed \in BOOLEAN /\ proc'[q].failed \in BOOLEAN
        BY <1>2, <1>5 DEF ProcessType
      <4>. QED  BY <3>2, <4>1
    <3>. QED  BY <3>1, <3>2, <3>3 DEF ProcessInStep
  <2>4. CASE q # p
    <3>1. StreamInStep(proc[q], Due(q)) => StreamInStep(proc[q], Due(q))'
      BY <1>5, <2>1, <2>4 DEF StreamInStep, After
    <3>. QED  BY <1>1, <1>5, <2>2, <2>4, <3>1 DEF ProcessInStep
  <2>. QED  BY <2>3, <2>4
<1>8. RunnerInStep'
  <2>1. AllFailed' <=> AllFailed
    BY <1>7 DEF AllFailed
  <2>2. WinningStars' = WinningStars
    BY DEF WinningStars
  <2>. QED
    BY <1>1, <1>7, <2>1, <2>2, KnownOfRunner DEF RunnerInStep, InTurn, timing, outcome
<1>9. AnswersStayInStep'
  BY <1>1, <1>7, KnownOfRunner DEF AnswersStayInStep, timing
<1>. QED  BY <1>1, <1>3, <1>6, <1>8, <1>9 DEF IInv, MatchConsistent, EndIsClean

-----------------------------------------------------------------------------

LEMMA StutterIInv == ASSUME IInv, UNCHANGED vars PROVE IInv'
<1>1. UNCHANGED << proc, pc, todo, lines, quiet, asked, orders, turn, stars, score, reported >>
  BY DEF vars
<1>2. \A p \in Players : ProcessInStep(p)'
  BY <1>1, ProcIsTyped DEF ProcessInStep, StreamInStep, Due, InTurn, After
<1>3. TypeOK'
  BY <1>1, KnownOfRunner DEF TypeOK
<1>4. RunnerInStep' /\ AnswersStayInStep'
  BY <1>1, <1>2, KnownOfRunner DEF RunnerInStep, AnswersStayInStep, InTurn, AllFailed
<1>5. EndIsClean'
  BY <1>1 DEF IInv, EndIsClean
<1>. QED  BY <1>3, <1>4, <1>5 DEF IInv, MatchConsistent

LEMMA NextIInv == IInv /\ [Next]_vars => IInv'
<1> SUFFICES ASSUME IInv, [Next]_vars PROVE IInv'
  OBVIOUS
<1>1. ASSUME Timeout \/ EndOfOutput \/ ReadJunk PROVE IInv'
  BY <1>1, NoAnswerIInv DEF Timeout, EndOfOutput, ReadJunk, Causes
<1>. QED  BY <1>1, GreetIInv, BeginTurnIInv, AskNextIInv, SkipFailedIInv, TickIInv,
             ReadOrderIInv, ReadDoneIInv, AdvanceTurnIInv, AdvanceThrowsIInv,
             LastTurnIInv, EndMatchIInv, AIIInv, StutterIInv DEF Next, Runner

(* At every step of a match, what the runner, the processes and the lines  *)
(* between them know of each other fits together.                          *)
THEOREM MatchStaysInStep == Spec => []IInv
BY InitIInv, NextIInv, PTL DEF Spec

(* The processes, the runner and its bookkeeping are what they should be   *)
(* (GameRunner.cs:76-168, Process.cs:41-117).                              *)
THEOREM MatchIsConsistent == Spec => []MatchConsistent
<1>1. IInv => MatchConsistent
  BY DEF IInv
<1>. QED  BY <1>1, MatchStaysInStep, PTL

(* Every order that reaches the galaxy is part of the answer to this turn, *)
(* and none comes from an AI that failed (GameRunner.cs:120-137).          *)
THEOREM OrdersAreOfThisTurn == Spec => []AnswersStayInStep
<1>1. IInv => AnswersStayInStep
  BY DEF IInv
<1>. QED  BY <1>1, MatchStaysInStep, PTL

(* A match that is over has stopped every AI, blames exactly those that    *)
(* failed, ended for a reason and shares the points in the order of the    *)
(* stars (GameRunner.cs:113-168).                                          *)
THEOREM MatchEndsClean == Spec => []EndIsClean
<1>1. IInv => EndIsClean
  BY DEF IInv
<1>. QED  BY <1>1, MatchStaysInStep, PTL
=============================================================================
