-------------------------------- MODULE Match --------------------------------
(***************************************************************************)
(* One match: GameRunner of simulator/GameRunner.cs and the StreamProcess  *)
(* of simulator/Process.cs that stands for each artificial player (AI).    *)
(*                                                                         *)
(* The runner greets every AI, then asks one after the other for its       *)
(* orders, turn by turn, and hands them to the galaxy.  The AIs are        *)
(* processes of their own behind two pipes: they read and write whenever   *)
(* and whatever they like, write ahead of the question, fall silent or     *)
(* exit.  The galaxy is the number of stars of each side, any number that  *)
(* Conquest allows: no star is given up.                                   *)
(*                                                                         *)
(* What an AI writes has a kind for each way the runner takes a line, and  *)
(* the number of the answer it belongs to for the AI.  Definitions named   *)
(* ...Mutant are not part of the specification: each is the definition     *)
(* below it with a plausible mistake, for the checks of the properties.    *)
(***************************************************************************)
EXTENDS Integers, Sequences, FiniteSets, FiniteSetsExt

CONSTANTS
    PerSide,     \* NUM_COMMANDERS_PER_PLAYER
    NumStars,    \* NUM_STARS
    MaxTurns,    \* turns of a match, 1000 in the program
    LineLimit,   \* ticks an AI has for a line, 2000 ms in the program
    Practice,    \* isPracticeGame
    PipeSize,    \* messages that fit in the pipe to an AI
    Kinds,       \* bound: kinds of lines the AIs write
    MaxAhead,    \* bound: lines in the pipe from an AI
    MaxOrders    \* bound: lines of an answer before its "done"

Players == 0 .. 2 * PerSide - 1
Sides == {0, 1}

ASSUME MatchAssumption ==
    /\ PerSide \in Nat \ {0} /\ NumStars \in Nat /\ 2 * PerSide <= NumStars
    /\ MaxTurns \in Nat /\ LineLimit \in Nat /\ Practice \in BOOLEAN
    /\ PipeSize \in Nat \ {0} /\ MaxAhead \in Nat /\ MaxOrders \in Nat
    (* "fly": three numbers; "huge": three, one beyond an int; "odd": only  *)
    (* starts like an order; "junk": anything else.                         *)
    /\ Kinds \subseteq {"fly", "huge", "odd", "junk", "done"}

VARIABLES
    proc,       \* processes, and the pipes and AIs at the other end
    pc,         \* where Run is
    todo,       \* the AIs still to be greeted, or asked in this turn
    lines,      \* result of ReadMessageAsync: the lines read so far
    quiet,      \* ticks since the current ReadLineAsync
    asked,      \* ticks since the current ReadMessageAsync, LineLimit + 1: more
    orders,     \* outputs: the answers each AI's orders of this turn are from
    turn,       \* turns played
    stars,      \* currentScores
    score,      \* result.Scores in parts of a whole, << >> before the end
    reported    \* result.FailureMessage: whose failure is reported

vars == << proc, pc, todo, lines, quiet, asked, orders, turn, stars, score,
           reported >>
timing == << lines, quiet, asked >>
outcome == << stars, score, reported >>

Idle == [p \in Players |-> {}]

(* An AI whose process could be started, and one whose could not.          *)
Up == [alive |-> TRUE, failed |-> FALSE, cause |-> "none", inbox |-> 0,
       out |-> << >>, answer |-> 1, said |-> 0]
NotUp == [Up EXCEPT !.alive = FALSE, !.failed = TRUE, !.cause = "start"]

Init ==
    /\ proc \in [Players -> {Up, NotUp}]
    /\ pc = "greeting"
    /\ todo = Players
    /\ lines = << >> /\ quiet = 0 /\ asked = 0
    /\ orders = Idle
    /\ turn = 0
    /\ stars = [s \in Sides |-> PerSide]
    /\ score = << >>
    /\ reported = {}

-----------------------------------------------------------------------------
(* The AIs                                                                 *)

Writes(p, kind) ==
    /\ proc[p].alive
    /\ Len(proc[p].out) < MaxAhead /\ proc[p].answer <= MaxTurns
    /\ kind # "done" => proc[p].said < MaxOrders
    /\ proc' = [proc EXCEPT
         ![p].out = Append(@, [kind |-> kind, answer |-> proc[p].answer]),
         ![p].answer = IF kind = "done" THEN @ + 1 ELSE @,
         ![p].said = IF kind = "done" THEN 0 ELSE @ + 1]

Reads(p) ==
    /\ proc[p].alive /\ proc[p].inbox > 0
    /\ proc' = [proc EXCEPT ![p].inbox = @ - 1]

Exits(p) ==
    /\ proc[p].alive
    /\ proc' = [proc EXCEPT ![p].alive = FALSE]

AI(p) ==
    /\ Reads(p) \/ Exits(p) \/ \E kind \in Kinds : Writes(p, kind)
    /\ UNCHANGED << pc, todo, timing, orders, turn, outcome >>

-----------------------------------------------------------------------------
(* StreamProcess                                                           *)

(* The first cause is kept; the process is killed and its pipes are closed.*)
MarkAsFailed(r, why) ==
    IF r.failed THEN r
    ELSE [r EXCEPT !.alive = FALSE, !.failed = TRUE, !.cause = why,
                   !.out = << >>]

Fail(p, why) == proc' = [proc EXCEPT ![p] = MarkAsFailed(@, why)]

(* WriteMessageAsync: a failed process is skipped, a dead one noticed, and *)
(* a full pipe waited for.                                                 *)
WriteMessage(p) ==
    \/ proc[p].failed /\ UNCHANGED proc
    \/ ~proc[p].failed /\ ~proc[p].alive /\ Fail(p, "unread")
    \/ /\ proc[p].alive /\ proc[p].inbox < PipeSize
       /\ proc' = [proc EXCEPT ![p].inbox = @ + 1]

-----------------------------------------------------------------------------
(* GameRunner.Run                                                          *)

(* The initial input is written to all AIs at once.                        *)
Greet(p) ==
    /\ pc = "greeting"
    /\ p \in todo
    /\ WriteMessage(p)
    /\ todo' = todo \ {p}
    /\ pc' = IF todo' = {} THEN "turn" ELSE "greeting"
    /\ UNCHANGED << timing, orders, turn, outcome >>

AllFailed == \A p \in Players : proc[p].failed

(* Stars a side needs to win, and what the score leaves out.               *)
WinningStars == (3 * NumStars) \div 4
QuarterStars == NumStars \div 4

BeginTurn ==
    /\ pc = "turn"
    /\ turn < MaxTurns /\ ~AllFailed
    /\ pc' = "writing"
    /\ todo' = Players
    /\ orders' = Idle
    /\ UNCHANGED << proc, timing, turn, outcome >>

Current == Min(todo)

AskNext ==
    /\ pc = "writing"
    /\ WriteMessage(Current)
    /\ pc' = "reading"
    /\ lines' = << >> /\ quiet' = 0 /\ asked' = 0
    /\ UNCHANGED << todo, orders, turn, outcome >>

AnsweredMutant ==
    /\ todo' = todo \ {Current}
    /\ pc' = "writing"
    /\ lines' = << >> /\ quiet' = 0 /\ asked' = 0

(* On to the next AI, or to the galaxy.                                    *)
Answered ==
    /\ todo' = todo \ {Current}
    /\ pc' = IF todo' = {} THEN "advancing" ELSE "writing"
    /\ lines' = << >> /\ quiet' = 0 /\ asked' = 0

NoAnswer(why) ==
    /\ Fail(Current, why)
    /\ Answered
    /\ UNCHANGED << orders, turn, outcome >>

SkipFailed ==
    /\ pc = "reading"
    /\ proc[Current].failed
    /\ Answered
    /\ UNCHANGED << proc, orders, turn, outcome >>

Reading == pc = "reading" /\ ~proc[Current].failed
NothingToRead == proc[Current].out = << >>

(* Time passes while the runner waits for a line.                          *)
Tick ==
    /\ Reading /\ NothingToRead /\ proc[Current].alive
    /\ quiet < LineLimit
    /\ quiet' = quiet + 1
    /\ asked' = IF asked <= LineLimit THEN asked + 1 ELSE asked
    /\ UNCHANGED << proc, pc, todo, lines, orders, turn, outcome >>

TimeoutMutant ==
    /\ Reading /\ quiet = LineLimit
    /\ Answered
    /\ UNCHANGED << proc, orders, turn, outcome >>

(* The time limit also wins over a line that comes right then.             *)
Timeout == Reading /\ quiet = LineLimit /\ NoAnswer("late")

EndOfOutputMutant ==
    /\ Reading /\ NothingToRead /\ ~proc[Current].alive
    /\ quiet' = 0
    /\ UNCHANGED << proc, pc, todo, lines, asked, orders, turn, outcome >>

(* The end of the output, which is read after all that was written.        *)
EndOfOutput ==
    Reading /\ NothingToRead /\ ~proc[Current].alive /\ NoAnswer("exit")

Line == Head(proc[Current].out)
Consumed == [proc EXCEPT ![Current].out = Tail(@)]

ReadOrder ==
    /\ Reading /\ ~NothingToRead /\ Line.kind \in {"fly", "huge", "odd"}
    /\ proc' = Consumed
    /\ lines' = Append(lines, Line) /\ quiet' = 0
    /\ UNCHANGED << pc, todo, asked, orders, turn, outcome >>

ReadJunk ==
    Reading /\ ~NothingToRead /\ Line.kind = "junk" /\ NoAnswer("junk")

(* int.Parse throws on a huge number: the orders before it are kept, the   *)
(* rest of the answer is dropped and the AI stays in the match.            *)
Parsed(ls) ==
    {ls[i].answer : i \in {j \in DOMAIN ls :
                             /\ ls[j].kind = "fly"
                             /\ \A k \in 1 .. j : ls[k].kind # "huge"}}

ReadDone ==
    /\ Reading /\ ~NothingToRead /\ Line.kind = "done"
    /\ proc' = Consumed
    /\ orders' = [orders EXCEPT ![Current] = Parsed(lines)]
    /\ Answered
    /\ UNCHANGED << turn, outcome >>

(* AdvanceTurn returns the number of stars of each side.                   *)
AdvanceTurn ==
    /\ pc = "advancing"
    /\ \E n, m \in 0 .. NumStars :
         /\ stars[0] + stars[1] <= n + m /\ n + m <= NumStars
         /\ stars' = [s \in Sides |-> IF s = 0 THEN n ELSE m]
    /\ turn' = turn + 1
    /\ pc' = IF \E s \in Sides : stars'[s] >= WinningStars THEN "ending"
                                                          ELSE "turn"
    /\ UNCHANGED << proc, todo, timing, orders, score, reported >>

(* AdvanceTurn throws (Galaxy!NoHeir): Run is left as it stands.           *)
AdvanceThrows ==
    /\ pc = "advancing"
    /\ pc' = "thrown"
    /\ UNCHANGED << proc, todo, timing, orders, turn, outcome >>

LastTurn ==
    /\ pc = "turn"
    /\ turn = MaxTurns \/ AllFailed
    /\ pc' = "ending"
    /\ UNCHANGED << proc, todo, timing, orders, turn, outcome >>

Above(s) == IF stars[s] > QuarterStars THEN stars[s] - QuarterStars ELSE 0

(* The points of both sides, as parts of their sum.                        *)
Points ==
    IF stars[0] >= WinningStars THEN << 1, 0 >>
    ELSE IF stars[1] >= WinningStars THEN << 0, 1 >>
    ELSE IF Above(0) + Above(1) = 0 THEN << 1, 1 >>
    ELSE << Above(0), Above(1) >>

StopFirstMutant ==
    /\ proc' = [p \in Players |-> MarkAsFailed(proc[p], "stopped")]
    /\ reported' = IF Practice THEN {p \in Players : proc'[p].failed} ELSE {}

(* Failures are collected before the processes are stopped.                *)
StopAll ==
    /\ reported' = IF Practice THEN {p \in Players : proc[p].failed} ELSE {}
    /\ proc' = [p \in Players |-> MarkAsFailed(proc[p], "stopped")]

EndMatch ==
    /\ pc = "ending"
    /\ StopAll
    /\ score' = Points
    /\ pc' = "over"
    /\ UNCHANGED << todo, timing, orders, turn, stars >>

-----------------------------------------------------------------------------

Runner == \/ \E p \in Players : Greet(p)
          \/ BeginTurn \/ AskNext \/ SkipFailed \/ Tick \/ Timeout
          \/ EndOfOutput \/ ReadOrder \/ ReadJunk \/ ReadDone
          \/ AdvanceTurn \/ AdvanceThrows \/ LastTurn \/ EndMatch

Next == Runner \/ \E p \in Players : AI(p)

Spec == Init /\ [][Next]_vars

(* The runner goes on, and so does time.  Nothing is assumed of the AIs.   *)
FairSpec == Spec /\ WF_vars(Runner)

-----------------------------------------------------------------------------
(* Properties                                                              *)

Causes == {"none", "start", "unread", "late", "exit", "junk", "stopped"}
LineType == [kind : Kinds, answer : 1 .. MaxTurns]
ProcessType == [alive : BOOLEAN, failed : BOOLEAN, cause : Causes,
                inbox : 0 .. PipeSize, out : Seq(LineType),
                answer : 1 .. MaxTurns + 1, said : 0 .. MaxOrders]

TypeOK ==
    /\ proc \in [Players -> ProcessType]
    /\ pc \in {"greeting", "turn", "writing", "reading", "advancing", "ending",
               "over", "thrown"}
    /\ todo \subseteq Players
    /\ pc \in {"writing", "reading"} => todo # {}
    /\ lines \in Seq(LineType)
    /\ quiet \in 0 .. LineLimit /\ asked \in 0 .. LineLimit + 1
    /\ orders \in [Players -> SUBSET (1 .. MaxTurns)]
    /\ turn \in 0 .. MaxTurns
    /\ stars \in [Sides -> 0 .. NumStars]
    /\ score \in Seq(Nat)
    /\ reported \subseteq Players

(* The orders of a turn are the AI's answer to that turn: whatever an AI   *)
(* writes ahead, late or in excess, no answer is skipped, used twice or    *)
(* taken for the one before or after it (a late answer still sits in the   *)
(* pipe, so an AI that missed a turn must be out of the match); and an AI  *)
(* that failed, in this turn or before, gives no orders, not even those it *)
(* wrote before it failed.                                                 *)
AnswersStayInStep ==
    /\ pc \in {"writing", "reading", "advancing"} =>
         \A p \in Players :
            orders[p] \subseteq IF proc[p].failed THEN {} ELSE {turn + 1}
    /\ \A i \in DOMAIN lines : lines[i].answer = turn + 1

(* When the match is over no AI runs any more, and exactly those that had   *)
(* failed by themselves are reported, in a practice match; it ended before  *)
(* its last turn only with a winner or with nobody left to play, a winner   *)
(* takes it all, and otherwise the points are shared in the order of the    *)
(* stars (GameRunner.cs:113-168).                                           *)
EndIsClean ==
    pc = "over" =>
      /\ \A p \in Players :
           /\ ~proc[p].alive
           /\ p \in reported <=> Practice /\ proc[p].cause # "stopped"
      /\ \/ turn = MaxTurns
         \/ \A p \in Players : proc[p].cause # "stopped"
         \/ \E s \in Sides : stars[s] >= WinningStars /\ score[2 - s] = 0
      /\ score[1] + score[2] > 0
      /\ \A s \in Sides :
           stars[s] > stars[1 - s] =>
             /\ score[s + 1] >= score[2 - s]
             /\ stars[s] > QuarterStars => score[s + 1] > score[2 - s]

(* What the runner, the process of each AI and the lines it has written    *)
(* and not read yet know of each other at every step.  With it the three   *)
(* invariants above hold of every step (MatchProofs).                      *)
InTurn == pc \in {"writing", "reading", "advancing"}

(* The answer the next line of p belongs to, and the one after a line.     *)
Due(p) == IF InTurn /\ p \notin todo THEN turn + 2 ELSE turn + 1
After(line) == IF line.kind = "done" THEN line.answer + 1 ELSE line.answer

StreamInStep(r, due) ==
    /\ \A i \in DOMAIN r.out :
         r.out[i].answer = IF i = 1 THEN due ELSE After(r.out[i - 1])
    /\ r.answer = IF r.out = << >> THEN due ELSE After(r.out[Len(r.out)])

ProcessInStep(p) ==
    /\ proc[p].failed <=> proc[p].cause # "none"
    /\ proc[p].failed => ~proc[p].alive
    /\ proc[p].cause = "stopped" => pc = "over"
    /\ pc = "over" => proc[p].failed
    /\ ~proc[p].failed /\ pc # "thrown" => StreamInStep(proc[p], Due(p))
    /\ pc \in {"writing", "reading"} /\ p \in todo => orders[p] = {}

RunnerInStep ==
    /\ \A p \in Players : ProcessInStep(p)
    /\ InTurn => turn < MaxTurns
    /\ pc = "advancing" => todo = {}
    /\ pc # "reading" => lines = << >>
    /\ stars[0] + stars[1] <= NumStars
    /\ pc = "ending" => \/ turn = MaxTurns \/ AllFailed
                        \/ \E s \in Sides : stars[s] >= WinningStars

MatchConsistent == TypeOK /\ RunnerInStep

IInv == MatchConsistent /\ AnswersStayInStep /\ EndIsClean

(* As long as no AI leaves its input pipe full for ever (writes have no    *)
(* time limit) and none writes orders without end (MaxOrders), every match *)
(* ends: silent, dead and late AIs do not hold it up.                      *)
MatchEnds ==
    (\A p \in Players : []<>(proc[p].inbox < PipeSize \/ ~proc[p].alive))
      => <>(pc \in {"over", "thrown"})

(* "Your AI failed to provide an answer within 2 seconds of walltime",     *)
(* Process.cs:58, is what an AI is failed for that takes longer.           *)
AnswersInTime == pc = "reading" => asked <= LineLimit
=============================================================================
