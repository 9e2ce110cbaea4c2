----------------------------- MODULE TimerQueue ----------------------------
(***************************************************************************)
(* The timer queue of a Crow worker (crow_all.h, detail::dumb_timer_queue) *)
(* and the keys its connections hold into it.  The queue is a deque in the *)
(* order of the calls of add.  A key is the number of an entry counted from*)
(* the first one ever added; step_ counts the entries taken off the front, *)
(* so a key outlives its entry: cancel tells by an unsigned subtraction.   *)
(* Everything runs on the worker's own thread, one handler at a time.      *)
(***************************************************************************)
EXTENDS Integers, Sequences

CONSTANTS
  Conns,     \* connections of the worker (an address that is used again is
             \* the same element)
  Tick,      \* tick: the delay of every entry
  Period,    \* the worker calls process this often
  Null,      \* the empty std::function, and the empty pointer of a key
  IntMax,    \* the largest int
  MaxKey,    \* bound: entries ever added
  MaxNow,    \* bound: the clock
  Punctual   \* the worker is never kept from calling process in time

VARIABLES
  dq,      \* dq_: entries [at, fn]; fn is the connection to close, or Null
  step,    \* step_
  key,     \* timer_cancel_key_ of each connection; Null: its pointer is null
  now,     \* steady_clock
  due,     \* when the worker's timer calls process next
  fired    \* history: the connections whose entry was called in this step

timerVars == <<dq, step, key, now, due, fired>>

Entry == [at : Nat, fn : Conns \cup {Null}]

QueueInit ==
  /\ dq = <<>> /\ step = 0
  /\ key = [c \in Conns |-> Null]
  /\ now = 0 /\ due = Period
  /\ fired = {}

\* The conversion of an int to unsigned int.
Unsigned(i) == IF i >= 0 THEN i ELSE i + 2 * (IntMax + 1)

\* The place of key k in the deque, counted from 0.
Index(k) == Unsigned(k - step)

\* cancel(k): the deque after it.
Cancelled(k) ==
  IF k # Null /\ Index(k) < Len(dq)
  THEN [dq EXCEPT ![Index(k) + 1].fn = Null]
  ELSE dq

\* Connection::cancel_deadline_timer, also run by ~Connection.
CancelTimer(c) ==
  /\ dq' = Cancelled(key[c])
  /\ key' = [key EXCEPT ![c] = Null]
  /\ fired' = {}
  /\ UNCHANGED <<step, now, due>>

\* Connection::start_deadline: cancel, then add.
SetTimer(c) ==
  /\ step + Len(dq) < MaxKey
  /\ dq' = Append(Cancelled(key[c]), [at |-> now, fn |-> c])
  /\ key' = [key EXCEPT ![c] = step + Len(dq)]
  /\ fired' = {}
  /\ UNCHANGED <<step, now, due>>

\* Mutant: process looks at one entry only.
TakenOneMutant(n) ==
  n = IF dq # <<>> /\ now - dq[1].at >= Tick THEN 1 ELSE 0

\* process takes the first n entries: those before the first one that is not
\* old enough.
Taken(n) ==
  /\ \A i \in 1 .. n : now - dq[i].at >= Tick
  /\ n < Len(dq) => now - dq[n + 1].at < Tick

\* The worker's timer: process, then the timer is set again.
Process ==
  /\ now >= due
  /\ \E n \in 0 .. Len(dq) :
       /\ Taken(n)
       /\ fired' = {dq[i].fn : i \in 1 .. n} \ {Null}
       /\ dq' = SubSeq(dq, n + 1, Len(dq))
       /\ step' = step + n
  /\ due' = now + Period
  /\ UNCHANGED <<key, now>>

\* A handler of another connection may keep the worker busy.
Pass ==
  /\ now < MaxNow
  /\ Punctual => now < due
  /\ now' = now + 1
  /\ fired' = {}
  /\ UNCHANGED <<dq, step, key, due>>

QueueNext ==
  \/ \E c \in Conns : SetTimer(c) \/ CancelTimer(c)
  \/ Process
  \/ Pass

\* The worker's io_service runs on, and time passes.
QueueFairness == WF_timerVars(Process) /\ WF_timerVars(Pass)

QueueSpec == QueueInit /\ [][QueueNext]_timerVars /\ QueueFairness

----------------------------------------------------------------------------
(* Properties *)

\* Every variable has its type.
QueueTypes ==
  /\ dq \in Seq(Entry)
  /\ step \in Nat /\ step + Len(dq) <= MaxKey
  /\ key \in [Conns -> Nat \cup {Null}]
  /\ now \in Nat /\ due \in Nat
  /\ fired \subseteq Conns

\* Entry i is the one that connection c holds the key of.
Holds(c, i) == key[c] = step + i - 1

\* An entry that can still be called belongs to the connection that holds its
\* key, and a key that is still in the deque has its entry there: nobody's
\* cancel (line 6311) reaches another connection's entry.
KeysMatchEntries ==
  \A c \in Conns, i \in 1 .. Len(dq) : dq[i].fn = c <=> Holds(c, i)

\* What the constants stand for: all keys ever handed out fit an int.
Sizes ==
  /\ {Tick, Period, IntMax, MaxKey, MaxNow} \subseteq Nat /\ Punctual \in BOOLEAN
  /\ MaxKey <= IntMax + 1
  /\ Null \notin Conns \cup Nat

\* Entries stand in the order of their times, none was left over that the last
\* call of process should have taken, and no key was handed out in advance.
QueueInStep ==
  /\ \A i \in 1 .. Len(dq) : dq[i].at <= now /\ due <= dq[i].at + Tick + Period
  /\ \A i, j \in 1 .. Len(dq) : i < j => dq[i].at <= dq[j].at
  /\ \A c \in Conns : key[c] # Null => key[c] < step + Len(dq)
  /\ due <= now + Period /\ (Punctual => now <= due)

TimersInStep == QueueTypes /\ KeysMatchEntries /\ QueueInStep

\* A deadline is at most one period late on a worker that is not kept busy.
NoTimerIsLate ==
  Punctual => \A i \in 1 .. Len(dq) :
                dq[i].fn # Null => now - dq[i].at <= Tick + Period

\* When the deadline of c was started: the refinement mapping.
Armed(c) ==
  IF \E i \in 1 .. Len(dq) : dq[i].fn = c
  THEN dq[CHOOSE i \in 1 .. Len(dq) : dq[i].fn = c].at
  ELSE Null

Abstract == INSTANCE Deadlines WITH
              Delay <- Tick, Unset <- Null, armed <- [c \in Conns |-> Armed(c)]

\* The deque, the keys and the step counter keep one deadline per connection:
\* one that was cancelled or started again never fires, the others fire once,
\* all those that are due and no other.
KeepsDeadlines == Abstract!Spec
=============================================================================
