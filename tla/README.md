# Challenges of a contest: a verification project

The repository holds the challenges of a contest. Most are puzzles, pages
without state or exercises whose defects are their purpose. The programs with
state, concurrency and failure of their own are these, and this project models
them:

- **Battle of the Galaxies** (`2019-12-21_battle/battle`): a turn-based game of
  artificial players (AIs), the engine that runs a rated tournament of it, and
  its web site;
- **the Crow web server** (`2019-12-24_gotshell/crow_all.h`), which serves the
  gotshell challenge: connections, timers, workers, request parser, router,
  websocket, query strings and JSON;
- **GrinchNet** (`2019-12-09_grinchnet`): two boards that talk over two wires;
- **the Chip-8 machine** of `2019-12-23_gr8_escape`, and **the heap playground**
  (`2019-12-11_heap_playground`).

Paths are below `src/advent-challenges/`; `crow_all.h` and the names of the
battle's files are unambiguous and used without their directories.

## Inventory

| Component | Source | State | Operations | Talks to |
|---|---|---|---|---|
| Galaxy rules | `simulator/Game.cs` | stars (owner, ships, timer, pending flights), links, flights | `AdvanceTurn`, `ResolveArrivingFlights` | called by the match runner |
| Match runner | `simulator/GameRunner.cs`, `simulator/Process.cs` | AI processes (failed or not, first cause), turn, scores | `Run`, `ReadMessageAsync`, `WriteMessageAsync`, `Stop` | AIs over two pipes each; galaxy |
| Tournament engine | `framework/Tournament.cs`, `Program.cs`, `Elo.cs` | round data in memory, running games, semaphore | `StartRound`, `RunRoundLoop`, `RunOneGame`, `FinishRound`, recovery, retry | database, launcher |
| Sanity checks | `framework/SanityCheckRunner.cs` | a list of binaries to judge | `Run` | database (own connection), launcher |
| Upload page | `web/Pages/Upload.razor.cs` | files, rows of Binaries | `RealUpload`, `CommitFile` | file system, database |
| Scoreboard | `web/Data/ScoreboardCache.cs` | a cache, replaced every 10 s | `Refresh` | database; page callbacks |
| Crow timer queue | `crow_all.h:6300-6360` | a deque, a step counter, keys held by connections | `add`, `cancel`, `process` | connections of one worker |
| Crow connection | `crow_all.h:8800-9236` | two flags, a deadline, buffers, the response | completions of reads, writes, deadline and handlers | socket, parser, router, timer queue |
| Crow server | `crow_all.h:9300-9742` | workers, their io_services, queues and counters | `run`, `stop`, accept | connections; signals; the owning thread |
| Crow request parser | `crow_all.h:2820-5045`, `HTTPParser` | state, header state, marks, a request in the making | `http_parser_execute`, `feed` | fed by reads of a connection |
| Crow router | `crow_all.h:7500-8625` | rules, a trie per method | `validate`, `handle` | application; connection |
| Crow websocket | `crow_all.h:6640-7133` | read state, fragment, outgoing queues, close flags | frames, `send`, `close`, `check_destroy` | socket; application |
| Crow query strings, JSON | `crow_all.h:40-401`, `630-2154` | values that point into one text | `get`, `load`, `s`, `dump`, ... | application |
| GrinchNet station | `GrinchNet.ino` (and `GrinchNetFake.ino`) | direction of the line, cipher, bits | `loop`, pulses, key check | the other board by DATA and SIGNAL; operator |
| Chip-8 machine | `gr8_escape.c` | registers, memory, stack, timers, key latch, screen | `cycle`, `key`, `main` | keyboard |
| Heap playground | `heap_playground.c` | linked list in memory of malloc | create, delete, print, edit | its menu |

PROJECT.json lists every other component with the reason it is left out, and
every hazard with its line.

What is hard here, and what makes each part correct:

- *Galaxy*: redundant state that must agree after any sequence of legal turns
  (a counter and the flights it counts, two directions of a link, two tallies
  of one battle), and battles resolved one star after the other while earlier
  ones of the same turn have already changed owners.
- *Match*: AIs write ahead, late, too much or nonsense, exit, or never read.
  Answers stay in step with turns; who fails is out for the right reason; the
  match ends with a fair score and no process left.
- *Tournament*: tasks share a connection and the round's data across awaits;
  any call may fail, before or after it took effect; the process may die.
  Rounds in order, results that account for exactly the games played.
- *Uploads, checks, scoreboard*: processes over one database and one directory
  without transactions. What a team is told is true, binaries are judged by
  what they do, and what the pages show was true.
- *Crow, keeping connections*: an object that deletes itself while completions,
  a deadline and a late handler may still refer to it; keys that outlive their
  deadlines; workers that start and stop in any order. Nothing refers to what
  was deleted, no request goes unanswered, everything ends: for whom the code
  keeps this, and where it does not, is said below.
- *Crow, reading*: a reader that keeps almost nothing of what it has seen, fed
  in reads cut anywhere; tries that share prefixes; values that are aliases of
  one text. What is understood is what was sent.
- *GrinchNet*: two boards without a clock in common; a cipher that stays in
  step only by counting bytes, over a line that turns around.
- *Chip-8, heap playground*: carries and shifts of bytes; pointers into reused
  memory.

## Modules

| Module | Models | Checked by |
|---|---|---|
| `Galaxy`, `MCGalaxy` | `Game.cs` | duel, alliance, heir; `GalaxyProofs` |
| `Conquest` | who holds which star, which are linked: abstract specification of `Galaxy` | alliance; theorem `Refinement` |
| `Match` | `GameRunner.cs`, `Process.cs` | exchange, slow; `MatchProofs` |
| `Tournament`, `MCTournament`, `MCRounds` | `framework/` and the tables | rounds, progress; `TournamentProofs` |
| `RoundTables` | what the tables go through: abstract specification of `Tournament` | rounds, website; `EngineImplementsBooks` |
| `Uploads` | `Upload.razor.cs` beside `SanityCheckRunner.cs` | website; `WebsiteProofs` |
| `Scoreboard` | `ScoreboardCache.cs`; extends `RoundTables`, whose steps it reads between | website; `WebsiteProofs` |
| `TimerQueue` | the timer queue and its keys | service; `CrowServiceProofs` |
| `Deadlines` | one deadline per connection: abstract specification of `TimerQueue` | service; `QueueImplementsDeadlines` |
| `CrowConnection` | a connection and its completions | service, late_timeout; `CrowConnectionProofs` |
| `CrowServer` | `run`, `stop`, workers, signals | service; `CrowServiceProofs` |
| `HttpWords`, `HttpParser`, `RequestStreams` | the words of a head by character; the parser by read | messages |
| `Router`, `RouteTables` | rules, tries, search, redirections | messages |
| `WebSocket`, `FrameStreams` | frames, closing handshake, deletion | messages, service |
| `QueryString` | parameters of an URL | messages |
| `JsonText`, `JsonGrammar` | `load`, `dump`, `<<`; the grammar they are checked against | messages |
| `JsonHandles`, `JsonBuilder` | rvalues over one text; wvalues being built | messages |
| `GrinchNet`, `Rc4` | stations, cipher | challenges; `GrinchNetProofs` |
| `GrinchNetFake`, `GrinchKey` | decoy, key check | challenges |
| `Chip8`, `Chip8Games` | the machine; the programs it runs | challenges |
| `HeapPlayground` | the list of chunks | challenges; `HeapPlaygroundProofs` |
| `ChunkStore` | a set of numbered texts: abstract specification of `HeapPlayground` | challenges; theorem `HeapIsAStore` |
| `MCCrowMessages`, `MCCrowService`, `MCChallenges`, `MCWebsite` | the suites | |

Every definition that stands for code is in PROJECT.json ("map") with its
lines. A few definitions are copies of the one below them with a plausible
mistake; no specification uses them, and PROJECT.json ("mutants") says which
property each violates.

Four abstract specifications are implemented: `Conquest`, `RoundTables`,
`Deadlines` and `ChunkStore`.

### Suites

The small programs are checked in suites. A suite extends or instantiates the
modules it checks and is one behaviour tree over several instances of them: `scene`, chosen by the initial state, says which instance
runs, and the variables of all others stay as they were made. A property of a
suite conjoins properties of its instances; it says no more and no less than
its parts would on their own. Where a module is extended (`Tournament` in
`MCRounds`, `Uploads` and `Scoreboard` in `MCWebsite`, `TimerQueue`,
`CrowConnection` and `CrowServer` in `MCCrowService`, `GrinchNet` and
`HeapPlayground` in `MCChallenges`), the run names that module's own
properties, and the theorems state the same ones. What shares a scene is what
interacts; nothing is hidden by the union because no two scenes touch the same
variable in one behaviour.

### Galaxy

`owner`, `ships`, `timer` and `pending` are the fields of a star, `links` the
adjacency sets as a set of pairs (both directions, because the code keeps both
and relies on it), `flights` the list of flights as a set (no two are ever
equal: `FlightsApart`). A turn, one call of `AdvanceTurn`, is split into steps
so that invariants are stated inside a turn too: `Fly` for an order that passes
the checks (one that does not changes nothing), `AdvanceTurn` for production
and the countdown of all flights, then for each star in index order one
`Reinforce` or `Attack` per flight and a verdict (`AttackFails`, `Takeover`,
`NoHeir`). The code first decrements the counters of all flights of the star,
then lands friends, then enemies; the three loops commute, so one step per
flight does all three. Map generation is replaced by the constants `Distance`,
`Richness` and `Placements`. Ships stay far below 2^31, so integers are
unbounded. The orders of a turn are enumerated over `OrderSizes`; which
commander orders first makes no difference because the orders of two commanders
concern different stars.

### Match

One record per AI holds both the `StreamProcess` (`failed`, `cause`) and the
other end of its pipes (`alive`, `inbox`, `out`). An AI reads, writes a line of
any kind, or exits whenever it likes. `pc` follows `Run`: greeting, then per
turn writing and reading one AI after the other, then the galaxy. A line
carries the number of the AI's answer it belongs to, which the code cannot
see: that is what `AnswersStayInStep` is about. Time is a tick count: `quiet`
for the running `Task.Delay(2000)`, `asked` since the question. Time passes
only while nothing is there to read, and `Timeout` may still win over a line
that comes at the last moment. `AdvanceTurn` yields any star counts whose total
does not shrink: by theorem `Refinement` no star is ever given up.
`AdvanceThrows` is `NoHeir` of the galaxy, which `Run` does not catch: the AI
processes of that match are then never stopped, and the task faults
(`GameFails` in `Tournament`).

### Tournament, uploads and scoreboard

The tables are `due`, `started`, `ended` (Tournament), `binary` (Binaries: the
latest validated one), `roster`, `elo`, `listed` (Round) and `game` (Game).
Everything else is memory and is lost by `Forget`. `pc` is the loop of
`Program.RunTournament`; `slot` holds the tasks of `RunRoundLoop`, each of
which goes through the awaits of `RunOneGame`; `sem` is the semaphore. Each
transaction and each statement is one step; a failure may come before or
after the statement took effect. For the two multi-statement transactions an
exception before the commit leaves the tables alone; a failed commit that took
effect leads to the state of the commit followed by a crash, which is modelled.
Ratings are whole numbers of 1/`EloUnit` points; how much a game moves is any
member of `Gains` (the amount depends on a power function TLC cannot compute).
A draw is a gain of the lower rated side.

`RoundTables` is what all this looks like from outside: five actions. The
scoreboard is composed with it rather than with the whole engine, which the
refinement (`BooksAreKept`, theorem `EngineImplementsBooks`) justifies.

`Uploads` follows `RealUpload` and `CommitFile` call by call in several
circuits at once, over one directory and one table, beside the pass of
`SanityCheckRunner` and its retry loop. A content is a model value and is its
own hash. `upload_time` is taken to follow the ids, and which team a row
belongs to is left out.

`Scoreboard` reads in five steps between which the tables move. The engine's
ratings are shown as they are (the code cuts them to whole numbers).

### Crow

A completion handler of the io_service is one action, because one thread runs
them; between two of them the client, the network, the clock and the
application act. The queue of ready completions is explicit in
`CrowConnection` (the order matters) and left to interleaving where it does
not. A read is the one completion taken apart: the parser calls the connection
back for every request it finds (7232-7247, 7271), so `OnMessage` may leave bytes
behind (`feeding`), which the next `OnBytes`, `OnMessage` or `OnReadError` goes on
with before anything else runs. The client may send requests one behind the
other without waiting; `patient` remembers whether it ever did. A call of another
thread on a websocket is posted with a raw `this` (`posts`) and run later, also
when the object is gone (`RunPosted`). Keys and lengths keep their width where the code compares them unsigned
(`TimerQueue`, `HttpParser`). `HttpParser` reads symbols, each one character
that matters or a piece of a word; `HttpWords` has the words character by
character, with what was read reduced to the longest word it may still become,
so that words of every length are covered. `WebSocket`, `QueryString` and the
JSON modules work on byte values. The router's parameters are typed placeholders,
numbers of `LongDigits` digits or more being out of range.

### GrinchNet, Chip-8, heap playground

GrinchNet's time is a count of ticks; computation takes no time next to a
`delay`, and boards due in the same tick step in either order. A prompted
operator types a tick after his prompt at the earliest, which is as soon as one
likes: `D`, the ticks of a bit's delay, is any number. So the first pulse of a
line may rise while the other board still waits out the last delay of its own. Its cipher is
the code's on bytes of `W` bits, of which there are `ByteCount`: 4 in the run,
any power of two in the proofs. Chip-8 has one action per instruction
with 8-bit arithmetic and the code's macros as C reads them. The heap is a
set of addresses that malloc hands out in any order; its list is what a loop
over the `next` pointers visits, as in the code. `IntMin` is the most negative
`int`, whose negation is itself: an edit with it may write in front of the text,
into the chunk's header, after which the chunks are no longer `Intact` and the
model says nothing more of them.

## Runs

Deadlock is not checked in any run because every program modelled really stops
(or polls without a change): a galaxy after its turns or an exception, a match
when it is over, the engine when no round is due, a connection once deleted, a
reader when the input ends, an operator who types no more.

| Run | Instances and bounds | Shows |
|---|---|---|
| duel | 2 commanders, 4 stars (one out of direct range), production every 2 turns, 2 flights per star, 5 turns, orders of 3 and 6 ships | redundant state agrees over turns in which flights overlap, stars produce, run into the flight limit and are captured with flights under way |
| alliance | 2 x 2 commanders around a neutral star, 1 turn, orders of 9 and 10 | every mix of attackers of one star, 9+9 against 10 included: the exception is confined to neutral stars; the two tallies of a fight agree (`TalliesAgree`); links; `Galaxy` implements `Conquest` |
| heir (violation) | as alliance | two fleets of 9 beat one of 10, the largest single fleet is on the losing side, and `eligibleEnemies[0]` throws |
| exchange | 2 AIs, 2 turns, 1 tick a line, 5 kinds of lines, 1 line ahead, 1 order an answer, pipes of 2 messages | every interleaving of runner, time and AIs: write-ahead, late answers, exits, nonsense; a match ends if pipes are read |
| slow (violation) | 2 ticks a line, 2 orders | the time limit is per line, not per answer |
| rounds | one round: 3 teams, 2 threads, 2 games a team, 2 failures. Season: 3 teams, 2 rounds (the second cut to 2 teams), 1 thread, 1 failure, uploads in between | results account for the games, rounds are whole, and the engine implements `RoundTables` |
| progress | 2 teams, 2 rounds, 2 threads, 1 failure, 2 binaries a team | binaries are frozen; started rounds end |
| website | uploads: 2 circuits, a good and a bad content, 2 rows, 2 failures or crashes. Scoreboard: 2 teams, 2 rounds of 1 game, 1 failed query | uploads of one content race with each other and with the checks; five queries make one picture |
| service | timers: 2 connections, 7 or 8 ticks, ints of 4 bits. Connection: 2 requests of every version and header, waited for or not, in any reads, answered at once, later, or around an upgrade. Server: 3 threads, a crash, 3 clients and a stop by the owner, or a signal instead. Websocket: a peer that leaves between frames | `TimerQueue` implements `Deadlines`; nothing that reads outlives its connection, and nothing at all if the client waits; then requests are answered; `run` returns after a signal, or a stop that finds the pool filled |
| messages | words of any length; 94 streams of requests, good and malformed, in reads of 1, 2, 3, 5 and 8 symbols; 3 rules out of all types and kinds; a conversation of eight frames with a message in two parts, frames cut anywhere, both sides closing and hanging up while calls of other threads are posted; queries of 4 pieces and 3 pairs; numbers of 6 characters, strings of 4 and values of 7 pieces; 3 handles on one text; 4 builder calls | what is understood is what was sent; a websocket object is deleted when no read or write can complete on it |
| late_timeout (violation) | connection whose handlers answer later, 2 requests | a read that completes as the deadline fires deletes the connection under a response the application keeps |
| challenges | calls of 3 and 2 bytes, bits of 2 ticks, decoy, keys of 17 letters near the right ones; five sets of Chip-8 programs of up to 52 frames; 3 chunks of up to 3 bytes, 3 ids, indexes from the most negative one on | ciphers in step, instructions exact, the list is a store until an edit spoils a header, everything arrives |

What the properties of a suite consist of is said where they are defined, with
the lines of the code.

Why these bounds are enough: a battle needs at most three attackers to show
every order of its two tallies; a counter and a flight can disagree only
through a launch, a landing and a capture in between, which two overlapping
flights and five turns contain; an answer out of step needs two turns; the
engine's tasks interact pairwise, and a failure while recovering from a failure
needs two. A key is stale after one cancel or firing, and wraps in 4 bits. A
connection's flags interact with at most one read, one deadline and, if the
client waits, one write and one handler; two requests are enough for one to
follow another in the same read, in the next one, or over an answer that is not
out yet. A reader's state depends on the piece it is in and the one before, and
pieces of 1, 2, 3, 5 and 8 put a cut at every symbol. Two uploads show every
race for one file; a refresh spans at most the end of one round and the start
of the next before the missing row stops it. Teams are symmetric, and symmetry
is used only in the run `rounds`, without liveness.

Bounds that exist only in the model have "bound" in their declaration:
`OrderSizes`, `MaxAhead`, `MaxOrders`, `Kinds`, `MaxFailures`, `MaxUploads`,
`MaxRows`, `MaxMishaps`, `MaxGames`, `MaxKey`, `MaxNow`, `MaxRequests`, `Sends`, `Closes`,
`MaxTyped`, `MaxFrames`, `MaxChunks` and the like.

## Fairness

- `Tournament`: weak fairness of the loop and of each task: a `while (true)`
  that retries after any exception, and tasks that continue once their await
  completes. Nothing is assumed of the order in which the semaphore lets tasks
  in. Failures, uploads and the schedule are not assumed to happen.
- `Match`: weak fairness of the runner (time included), none of the AIs.
  `MatchEnds` is conditional: it assumes that no pipe stays full for ever, since
  writing has no time limit, and that answers are finite (`MaxOrders`), since
  the limit is per line. In production only the sandbox's CPU limit enforces
  anything like them.
- website: weak fairness of the check's loop and of the scoreboard's refresh,
  both loops that survive every exception; strong fairness of a game of the
  checks: each launch draws a map of its own, so one that can succeed is not
  answered by an exception for ever. Users need not do anything, and a step of
  an upload may be the last one.
- service: io_services and threads run on; sockets complete writes; in scene
  "later" the application answers in the end; the peer of the scene "goodbye"
  leaves. Clients are not assumed to send anything. Scene "on time" assumes a
  worker that no handler keeps busy (it is about how late a deadline may be
  then); scene "late" does not.
- challenges: boards and machine run on; nobody has to type.

## Proofs

Each proof module extends the module it is about and proves its results for
every value of the constants: any number of commanders, teams, threads, AIs,
uploads, connections, requests and failures. The inductive invariant stands in
the module itself, and is an invariant of a run (by itself, or through the
parts the run names), so that TLC tried it on small instances before it was
proved. It is called `IInv`, or, in modules a suite extends together,
`UploadsInStep`, `TimersInStep`, `ConnectionInStep` and `ServerInStep`. In
`GrinchNetProofs` (`Conversation`) and `HeapPlaygroundProofs` (`Strung`) it
describes what only the proofs speak of, and stands there; the first was tried
with TLC on the constants of the run challenges. Every
proof has the same shape: the initial states satisfy the invariant, one lemma
per action says that it keeps it, a lemma joins them for the next-state
relation, and the results follow.

| Module | Assumes | Inductive invariant | Results |
|---|---|---|---|
| `GalaxyProofs` | `SizeAssumption`, `MapAssumption`: sizes are numbers, distances positive, homes distinct | `Invariance` | `TypeCorrect`, `LinksCorrect`, `PendingCorrect`, `NeutralStarsCorrect`, `FlightsApartCorrect`, `FlightsCorrect`, `TalliesCorrect`, `HeldStarsNeverCrash`, `ShipsCorrect`; `Refinement` (of `Conquest`) |
| `TournamentProofs` | `TournamentAssumption`: finitely many teams, a thread, ratings in whole units | `EngineStaysInStep` | `ConnectionIsNotShared`, `ResultsAreComplete`, `NoGamesLost`, `RoundsArePlayedAsEntered`; `EngineImplementsBooks` (of `RoundTables`) |
| `WebsiteProofs` (uploads) | nothing | `UploadsStayInStep` | `AcknowledgedUploadsAreKept`, `BinariesAreJudgedFairly` (and once) |
| `MatchProofs` | `MatchAssumption`: a star for each AI, pipes that hold a message | `MatchStaysInStep` | `MatchIsConsistent`, `OrdersAreOfThisTurn`, `MatchEndsClean` |
| `WebsiteProofs` (scoreboard) | nothing | `TablesStayInStep`, `ScoreboardStaysInStep` | `ScoreboardShowsOnePicture`, `ScoreboardNeverGoesBack`; both in `ScoreboardShowsTheTruth` |
| `CrowServiceProofs` (timers) | `Sizes`: every key handed out fits an int | `QueueStaysInStep` | `CancelReachesOwnEntry`, `TimersAreInTime`; `QueueImplementsDeadlines` (of `Deadlines`) |
| `CrowServiceProofs` (server) | `Concurrency`: a worker at least | `ServerStaysInStep` | `ConnectionsAreServed`, `OffersAreShared`, `RunReturnsLast`; all in `ServerIsConsistent` |
| `CrowConnectionProofs` | `Bounds`: the types of the constants | `ConnectionStaysInStep` | `NothingOutlivesTheConnection`, `FlagsAreTrue`, `ReadsAreTimed`, `NothingFollowsClose`; all in `ConnectionKeepsItsPromises`; `RequestsAreAnswered` also assumes `AnswersAtOnce`. Reads and deadlines: for every client; writes and answers: for one that waits (`patient`) |
| `HeapPlaygroundProofs` | `HeapAssumption`: finitely many addresses, none of them the null pointer; sizes are numbers, `IntMin` a negative one | `PointersAreStrung` | `PlaceOfIndex`, `TextsEndInZero`; while the chunks are `Intact`: `ListHoldsTheChunks`; `HeapIsAStore` (of `ChunkStore`) |
| `GrinchNetProofs` | `Rc4Assumption`: `ByteCount` is 2 to the `W`; `NetAssumption`: two boards, `D` at least a tick; for the stations also `Prompted` | `StationsKeepTheirPhase` | `CipherUndoesItself`, `KeySchedulePermutes`; `StationsStayInStep` |

The modules of the Crow server have several instances in one run, so what they
assume of their constants is a hypothesis of the theorems, and
`NobodyIsForgotten` checks that the instances of the run satisfy it. `Concurrency` is what the
default of two workers gives; `Sizes` excludes a queue that hands out its
2^31st key, where the code's `int` overflows and nothing can be said.

Why the invariants are what they are:

- *Galaxy.* None of its conjuncts stands alone: the counter's type needs
  `PendingIsExact` (a landing never takes it below zero), which needs
  `FlightsApart` and `FlightsOnCourse` (an order adds a flight that was not
  there, and advancing maps flights one to one); links need their symmetry, or
  `RemoveAllLinks` would miss some. `HeldStarsNeverCrash` also needs
  `LeadHasFleet`: the tally leans only to a side with ships in the battle; all
  fleets of a held star's attackers are of that side, and a function on a
  finite set has a largest value (`LargestValue`). `ShipsCorrect` needs what
  `TalliesAgree` adds, that the balance of a battle is the difference of the two
  sides' fleets: an heir then keeps no more than his side's fleets brought. Its
  totals are sums over sets that change. That any member may be taken out of a
  sum first (`AnyMemberFirst`) is proved with the set of those parts of a finite
  set for which it holds: a set of parts that goes from smaller ones to larger
  ones has them all (`SmallerToLarger`, `OneByOne`), which does the work of an
  induction without an operator as a parameter.
- *Tournament.* `TaskInStep` says of each task which game row is its own and
  still without a result, and that the semaphore is held exactly while it
  inserts or saves. `GamesAreCounted` bounds `NumGames`, which the code
  increments when it dispatches and never decrements: it is at most the quota,
  and exceeds the games played and those in hand by one per failure at most.
  Its second disjunct is the round of a single team, whose task has not failed
  yet but is bound to. `LoopInStep` says that the round in memory is the one
  that is on and that nothing runs outside `RunRoundLoop`. Ratings are sums
  over games: `SumIsInt` (a sum of integers over a finite set is one) stands in
  for an induction over sets by taking the least size at which it fails.
- *Uploads.* `PageInStep` says at each step of an upload whether its temporary
  file is there and whether its target is. A second upload of the same content
  may have moved a file that is not executable yet, hence the set `early` of
  rows that were judged in that window; files that were moved never go away.
- *Match.* `StreamInStep` ties the answer each line in a pipe belongs to to the
  questions asked so far: whoever is still in the match has answered every
  earlier question completely, so what lies in its pipe starts with the answer
  to this one. An AI whose answer was late is failed, and so its line never
  counts for the next turn. This is what `AnswersStayInStep` rests on.
- *Scoreboard.* `DraftInStep` says after each query which part of the draft is
  true already. It holds because the tables only move on: a round that is in the
  first query's answer keeps its binaries, and one that is not makes the refresh
  give up. `TablesInStep` is what is needed of the tables; it is an invariant of
  `RoundTables` by itself, and the engine refines it.
- *Timer queue.* A connection's key points at its entry exactly
  (`KeysMatchEntries`); that a stale key points behind the front, or nowhere,
  needs that no key is beyond the last one handed out, and that entries are in
  the order of their times (`QueueInStep`).
- *Server.* `OffersInStep` is the round robin: workers 1 to
  `roundrobin_index_` have one offer more than the rest. `WorkersInStep` is the
  barrier: threads are started in order, each counts itself once, and the
  acceptor is reached only when all have.
- *Connection.* The invariant has two halves. `ReadingInStep` holds whatever
  the client does: `is_reading` is exact, because one read at most is with the
  socket, queued, being fed to the parser or put off; an object that reads has
  its deadline; one that was told to close reads no more. That is enough for
  everything that reads, whatever overlaps among the writes, because an object
  is deleted only when `is_reading` is false. `PatientInStep` is about a client
  that waits for its answers and for 100 Continue: `ObjectInStep` ties the two
  flags, the deadline and the response to the operations of the socket and to
  the queue. Two of its parts came out of the proof. A write that went through is
  never queued behind a read; and an object that has stopped reading will close
  after its write, or its socket is closed and no write that went through is
  queued: only so does the completion of the last write always delete it, and
  leave nothing behind. The hypothesis cannot be dropped: without it the code
  does overlap its writes (see below).
  `RequestsAreAnswered` needs `AnswersInStep` besides: on an open connection
  every request is answered but the one whose answer is being written. Its
  hypothesis says that handlers answer before they return, no request asks for
  an upgrade to a rule without it, and methods are known to the router; without
  each of them the code does delete a connection with a request unanswered (see
  below). `HeldResponseExists` is false of the code and has its own run.
- *Heap.* What the store holds is what `List` finds, a loop over pointers; until
  one knows that the loop ends nothing can be said of it. The invariant is
  therefore that some sequence of addresses is `Strung` on the pointers, goes
  through every chunk and ascends in the numbers. Creating puts an address
  behind it, deleting takes one out, and `VisitedIsStrung` shows that such a
  sequence is what the loop visits: only then is reusing an address harmless.
  `PlaceOfIndex` says where an edit lands: in its text for every index but one,
  and the step that spoils a header with that one is a step of its own in
  `ChunkStore`.
- *GrinchNet.* At every moment one station sends and the other listens, and
  the two are in one of eight phases of a bit, a byte or a turnaround. Each
  phase says where the bits of the byte are (with the listener, on DATA, still
  with the sender) and whether the listener knows of the last change of SIGNAL.
  A pulse cannot begin and end before the listener looks, because a tick only
  passes when no station has a step to take and `D` is at least one. While the
  line turns both stations drive it for up to `D` ticks, and the new sender may
  raise SIGNAL while the other still holds it low. Its pulse can then not be read
  until the other lets go, and it can because it outlasts it
  (`PulseOutlastsTurn`): it rose a tick after the prompt at the earliest and
  lasts `D`, while the other's delay began at the prompt at the latest. That tick
  is what `Prompted` gives; for a line that was typed ahead
  the property is false (see below). The ciphers are equal between two bytes
  because the listener's has advanced once for each byte it has printed. That decryption gives the byte back rests on bits that
  decide a number (`BitsDecide`) and on exclusive or (`XorTwice`), proved by
  arithmetic on the number of bits, and on a key schedule that only swaps.

Model-checked only, and why:

- liveness under fairness (`StartedRoundsEnd`, `MatchEnds`, `WebsiteGoesOn`,
  `ServiceGoesOn`, `ProgramsGoOn`): beyond the prover;
- the readers (parser, router, websocket, query strings, JSON): what they
  compute is defined by recursion over texts;
- the Chip-8 machine and the check of GrinchNet's key: their operations on the
  bits of a byte are those of the module `Bitwise`, which the prover does not
  have; the decoy of GrinchNet, which says no more than what it prints.

`NeutralStarsIdle`, `TurnsAreComplete`, `PublishedIsTrue`, `CacheMovesOn`,
`JudgedFairly`, `JudgedOnce`, `FlagsMatchOperations`, `ReadsHaveDeadline`,
`CloseIsLast` and the properties of the server are parts of the properties the
runs name. So are `KeysMatchEntries` and `TimersInStep`, `NoTimerIsLate` and
`AnsweredBeforeDeleted`, in `NobodyIsForgotten`, each for the scenes whose
constants their theorems ask for.

## What the models make visible

Three disagreements between the code and what it says have runs (heir, slow,
late_timeout) and stand in PROJECT.json. Others were met while modelling; each
is a statement of the code or its notes that the code does not keep. The models
do what the code does, and the properties are stated so that they hold.

Battle:

- `Contract.Requires(n != 2)` (`Tournament.cs:326`) excludes the only number of
  teams `UpdateRatings` is called with; it is compiled out.
- A round entered by exactly one team with two or more games a team never ends:
  `SelectPlayers` throws every time (`Tournament.cs:359`). `StartedRoundsEnd`
  excludes it; no property says more about it.
- A faulted task counts as a game dispatched: the round ends with one game
  fewer unless the failure was among the last ones. `NumGamesPending` is never
  read, so teams may play unequal numbers of games. A crash leaves Game rows
  with `end_time` 0 for ever.
- A valid upload whose file is in place and not yet executable is failed for
  good (`VerdictsAreFair` names the case). An exception in CommitFile leaves the
  file under its random name. `RunSanityCheck` leaks its connection at each retry.
- The scoreboard lists a team twice when its round starts during a refresh
  (`PublishedIsTrue` names the case); the end of a game is always shown as -1,
  because a `bigint` is tested for `int`; "Competition has finished" needs an
  empty list of rounds (`MainLayout.razor.cs:33`), which there never is.

Crow:

- `close_connection_` with a handler that answers later, and an upgrade to a
  rule without websocket, delete the connection without an answer ("adaptor will
  close after write", line 9133). Methods the parser knows and the router does
  not leave the connection waiting for ever (8545).
- A client that sends its next request before the last answer is out (allowed
  by HTTP/1.1, and found in one read by 7232-7247 and 7271) has two answers
  written at once from the same buffers (8956-8966, 9029, 9087); the completion of
  the first clears the flag of both (9155), and when one of the requests asked to
  close it deletes the object under the second write (9160-9164, 9181). If
  garbage follows a request in one read, the socket is closed with a write
  outstanding; a completion that was queued as a success then leaves an object
  nobody deletes (9118-9125 with 9155-9166). Hence the `patient` in
  `NothingOutlives`, `FlagsMatchOperations`, `AnsweredBeforeDeleted` and
  `ConnectionsEnd`. What follows a request to close in one read is refused by the
  parser (`IsLast`), but for HTTP/1.0 with Proxy-Connection: keep-alive, which
  the parser keeps open and Crow closes.
- "Currently, ignore upgrade header" (8929): what follows such a request in the
  same read is dropped, and the connection closed.
- A rule such as `/<path>/` redirects every request to itself and one more slash
  (8454).
- Websocket: a frame header read in two parts is misread (6792), a payload in two
  reads stalls; check_destroy may tell the close handler twice (7095); the last
  continuation of a message is delivered again, alone (7000); when both sides
  close, the object is used after its deletion (7042, 7058, 6956); and a call of
  another thread is posted with a raw `this`, which may be gone when it runs
  (6717, 6727). `NothingRunsOnTheDeleted` and `OnlyAFrameIsAbandoned` name these
  cases as their exceptions, so they do not show that they cannot happen.
- A stop between `notify_server_start` and the start of the workers is missed by
  those that do not exist yet, and `run` does not return (9619).
- JSON: moving a `wvalue` loses what kind of number it is (1803); a string read
  late through an early copy shows a NUL and the raw rest (1044); `operator<<`
  does not escape strings.
- Query strings: of more than 256 pairs one too many is counted (122).

Others: a line typed ahead shortens the first pulse after a turnaround so that
its bit may be missed (`GrinchNet.ino:120`, against `NOTES:2`); `isValidKey`
leaves one letter free that `util/solve.py:7` fixes; `cpu.i += VX + 1` moves the
index by X / 2 because VX lacks parentheses (`gr8_escape.c:14`, 467, 477), and
`LD Vx, K` never writes Vx (416). Negating the most negative index leaves it
negative, and the edit changes the header of the chunk or what lies before it
(`heap_playground.c:100-103`), as `solution/exploit.py:8` and 69-75 do.

## Assumptions and what is left out

Within the modelled components:

- Galaxy: what a commander sees (`GetInputsForTurn`), the integer root of the
  distances, the game record.
- Tournament: the wins, losses and draws columns (never written), exact Elo
  amounts. Website: good binaries always pass their game; the status line and
  the pages that show the cache; the Team table is fixed.
- Crow connection and server: which bytes a write sends, so what a client reads
  when two writes overlap is not said; answers and writes are promised to a
  client that waits only. The condition variable waits without a spurious
  wake-up. Parser: responses, the
  URL splitter, and some quirks (empty header values are dropped unless last,
  lines without a colon, the last trailer, `nread` carried over trailers).
  Router: one request per behaviour; handler arguments are bound by templates.
  Websocket: messages in more than two frames; where a write's bytes go after
  the socket was closed.
- Query strings: up to 256 pairs; `keys()` of a moved-from object is not called;
  get_dict ends at the first malformed pair, as in the code. JSON: `%g`,
  comparison operators and nested values of the builder; copies are dropped
  before the owner of the text; one thread. Where Crow's JSON departs from the
  grammar, `JsonGrammar` departs with it and says so.
- GrinchNet: operators wait for their prompt and for each echo, and take some
  time, however little, to type; serial speed and pull-ups.
- Chip-8: games stay in memory, on the screen and within the stack; sound,
  terminal and the high-score file. Heap playground: what
  commands do once a header was overwritten.

Not modelled at all are the components listed as `not_modelled` in
PROJECT.json: pure I/O and start-up (launcher, offline simulator, web host,
visualizer, templates), floating-point geometry (map generator), system calls in
a row (sandbox), data and packaging (operations, example AIs), and the other
challenges, which are puzzles without a program, pages without state or
exercises whose defects are their purpose. `2019-12-02_rev3` is the one other
stateful program, and its sessions are the first candidate for an extension.

## Plan

Done: everything in the tables above. Next:

1. Proofs: deletion in `WebSocket` (`NothingRunsOnTheDeleted`,
   `ToldBeforeDeleted`).
2. What a commander sees of the galaxy, checked against reachability over links.
3. The sessions of rev3.
