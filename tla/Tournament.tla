----------------------------- MODULE Tournament -----------------------------
(***************************************************************************)
(* The tournament engine: TournamentRunner of framework/Tournament.cs in   *)
(* the retry loop of framework/Program.cs, over the database tables of     *)
(* db/schema.sql.                                                          *)
(*                                                                         *)
(* One loop (pc) starts a round, recovers what the database knows of it,   *)
(* keeps NumThreads games going (slot) until enough were started, waits    *)
(* for the last ones and finishes the round.  The games share the data of  *)
(* the round and one database connection under a semaphore.  Any database  *)
(* call or game may fail and the process may crash: what survives is in    *)
(* the tables, and the loop starts over after reconnecting.                *)
(*                                                                         *)
(* A rating is a number of 1/EloUnit points.  Definitions named ...Mutant  *)
(* are not part of the specification: each is the definition below it with *)
(* a plausible mistake, for the checks that show that a property notices.  *)
(***************************************************************************)
EXTENDS Integers, Sequences, FiniteSets, FiniteSetsExt, Functions

CONSTANTS
    Teams,
    NumRounds,
    NumThreads,
    Desired,        \* desired_games_per_team
    TeamsLimit,     \* teams_limit of each round
    EloUnit,        \* parts of a rating point
    Gains,          \* what ComputeEloDelta may give the winner of a game
    MaxFailures,    \* bound: failed calls, failed games and crashes
    MaxUploads,     \* bound: validated binaries of one team
    InitBinaries    \* the binaries validated before the first round

Rounds == 1 .. NumRounds
Slots == 1 .. NumThreads
None == 0
UNRATED == -10000
START_ELO == 1500 * EloUnit
NoElo == UNRATED * EloUnit - 1      \* NULL

ASSUME TournamentAssumption ==
    /\ IsFiniteSet(Teams)
    /\ NumRounds \in Nat /\ NumThreads \in Nat \ {0}
    /\ Desired \in Nat
    /\ TeamsLimit \in [Rounds -> Nat \ {0}]
    /\ EloUnit \in Nat \ {0} /\ Gains \subseteq Nat
    /\ MaxFailures \in Nat /\ MaxUploads \in Nat
    /\ InitBinaries \in [Teams -> 0 .. MaxUploads]

VARIABLES
    due,        \* rounds whose scheduled_start_time has passed
    started,    \* Tournament: rounds with an actual_start_time
    ended,      \* Tournament: rounds with an actual_end_time
    binary,     \* Binaries: the latest validated one of each team, None if none
    roster,     \* Round: the binary_path each team entered with, None if not in
    elo,        \* Round: elo, NoElo while it is NULL
    listed,     \* Round: games, the ids written by FinishRound
    game,       \* Game: the rows in the order of their ids
    pc,         \* where the tournament loop is
    plan,       \* StartRound: the teams and binaries it is about to enter
    round,      \* OneRoundTempData
    slot,       \* tasks: the running games
    sem,        \* the slot that holds OneRoundTempData.Semaphore, or None
    failures    \* what went wrong so far

tables == << due, started, ended, binary, roster, elo, listed, game >>
vars == << tables, pc, plan, round, slot, sem, failures >>

NoTeams == [t \in Teams |-> None]
NoRound == [id |-> None, entrant |-> NoTeams, count |-> NoTeams,
            numGames |-> 0]
FreeSlot == [pc |-> "completed", teams |-> {}, id |-> None, gain |-> NoTeams]
FaultedSlot == [FreeSlot EXCEPT !.pc = "faulted"]
FreeSlots == [k \in Slots |-> FreeSlot]

Init ==
    /\ due = {} /\ started = {} /\ ended = {}
    /\ binary = InitBinaries
    /\ roster = [r \in Rounds |-> NoTeams]
    /\ elo = [r \in Rounds |-> [t \in Teams |-> NoElo]]
    /\ listed = [r \in Rounds |-> [t \in Teams |-> {}]]
    /\ game = << >>
    /\ pc = "down"
    /\ plan = NoTeams
    /\ round = NoRound
    /\ slot = FreeSlots
    /\ sem = None
    /\ failures = 0

-----------------------------------------------------------------------------
(* What the tables say                                                     *)

Entered(r) == {t \in Teams : roster[r][t] # None}

(* GetCurrentActiveRound and GetNextUnstartedRound                         *)
Active == started \ ended
NextUnstarted == {r \in Rounds \ started : \A q \in Rounds \ started : r <= q}

(* The games RecoverRoundData replays: end_time != 0                       *)
PlayedGames(r) == {g \in DOMAIN game : game[g].round = r /\ game[g].done}

GamesOf(r, t) == {g \in PlayedGames(r) : t \in game[g].teams}

(* The rating a team enters a round with: its rating of the round before,  *)
(* 1500 if it did not take part in that one.                               *)
StartingElo(r, t) ==
    IF r - 1 \in Rounds /\ t \in Entered(r - 1) THEN elo[r - 1][t]
                                                ELSE START_ELO

(* StartingElo and the replayed elo_deltas: PendingElo after recovery.     *)
RecoveredElo(r, t) ==
    StartingElo(r, t) + SumFunction([g \in GamesOf(r, t) |-> game[g].gain[t]])

(* GamesToRun of a round, and of the one that is on.                       *)
GamesToRun(r) == (Cardinality(Entered(r)) * Desired) \div 2
Quota == GamesToRun(round.id)

-----------------------------------------------------------------------------
(* The outside: time passes, and teams get new binaries validated          *)

ScheduleReached(r) ==
    /\ r \notin due
    /\ due' = due \cup {r}
    /\ UNCHANGED << started, ended, binary, roster, elo, listed, game, pc,
                    plan, round, slot, sem, failures >>

BinaryValidated(t) ==
    /\ binary[t] < MaxUploads
    /\ binary' = [binary EXCEPT ![t] = @ + 1]
    /\ UNCHANGED << due, started, ended, roster, elo, listed, game, pc, plan,
                    round, slot, sem, failures >>

-----------------------------------------------------------------------------
(* RunTournament: connecting, and giving up on any exception               *)

Connect ==
    /\ pc = "down"
    /\ pc' = "ready"
    /\ UNCHANGED << tables, plan, round, slot, sem, failures >>

Forget ==
    /\ pc' = "down"
    /\ plan' = NoTeams
    /\ round' = NoRound
    /\ slot' = FreeSlots
    /\ sem' = None

MayFail == failures < MaxFailures /\ failures' = failures + 1

(* A query or a transaction of the tournament loop throws.                 *)
DatabaseFails ==
    /\ pc \in {"ready", "starting", "recovering", "finishing"}
    /\ MayFail
    /\ Forget
    /\ UNCHANGED tables

(* The process dies with all its games and comes back.                     *)
Crash ==
    /\ pc # "down"
    /\ MayFail
    /\ Forget
    /\ UNCHANGED tables

-----------------------------------------------------------------------------
(* StartRound                                                              *)

(* A round was left active by an earlier run of the loop.                  *)
ResumeRound ==
    /\ pc = "ready"
    /\ Active # {}
    /\ pc' = "recovering"
    /\ UNCHANGED << tables, plan, round, slot, sem, failures >>

(* (int) elo: towards zero.                                                *)
Truncated(e) == IF e >= 0 THEN e \div EloUnit ELSE -((-e) \div EloUnit)

PreviousRating(r, t) ==
    IF r - 1 \in Rounds /\ t \in Entered(r - 1)
    THEN Truncated(elo[r - 1][t])
    ELSE UNRATED

(* The best TeamsLimit of the teams with a validated binary, and whoever   *)
(* ties with the last of them.                                             *)
Qualified(r) ==
    LET eligible == {t \in Teams : binary[t] # None}
    IN  {t \in eligible :
           Cardinality({u \in eligible :
                          PreviousRating(r, u) > PreviousRating(r, t)})
             < TeamsLimit[r]}

NoRoundActiveMutant == TRUE

NoRoundActive == Active = {}

PlanRound ==
    /\ pc = "ready"
    /\ NoRoundActive
    /\ \E r \in NextUnstarted \cap due :
         plan' = [t \in Teams |-> IF t \in Qualified(r) THEN binary[t]
                                                       ELSE None]
    /\ pc' = "starting"
    /\ UNCHANGED << tables, round, slot, sem, failures >>

(* The transaction that inserts the Round rows and sets actual_start_time. *)
StartRound ==
    /\ pc = "starting"
    /\ \E r \in NextUnstarted :
         /\ roster' = [roster EXCEPT ![r] = plan]
         /\ started' = started \cup {r}
    /\ plan' = NoTeams
    /\ pc' = "recovering"
    /\ UNCHANGED << due, ended, binary, elo, listed, game, round, slot, sem,
                    failures >>

-----------------------------------------------------------------------------
(* RecoverRoundData and RunRoundLoop                                       *)

RecoverBinariesMutant ==
    /\ pc = "recovering"
    /\ \E r \in Active :
         round' = [id |-> r,
                   entrant |-> [t \in Teams |->
                                  IF t \in Entered(r) THEN binary[t] ELSE None],
                   count |-> [t \in Teams |-> Cardinality(GamesOf(r, t))],
                   numGames |-> Cardinality(PlayedGames(r))]
    /\ pc' = "running"
    /\ UNCHANGED << tables, plan, slot, sem, failures >>

RecoverNothingMutant ==
    /\ pc = "recovering"
    /\ \E r \in Active :
         round' = [id |-> r, entrant |-> roster[r], count |-> NoTeams,
                   numGames |-> 0]
    /\ pc' = "running"
    /\ UNCHANGED << tables, plan, slot, sem, failures >>

Recover ==
    /\ pc = "recovering"
    /\ \E r \in Active :
         round' = [id |-> r,
                   entrant |-> roster[r],
                   count |-> [t \in Teams |-> Cardinality(GamesOf(r, t))],
                   numGames |-> Cardinality(PlayedGames(r))]
    /\ pc' = "running"
    /\ UNCHANGED << tables, plan, slot, sem, failures >>

Over(k) == slot[k].pc \in {"completed", "faulted"}

(* A task that is over, whichever way, makes room for the next game.       *)
Dispatch(k) ==
    /\ pc = "running"
    /\ round.numGames < Quota
    /\ Over(k)
    /\ slot' = [slot EXCEPT ![k] = [FreeSlot EXCEPT !.pc = "selecting"]]
    /\ round' = [round EXCEPT !.numGames = @ + 1]
    /\ UNCHANGED << tables, pc, plan, sem, failures >>

AllOverMutant == TRUE

AllOver == \A k \in Slots : Over(k)

(* WhenAll returns: an exception of a task still in its slot is rethrown.  *)
AwaitGames ==
    /\ pc = "running"
    /\ round.numGames >= Quota
    /\ AllOver
    /\ IF \E k \in Slots : slot[k].pc = "faulted"
       THEN Forget
       ELSE /\ pc' = "finishing"
            /\ UNCHANGED << plan, round, slot, sem >>
    /\ UNCHANGED << tables, failures >>

(* FinishRound: recovers the round once more and writes its results in one *)
(* transaction.                                                            *)
FinishRound ==
    /\ pc = "finishing"
    /\ \E r \in Active :
         /\ elo' = [elo EXCEPT ![r] = [t \in Teams |->
                      IF t \in Entered(r) THEN RecoveredElo(r, t) ELSE NoElo]]
         /\ listed' = [listed EXCEPT ![r] = [t \in Teams |-> GamesOf(r, t)]]
         /\ ended' = ended \cup {r}
    /\ pc' = "ready"
    /\ UNCHANGED << due, started, binary, roster, game, plan, round, slot, sem,
                    failures >>

-----------------------------------------------------------------------------
(* RunOneGame in slot k                                                    *)

At(k, label) == slot[k].pc = label

SemFreeMutant == TRUE

SemFree == sem = None

FaultMutant(k) ==
    /\ slot' = [slot EXCEPT ![k] = FaultedSlot]
    /\ UNCHANGED sem

(* The task ends with an exception; finally releases the semaphore.        *)
Fault(k) ==
    /\ slot' = [slot EXCEPT ![k] = FaultedSlot]
    /\ sem' = IF sem = k THEN None ELSE sem

(* The teams SelectPlayers shuffles: those with games to go, or all teams  *)
(* when at most one of them is left.                                       *)
Candidates ==
    LET entrants == {t \in Teams : round.entrant[t] # None}
        short == {t \in entrants : round.count[t] < Desired}
    IN  IF Cardinality(short) <= 1 THEN entrants ELSE short

SelectPlayers(k) ==
    /\ At(k, "selecting") /\ SemFree
    /\ \E pair \in kSubset(2, Candidates) :
         slot' = [slot EXCEPT ![k] = [@ EXCEPT !.pc = "inserting",
                                               !.teams = pair]]
    /\ sem' = k
    /\ UNCHANGED << tables, pc, plan, round, failures >>

(* "Not enough teams"                                                      *)
SelectThrows(k) ==
    /\ At(k, "selecting") /\ SemFree
    /\ Cardinality(Candidates) < 2
    /\ Fault(k)
    /\ UNCHANGED << tables, pc, plan, round, failures >>

InsertGame(k) ==
    /\ At(k, "inserting")
    /\ game' = Append(game, [round |-> round.id, teams |-> slot[k].teams,
                             done |-> FALSE, gain |-> NoTeams])
    /\ slot' = [slot EXCEPT ![k] = [@ EXCEPT !.pc = "playing",
                                             !.id = Len(game) + 1]]
    /\ sem' = None
    /\ UNCHANGED << due, started, ended, binary, roster, elo, listed, pc,
                    plan, round, failures >>

(* ComputeEloDelta: what one team gains the other one loses.               *)
EloDeltas(teams, w, d) ==
    [t \in Teams |-> IF t \notin teams THEN 0 ELSE IF t = w THEN d ELSE -d]

(* simulator.Launch returns the result.                                    *)
GameEnds(k) ==
    /\ At(k, "playing")
    /\ \E w \in slot[k].teams, d \in Gains :
         slot' = [slot EXCEPT ![k] =
                    [@ EXCEPT !.pc = "rating",
                              !.gain = EloDeltas(slot[k].teams, w, d)]]
    /\ UNCHANGED << tables, pc, plan, round, sem, failures >>

(* UpdateRatings: in memory, ahead of the database.  Of the rest of what   *)
(* the code keeps in memory for a team, NumGamesPending is never read and  *)
(* PendingElo is only read after a fresh recovery (FinishRound).           *)
UpdateRatings(k) ==
    /\ At(k, "rating") /\ SemFree
    /\ round' = [round EXCEPT !.count = [t \in Teams |->
                   IF t \in slot[k].teams THEN @[t] + 1 ELSE @[t]]]
    /\ slot' = [slot EXCEPT ![k].pc = "saving"]
    /\ sem' = k
    /\ UNCHANGED << tables, pc, plan, failures >>

SaveRow(k) ==
    game' = [game EXCEPT ![slot[k].id] =
               [@ EXCEPT !.done = TRUE, !.gain = slot[k].gain]]

SaveGame(k) ==
    /\ At(k, "saving")
    /\ SaveRow(k)
    /\ slot' = [slot EXCEPT ![k] = FreeSlot]
    /\ sem' = None
    /\ UNCHANGED << due, started, ended, binary, roster, elo, listed, pc,
                    plan, round, failures >>

(* The call fails before or after the database acted on it, or the game    *)
(* itself does.                                                            *)
GameFails(k) ==
    /\ \/ At(k, "inserting") /\ UNCHANGED game
       \/ At(k, "playing") /\ UNCHANGED game
       \/ At(k, "saving") /\ (SaveRow(k) \/ UNCHANGED game)
    /\ MayFail
    /\ Fault(k)
    /\ UNCHANGED << due, started, ended, binary, roster, elo, listed, pc,
                    plan, round >>

-----------------------------------------------------------------------------

Main == \/ Connect \/ ResumeRound \/ PlanRound \/ StartRound \/ Recover
        \/ AwaitGames \/ FinishRound
        \/ \E k \in Slots : Dispatch(k)

Game(k) == \/ SelectPlayers(k) \/ SelectThrows(k) \/ InsertGame(k)
           \/ GameEnds(k) \/ UpdateRatings(k) \/ SaveGame(k)

Failure == DatabaseFails \/ Crash \/ \E k \in Slots : GameFails(k)

Outside == \/ \E r \in Rounds : ScheduleReached(r)
           \/ \E t \in Teams : BinaryValidated(t)

Next == Main \/ (\E k \in Slots : Game(k)) \/ Failure \/ Outside

Spec == Init /\ [][Next]_vars

(* The engine keeps going: the loop is retried for ever, every task runs   *)
(* on and every game ends.  Nothing is assumed of failures, the schedule   *)
(* and the teams.                                                          *)
Fairness == WF_vars(Main) /\ \A k \in Slots : WF_vars(Game(k))

FairSpec == Spec /\ Fairness

-----------------------------------------------------------------------------
(* Properties                                                              *)

SlotStates == {"completed", "faulted", "selecting", "inserting", "playing",
               "rating", "saving"}

GainType == [Teams -> Int]
RowType == [round : Rounds, teams : SUBSET Teams, done : BOOLEAN, gain : GainType]
RoundType == [id : Rounds \cup {None}, entrant : [Teams -> 0 .. MaxUploads],
              count : [Teams -> Nat], numGames : Nat]
SlotType == [pc : SlotStates, teams : SUBSET Teams, id : Nat, gain : GainType]

TypeOK ==
    /\ due \subseteq Rounds /\ started \subseteq Rounds /\ ended \subseteq started
    /\ binary \in [Teams -> 0 .. MaxUploads]
    /\ roster \in [Rounds -> [Teams -> 0 .. MaxUploads]]
    /\ elo \in [Rounds -> [Teams -> Int]]
    /\ listed \in [Rounds -> [Teams -> SUBSET (DOMAIN game)]]
    /\ game \in Seq(RowType)
    /\ pc \in {"down", "ready", "starting", "recovering", "running",
               "finishing"}
    /\ plan \in [Teams -> 0 .. MaxUploads]
    /\ round \in RoundType
    /\ slot \in [Slots -> SlotType]
    /\ sem \in Slots \cup {None}
    /\ failures \in 0 .. MaxFailures

(* The single connection is never used for two commands at once: the games *)
(* of a round take turns, and the loop itself uses it only when none of    *)
(* them is inside a command ("must use a separate connection to avoid race *)
(* conditions", Program.cs).                                               *)
OneCommandAtATime ==
    LET busy == {k \in Slots : slot[k].pc \in {"inserting", "saving"}}
    IN  /\ Cardinality(busy) <= 1
        /\ pc # "running" => busy = {}

(* The result of a round that has ended is final and accounts for all of   *)
(* its games: each team's rating is the one it started with plus what it   *)
(* gained in the games recorded as played, and its list of games is those. *)
(* No crash, retry or late game makes a game count twice, get lost, or     *)
(* finish after the round did.                                             *)
ResultsAccountForGames ==
    \A r \in ended, t \in Teams :
      t \in Entered(r) => /\ elo[r][t] = RecoveredElo(r, t)
                          /\ listed[r][t] = GamesOf(r, t)

(* Crashes and retries neither lengthen nor cut a round: what was played    *)
(* before a crash counts, so a round never records more games than it is    *)
(* meant to have, and it ends with fewer only by failures, one per missing  *)
(* game (a failed game is not repeated unless it is among the last).        *)
RoundsAreWhole ==
    \A r \in started :
      LET missing == GamesToRun(r) - Cardinality(PlayedGames(r))
      IN  missing >= 0 /\ (r \in ended => missing <= failures)

(* A team plays a whole round with the binary it entered with: neither a   *)
(* newer upload nor a restart in the middle of the round changes it.       *)
BinariesAreFrozen ==
    round.id # None => round.entrant = roster[round.id]

-----------------------------------------------------------------------------
(* The inductive invariant: how the memory of the loop and of its games    *)
(* agrees with the tables at every step (TournamentProofs).                *)

(* A round starts when all before it have ended, so at most one is active, *)
(* and games belong to rounds that started.                                *)
RoundsInOrder ==
    /\ \A r \in started, q \in Rounds : q < r => q \in ended
    /\ \A g \in DOMAIN game : game[g].round \in started

(* While it runs or finishes a round the loop is at the active one.        *)
LoopInStep ==
    /\ pc = "starting" => Active = {}
    /\ \A t \in Teams : plan[t] <= binary[t]
    /\ pc \in {"running", "finishing"} => round.id \in Active
    /\ round.id # None => /\ round.id \in started
                          /\ round.entrant = roster[round.id]
    /\ pc # "running" => AllOver
    /\ pc = "finishing" => /\ \A k \in Slots : At(k, "completed")
                           /\ round.numGames >= Quota

(* A task in the middle of a game: between SelectPlayers and the end, and  *)
(* from the row without a result to the result.                            *)
Underway(k) == slot[k].pc \in {"inserting", "playing", "rating", "saving"}
HasRow(k) == slot[k].pc \in {"playing", "rating", "saving"}

TaskInStep(k) ==
    /\ sem = k <=> slot[k].pc \in {"inserting", "saving"}
    /\ Underway(k) => slot[k].teams \in kSubset(2, Entered(round.id))
    /\ HasRow(k) =>
         /\ slot[k].id \in DOMAIN game
         /\ ~game[slot[k].id].done
         /\ game[slot[k].id].round = round.id
         /\ game[slot[k].id].teams = slot[k].teams
         /\ \A j \in Slots : HasRow(j) /\ j # k => slot[j].id # slot[k].id
    /\ slot[k].pc \in {"rating", "saving"} =>
         \E w \in slot[k].teams, d \in Gains :
            slot[k].gain = EloDeltas(slot[k].teams, w, d)

(* NumGames counts the games played, those in hand and, at most one per    *)
(* failure, those that are lost; but with a single team every task faults. *)
InHand == {k \in Slots : ~Over(k)}

GamesAreCounted ==
    pc \in {"running", "finishing"} =>
      LET known == Cardinality(PlayedGames(round.id)) + Cardinality(InHand)
      IN  /\ known <= round.numGames /\ round.numGames <= Quota
          /\ \/ round.numGames <= known + failures
             \/ /\ Cardinality(Entered(round.id)) < 2
                /\ \E k \in Slots : slot[k].pc \in {"selecting", "faulted"}

EngineInStep ==
    /\ RoundsInOrder /\ LoopInStep /\ (\A k \in Slots : TaskInStep(k))
    /\ GamesAreCounted

(* The types, the connection used as Npgsql allows, and what connects      *)
(* memory and tables at every step.                                        *)
EngineConsistent == TypeOK /\ OneCommandAtATime /\ EngineInStep

IInv == TypeOK /\ EngineInStep /\ ResultsAccountForGames /\ RoundsAreWhole

-----------------------------------------------------------------------------
Books == INSTANCE RoundTables WITH StartElo <- START_ELO

(* However often the engine fails and starts over, others see the tables   *)
(* go from round to round as RoundTables says (Tournament.cs, all that is  *)
(* written to conn).                                                       *)
BooksAreKept == Books!Spec

(* A round that could be played is played to its end once its turn comes:  *)
(* no failure, crash or wait for the semaphore leaves it hanging.  A round *)
(* with exactly one team is the exception (SelectPlayers then throws every *)
(* time), as the README explains.                                          *)
StartedRoundsEnd ==
    \A r \in Rounds :
      (r \in started /\ Cardinality(Entered(r)) # 1) ~> (r \in ended)
=============================================================================
