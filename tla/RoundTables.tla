---------------------------- MODULE RoundTables ----------------------------
(***************************************************************************)
(* What the database tables of db/schema.sql go through as others see      *)
(* them: the abstract specification of the tournament engine.  Whatever    *)
(* the engine keeps in memory, loses in a crash and tries again, the       *)
(* tables only ever change by the five actions below.                      *)
(*                                                                         *)
(* Tournament implements this module; Scoreboard reads the tables while    *)
(* they go through it.                                                     *)
(***************************************************************************)
EXTENDS Integers, Sequences, FiniteSetsExt, Functions

CONSTANTS
    Teams,
    NumRounds,
    MaxUploads,     \* bound: validated binaries of one team
    StartElo,       \* the rating of a team that was not in the round before
    Gains,          \* what a game may give its winner
    NoElo           \* NULL

VARIABLES
    started,    \* Tournament: rounds with an actual_start_time
    ended,      \* Tournament: rounds with an actual_end_time
    binary,     \* Binaries: the latest validated one of each team, 0 if none
    roster,     \* Round: the binary_path each team entered with, 0 if not in
    elo,        \* Round: elo, NoElo while it is NULL
    game        \* Game: the rows in the order of their ids

tables == << started, ended, binary, roster, elo, game >>

Rounds == 1 .. NumRounds
Active == started \ ended
Entered(r) == {t \in Teams : roster[r][t] # 0}
Played(r) == {g \in DOMAIN game : game[g].round = r /\ game[g].done}
GamesOf(r, t) == {g \in Played(r) : t \in game[g].teams}

StartingElo(r, t) ==
    IF r > 1 /\ t \in Entered(r - 1) THEN elo[r - 1][t] ELSE StartElo

Init ==
    /\ started = {} /\ ended = {}
    /\ binary \in [Teams -> 0 .. MaxUploads]
    /\ roster = [r \in Rounds |-> [t \in Teams |-> 0]]
    /\ elo = [r \in Rounds |-> [t \in Teams |-> NoElo]]
    /\ game = << >>

(* The sanity checks pass a newer binary of a team.                        *)
Validate(t) ==
    /\ binary[t] < MaxUploads
    /\ binary' = [binary EXCEPT ![t] = @ + 1]
    /\ UNCHANGED << started, ended, roster, elo, game >>

(* The next round, once all before it ended, with binaries validated by    *)
(* then, some of which may not be the latest any more.                     *)
StartRound(r) ==
    /\ r \notin started
    /\ started = ended /\ 1 .. r - 1 \subseteq ended
    /\ \E entry \in {f \in [Teams -> 0 .. MaxUploads] :
                       \A t \in Teams : f[t] <= binary[t]} :
          roster' = [roster EXCEPT ![r] = entry]
    /\ started' = started \cup {r}
    /\ UNCHANGED << ended, binary, elo, game >>

InsertGame(r) ==
    /\ r \in Active
    /\ \E pair \in kSubset(2, Entered(r)) :
          game' = Append(game, [round |-> r, teams |-> pair, done |-> FALSE,
                                gain |-> [t \in Teams |-> 0]])
    /\ UNCHANGED << started, ended, binary, roster, elo >>

(* The only result of a game, while its round is on: what one team wins    *)
(* the other one loses.                                                    *)
SaveGame(g) ==
    /\ ~game[g].done /\ game[g].round \in Active
    /\ \E winner \in game[g].teams, d \in Gains :
          game' = [game EXCEPT
            ![g].done = TRUE,
            ![g].gain = [t \in Teams |-> IF t \notin game[g].teams THEN 0
                                         ELSE IF t = winner THEN d ELSE -d]]
    /\ UNCHANGED << started, ended, binary, roster, elo >>

(* The round ends with the rating each team started from and what it won   *)
(* and lost in all games that were played.                                 *)
FinishRound(r) ==
    /\ r \in Active
    /\ elo' = [elo EXCEPT ![r] = [t \in Teams |->
                 IF t \in Entered(r)
                 THEN StartingElo(r, t)
                        + SumFunction([g \in GamesOf(r, t) |-> game[g].gain[t]])
                 ELSE NoElo]]
    /\ ended' = ended \cup {r}
    /\ UNCHANGED << started, binary, roster, game >>

Next ==
    \/ \E t \in Teams : Validate(t)
    \/ \E r \in Rounds : StartRound(r) \/ InsertGame(r) \/ FinishRound(r)
    \/ \E g \in DOMAIN game : SaveGame(g)

Spec == Init /\ [][Next]_tables

-----------------------------------------------------------------------------
(* What is known of the tables at every moment: rounds go by one after the *)
(* other, and teams enter and play only in rounds that have started.       *)

RowType == [round : Rounds, teams : SUBSET Teams, done : BOOLEAN,
            gain : [Teams -> Gains \cup {-d : d \in Gains} \cup {0}]]

TablesInStep ==
    /\ started \subseteq Rounds /\ ended \subseteq started
    /\ \A r \in started : 1 .. r - 1 \subseteq ended
    /\ binary \in [Teams -> Nat]
    /\ roster \in [Rounds -> [Teams -> Nat]]
    /\ \A r \in Rounds : Entered(r) # {} => r \in started
    /\ elo = [r \in Rounds |-> elo[r]]
    /\ game \in Seq(RowType)
    /\ \A g \in DOMAIN game : game[g].round \in started
=============================================================================
