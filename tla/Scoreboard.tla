----------------------------- MODULE Scoreboard -----------------------------
(***************************************************************************)
(* The scoreboard of the web site (web/Data/ScoreboardCache.cs).  Refresh  *)
(* builds a new cache from five queries without a transaction, while the   *)
(* engine changes the tables as RoundTables allows; then it takes the      *)
(* place of the cache that all pages show.  An exception, be it of the     *)
(* database or of a row the earlier queries did not announce, leaves the   *)
(* old cache in place until the next try.                                  *)
(***************************************************************************)
EXTENDS RoundTables

CONSTANTS
    MaxGames,       \* bound: games of one round
    MaxFailures,    \* bound: failed queries
    Unknown         \* -1, shown as no rating

VARIABLES
    at,         \* the query Refresh waits for
    latest,     \* teamLatestBinary
    draft,      \* the new TournamentCache
    cache,      \* the one the pages show
    failures

vars == << tables, at, latest, draft, cache, failures >>

Nobody == [t \in Teams |-> 0]

(* Rounds[0] is newest; started, teams and games are those of RoundData.   *)
(* A team is listed as a row of Round or, before its round, in advance.    *)
NoCache == [newest |-> 0, started |-> {}, teams |-> << >>, games |-> << >>]

Fresh ==
    /\ at = "delay" /\ latest = Nobody /\ draft = NoCache /\ cache = NoCache
    /\ failures = 0

ScoreInit == Init /\ Fresh

(* Tournament, up to the first round that has not ended.                   *)
ReadRounds ==
    /\ at = "delay"
    /\ \E newest \in Rounds :
         /\ \A q \in 1 .. newest - 1 : q \in ended
         /\ newest \notin ended \/ newest = NumRounds
         /\ draft' = [newest |-> newest, started |-> started \cap 1 .. newest,
                      teams |-> [r \in 1 .. newest |-> {}],
                      games |-> [r \in 1 .. newest |-> {}]]
    /\ at' = "binaries"
    /\ UNCHANGED << tables, latest, cache, failures >>

ReadBinaries ==
    /\ at = "binaries"
    /\ latest' = binary
    /\ at' = "teams"
    /\ UNCHANGED << tables, draft, cache, failures >>

(* Team never changes: the next round, if it has not begun, will be played *)
(* by all teams with a binary.                                             *)
Preview(t) == [team |-> t, binary |-> latest[t], row |-> FALSE,
               starting |-> Unknown, ending |-> Unknown]

ReadTeams ==
    /\ at = "teams"
    /\ draft' = IF draft.newest \in draft.started THEN draft
                ELSE [draft EXCEPT !.teams[draft.newest] =
                        {Preview(t) : t \in {u \in Teams : latest[u] # 0}}]
    /\ at' = "roster"
    /\ UNCHANGED << tables, latest, cache, failures >>

(* What the row of a team in a round says.  Rows come with the latest      *)
(* round first, so that the row of a round under way, or the preview of    *)
(* one to come, takes its starting rating from the row of the round before.*)
EndingBefore(r, t) ==
    IF r > 1 /\ t \in Entered(r - 1) THEN elo[r - 1][t] ELSE Unknown

Line(r, t, starting, ending) ==
    [team |-> t, binary |-> roster[r][t], row |-> TRUE,
     starting |-> starting, ending |-> ending]

RowOf(r, t) == IF r \in ended THEN Line(r, t, StartingElo(r, t), elo[r][t])
                              ELSE Line(r, t, EndingBefore(r, t), Unknown)

UpdatedPreview(entry) ==
    IF entry.team \in Entered(draft.newest) /\ draft.newest \notin ended
    THEN entry
    ELSE [entry EXCEPT !.starting = EndingBefore(draft.newest, entry.team)]

(* Not part of the specification: GiveUp with a plausible mistake, for the *)
(* checks that show that a property notices.                               *)
PublishingGiveUp == at' = "publish" /\ UNCHANGED << draft, latest >>

(* An exception: the next try starts afresh.                               *)
GiveUp == at' = "delay" /\ draft' = NoCache /\ latest' = Nobody

(* roundIdToRound has no entry for a round the first query did not see.    *)
ReadRoster ==
    /\ at = "roster"
    /\ IF \A r \in started : Entered(r) # {} => r <= draft.newest
       THEN /\ draft' = [draft EXCEPT !.teams = [r \in 1 .. draft.newest |->
                           {UpdatedPreview(e) : e \in draft.teams[r]}
                             \cup {RowOf(r, t) : t \in Entered(r)}]]
            /\ at' = "games"
            /\ UNCHANGED latest
       ELSE GiveUp
    /\ UNCHANGED << tables, cache, failures >>

ReadGames ==
    /\ at = "games"
    /\ IF \A g \in DOMAIN game : game[g].round <= draft.newest
       THEN /\ draft' = [draft EXCEPT !.games = [r \in 1 .. draft.newest |->
                           {[id |-> g, done |-> game[g].done] :
                              g \in {g \in DOMAIN game : game[g].round = r}}]]
            /\ at' = "publish"
            /\ UNCHANGED latest
       ELSE GiveUp
    /\ UNCHANGED << tables, cache, failures >>

(* Under the lock; then CacheUpdated tells the pages.                      *)
Publish ==
    /\ at = "publish"
    /\ cache' = draft
    /\ at' = "delay" /\ draft' = NoCache /\ latest' = Nobody
    /\ UNCHANGED << tables, failures >>

DatabaseFails ==
    /\ at \in {"binaries", "teams", "roster", "games"}
    /\ failures < MaxFailures /\ failures' = failures + 1
    /\ GiveUp
    /\ UNCHANGED << tables, cache >>

Refresh == ReadRounds \/ ReadBinaries \/ ReadTeams \/ ReadRoster \/ ReadGames
             \/ Publish

Engine ==
    /\ Next
    /\ \A r \in Rounds :
          Cardinality({g \in DOMAIN game' : game'[g].round = r}) <= MaxGames
    /\ UNCHANGED << at, latest, draft, cache, failures >>

ScoreNext == Engine \/ Refresh \/ DatabaseFails

ScoreSpec == ScoreInit /\ [][ScoreNext]_vars

(* BeginRefresh is a loop that survives every exception.                   *)
Fairness == WF_vars(Refresh)

-----------------------------------------------------------------------------
(* Properties                                                              *)

(* The line a round that ended has for a team that took part in it.        *)
Result(r, t) == Line(r, t, StartingElo(r, t), elo[r][t])
Running(r, t) == Line(r, t, EndingBefore(r, t), Unknown)

Listed(c, r, isRow) == {e \in c.teams[r] : e.row = isRow}

Validated(e) == e.team \in Teams /\ e.binary \in 1 .. binary[e.team]

GamesIn(r) == {[id |-> g, done |-> game[g].done] :
                 g \in {g \in DOMAIN game : game[g].round = r}}

(* The rounds a cache shows: all up to the newest one have ended, and of   *)
(* those it shows as started all had.                                      *)
RoundsAreTrue(c) ==
    /\ c.newest \in Rounds \cup {0}
    /\ 1 .. c.newest - 1 \subseteq ended \cap c.started
    /\ c.started \subseteq (1 .. c.newest) \cap started

(* Rounds before the newest are shown with their final results; the newest *)
(* one, if shown as started, with exactly its teams, all of them rated or  *)
(* none, the running ones with the rating they brought along; and only if  *)
(* it began while Refresh was reading does a round to come list a team a   *)
(* second time.                                                            *)
RowsAreTrue(c) ==
    LET n == c.newest
        running == {Running(n, t) : t \in Entered(n)}
        final == IF n \in ended THEN {Result(n, t) : t \in Entered(n)} ELSE {}
    IN  /\ \A r \in 1 .. n - 1 : c.teams[r] = {Result(r, t) : t \in Entered(r)}
        /\ n \in c.started =>
             /\ Listed(c, n, FALSE) = {}
             /\ \/ Listed(c, n, TRUE) = running
                \/ n \in ended /\ Listed(c, n, TRUE) = final
        /\ n \in (1 .. n) \ c.started =>
             /\ \A e \in Listed(c, n, FALSE) : Validated(e)
             /\ Listed(c, n, TRUE) \subseteq running \cup final

(* Rounds before the newest are shown with all their games; what is shown  *)
(* of the newest one was so, and a round to come has no games yet.         *)
GamesAreTrue(c) ==
    /\ \A r \in 1 .. c.newest - 1 : c.games[r] = GamesIn(r)
    /\ \A r \in 1 .. c.newest : \A e \in c.games[r] :
         /\ e.id \in DOMAIN game /\ game[e.id].round = r
         /\ e.done => game[e.id].done

(* Five queries at five moments make one consistent picture                *)
(* (ScoreboardCache.cs:35-168).                                            *)
PublishedIsTrue == RoundsAreTrue(cache) /\ RowsAreTrue(cache) /\ GamesAreTrue(cache)

(* Cache d shows all final ratings, and all games and results, that cache  *)
(* c shows.                                                                *)
RowsKept(c, d) ==
    \A r \in 1 .. c.newest : \A e \in Listed(c, r, TRUE) :
        e.ending # Unknown => e \in d.teams[r]

GamesKept(c, d) ==
    \A r \in 1 .. c.newest : \A e \in c.games[r] :
        \E e2 \in d.games[r] : e2.id = e.id /\ (e.done => e2.done)

RoundsKept(c, d) == c.newest <= d.newest /\ c.started \subseteq d.started

(* The pages never go back: no refresh, however it was delayed or failed   *)
(* before, shows fewer rounds, loses a game or its result, or takes a      *)
(* final rating away (ScoreboardCache.cs:160-162).                         *)
CacheMovesOn ==
    [][/\ RoundsKept(cache, cache')
       /\ RowsKept(cache, cache') /\ GamesKept(cache, cache')]_vars

(* What is known of the cache being built after each of the queries.       *)
PreviewType == [team : Teams, binary : Nat \ {0}, row : {FALSE},
                starting : {Unknown}, ending : {Unknown}]

IsCache(c) == c = [newest |-> c.newest, started |-> c.started,
                   teams |-> c.teams, games |-> c.games]

DraftInStep ==
    LET n == draft.newest
    IN  /\ at \in {"delay", "binaries", "teams", "roster", "games", "publish"}
        /\ IsCache(draft)
        /\ at # "delay" => n # 0 /\ RoundsAreTrue(draft) /\ RoundsKept(cache, draft)
        /\ latest \in [Teams -> Nat]
        /\ \A t \in Teams : latest[t] <= binary[t]
        /\ at \in {"binaries", "teams"} => draft.teams = [r \in 1 .. n |-> {}]
        /\ at = "roster" => /\ \A r \in 1 .. n - 1 : draft.teams[r] = {}
                            /\ n \in draft.started => draft.teams[n] = {}
                            /\ draft.teams[n] \subseteq PreviewType
                            /\ \A e \in draft.teams[n] : Validated(e)
        /\ at \in {"games", "publish"} => RowsAreTrue(draft) /\ RowsKept(cache, draft)
        /\ at = "publish" => GamesAreTrue(draft) /\ GamesKept(cache, draft)

IInv == TablesInStep /\ PublishedIsTrue /\ DraftInStep

(* What the scoreboard shows is true, it never goes back, and what is not  *)
(* shown yet stays in step with the tables (ScoreboardCache.cs:35-168).    *)
ScoreboardIsTrue == [](IInv /\ PublishedIsTrue) /\ CacheMovesOn

(* Every round that ended is shown with its results in the end, although a *)
(* refresh that overlaps the start of a round is thrown away               *)
(* (ScoreboardCache.cs:15-25, 100, 130).                                 *)
ScoreboardCatchesUp ==
    \A r \in Rounds : r \in ended ~>
        (/\ cache.newest >= r
         /\ \A t \in Entered(r) : Result(r, t) \in cache.teams[r])
=============================================================================
