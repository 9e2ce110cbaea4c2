------------------------------- MODULE Galaxy -------------------------------
(***************************************************************************)
(* The rules of "Battle of the Galaxies": GameState of simulator/Game.cs.  *)
(*                                                                         *)
(* Two sides of PerSide commanders each fight over NumStars stars.  A turn *)
(* is one call of AdvanceTurn: the commanders' flights are launched (Fly), *)
(* production happens and every flight comes one turn closer (AdvanceTurn),*)
(* then the stars that flights arrive at are resolved in index order.  One *)
(* call of ResolveArrivingFlights is a Reinforce or an Attack for each of  *)
(* its flights, which is one pass of its three loops (their bodies         *)
(* commute), followed by AttackFails, Takeover or NoHeir.  Nothing runs    *)
(* between these steps in the program: splitting them states the           *)
(* invariants at every point inside a turn as well.                        *)
(*                                                                         *)
(* An order that the code skips changes nothing and is not a step.  The    *)
(* orders of different commanders concern different stars, so the order in *)
(* which AdvanceTurn goes through the commanders makes no difference.      *)
(*                                                                         *)
(* Definitions named ...Mutant are not part of the specification: each is  *)
(* the definition below it with a plausible mistake, for the checks that   *)
(* show that a property notices it.                                        *)
(***************************************************************************)
EXTENDS Integers, FiniteSets, Functions

CONSTANTS
    PerSide,             \* NUM_COMMANDERS_PER_PLAYER, 10 in the program
    NumStars,            \* NUM_STARS, 90 in the program
    TurnsPerProduction,  \* TURNS_PER_PRODUCTION, 5 in the program
    MaxOutgoing,         \* MAX_OUTGOING_FLIGHTS_IN_FLIGHT, 3 in the program
    MaxTurns,            \* turns GameRunner plays, 1000 in the program
    Distance,            \* CalculateDistanceCeiling of each pair of stars
    Richness,            \* ships a star produces
    Placements,          \* the home stars the constructor may pick
    OrderSizes           \* bound: the ship counts the commanders ask for

Stars == 0 .. NumStars - 1
Commanders == 0 .. 2 * PerSide - 1
None == -1
Side == [c \in Commanders |-> IF c < PerSide THEN 0 ELSE 1]

START_SHIPS == 10
FLIGHT_RANGE == 60
TRAVEL_SPEED == 10

ASSUME SizeAssumption ==
    /\ PerSide \in Nat \ {0}
    /\ NumStars \in Nat \ {0}
    /\ TurnsPerProduction \in Nat \ {0}
    /\ MaxOutgoing \in Nat
    /\ MaxTurns \in Nat
    /\ OrderSizes \subseteq Nat

ASSUME MapAssumption ==
    /\ Distance \in [Stars \X Stars -> Nat \ {0}]
    /\ Richness \in [Stars -> Nat]
    /\ Placements \subseteq [Commanders -> Stars]
    /\ \A home \in Placements :
         \A c, d \in Commanders : home[c] = home[d] => c = d

-----------------------------------------------------------------------------

VARIABLES
    owner,      \* Star.Owner, None for a star nobody holds
    ships,      \* Star.ShipCount
    timer,      \* Star.TurnsToNextProduction
    pending,    \* Star.PendingOutgoingFlights
    links,      \* links: pairs of stars, both directions are kept
    flights,    \* flights still under way
    arriving,   \* arrivingFlights: arrived this turn and not yet landed
    issued,     \* alreadyIssuedFlights of the current turn
    at,         \* the star being resolved, None while orders are taken
    lead,       \* enemyShipsTotal at that star before its sign is dropped
    fleet,      \* enemyShipsByCommander at that star, 0 for an absent key
    turn,       \* calls of AdvanceTurn so far
    crashed     \* an exception left AdvanceTurn: the game has no result

vars == << owner, ships, timer, pending, links, flights, arriving, issued,
           at, lead, fleet, turn, crashed >>

Flight == [from : Stars, to : Stars, owner : Commanders,
           ships : Nat \ {0}, turns : Nat]

TravelTurns(s, t) ==
    (Distance[<<s, t>>] + TRAVEL_SPEED - 1) \div TRAVEL_SPEED

NoFleet == [c \in Commanders |-> 0]

Init ==
    \E home \in Placements :
      /\ owner = [s \in Stars |->
                    IF \E c \in Commanders : home[c] = s
                    THEN CHOOSE c \in Commanders : home[c] = s
                    ELSE None]
      /\ ships = [s \in Stars |-> IF owner[s] = None THEN 0 ELSE START_SHIPS]
      /\ timer = [s \in Stars |->
                    IF owner[s] = None THEN 0 ELSE TurnsPerProduction]
      /\ pending = [s \in Stars |-> 0]
      /\ links = {}
      /\ flights = {}
      /\ arriving = {}
      /\ issued = {}
      /\ at = None
      /\ lead = 0
      /\ fleet = NoFleet
      /\ turn = 0
      /\ crashed = FALSE

-----------------------------------------------------------------------------
(* Launching flights                                                       *)

TakingOrders == at = None /\ ~crashed /\ turn < MaxTurns

AddFlight(f) ==
    /\ pending' = [pending EXCEPT ![f.from] = @ + 1]
    /\ ships' = [ships EXCEPT ![f.from] = @ - f.ships]
    /\ flights' = flights \cup {f}

UncheckedShipsMutant(c, s, t, n) ==
    /\ s # t /\ owner[s] = c /\ 0 < n
    /\ Distance[<<s, t>>] <= FLIGHT_RANGE
    /\ pending[s] < MaxOutgoing
    /\ <<s, t>> \notin issued

RepeatedFlyMutant(c, s, t, n) ==
    /\ s # t /\ owner[s] = c /\ 0 < n /\ n <= ships[s]
    /\ Distance[<<s, t>>] <= FLIGHT_RANGE
    /\ pending[s] < MaxOutgoing

ValidFly(c, s, t, n) ==
    /\ s # t
    /\ owner[s] = c
    /\ 0 < n /\ n <= ships[s]
    /\ Distance[<<s, t>>] <= FLIGHT_RANGE
    /\ pending[s] < MaxOutgoing
    /\ <<s, t>> \notin issued

(* Commander c sends n ships from s to t.                                  *)
Fly(c, s, t, n) ==
    /\ TakingOrders
    /\ ValidFly(c, s, t, n)
    /\ issued' = issued \cup {<<s, t>>}
    /\ AddFlight([from |-> s, to |-> t, owner |-> c, ships |-> n,
                  turns |-> TravelTurns(s, t)])
    /\ UNCHANGED << owner, timer, links, arriving, at, lead, fleet, turn,
                    crashed >>

-----------------------------------------------------------------------------
(* Production, and the flights one turn closer                             *)

Closer(f) == [f EXCEPT !.turns = @ - 1]

ArrivedMutant(f) == f.turns < 0

Arrived(f) == f.turns <= 0

(* The star that is resolved next when the flights of S have yet to land.  *)
NextStops(S) ==
    IF S = {} THEN {None}
    ELSE {s \in Stars : /\ \E f \in S : f.to = s
                        /\ \A f \in S : s <= f.to}

Producing(s) == owner[s] # None /\ timer[s] = 1

AdvanceTurn ==
    /\ TakingOrders
    /\ timer' = [s \in Stars |-> IF owner[s] = None THEN timer[s]
                                 ELSE IF Producing(s) THEN TurnsPerProduction
                                 ELSE timer[s] - 1]
    /\ ships' = [s \in Stars |->
                   IF Producing(s) THEN ships[s] + Richness[s] ELSE ships[s]]
    /\ flights' = {f \in {Closer(g) : g \in flights} : ~Arrived(f)}
    /\ arriving' = {f \in {Closer(g) : g \in flights} : Arrived(f)}
    /\ at' \in NextStops(arriving')
    /\ issued' = {}
    /\ turn' = turn + 1
    /\ UNCHANGED << owner, pending, links, lead, fleet, crashed >>

-----------------------------------------------------------------------------
(* Resolving the arrivals at one star                                      *)

LandingMutant(f) ==
    /\ ~crashed /\ f \in arriving /\ f.to = at
    /\ arriving' = arriving \ {f}
    /\ UNCHANGED pending

Landing(f) ==
    /\ ~crashed
    /\ f \in arriving
    /\ f.to = at
    /\ arriving' = arriving \ {f}
    /\ pending' = [pending EXCEPT ![f.from] = @ - 1]

FriendlyMutant(f) == f.owner = owner[at]

Friendly(f) == owner[at] # None /\ Side[f.owner] = Side[owner[at]]

AddLink(s, t) == links' = links \cup {<<s, t>>, <<t, s>>}

(* The first ships that reach the star from an ally who still holds the    *)
(* star they left.                                                         *)
FromAllyMutant(f) == owner[f.from] # owner[at]

FromAlly(f) == owner[f.from] # owner[at] /\ owner[f.from] = f.owner

ReinforceMutant(f) ==
    /\ Landing(f)
    /\ Friendly(f)
    /\ ships' = [ships EXCEPT ![at] = f.ships]
    /\ IF FromAlly(f) THEN AddLink(f.from, at) ELSE UNCHANGED links
    /\ UNCHANGED << owner, timer, flights, issued, at, lead, fleet, turn,
                    crashed >>

Reinforce(f) ==
    /\ Landing(f)
    /\ Friendly(f)
    /\ ships' = [ships EXCEPT ![at] = @ + f.ships]
    /\ IF FromAlly(f) THEN AddLink(f.from, at) ELSE UNCHANGED links
    /\ UNCHANGED << owner, timer, flights, issued, at, lead, fleet, turn,
                    crashed >>

Attack(f) ==
    /\ Landing(f)
    /\ ~Friendly(f)
    /\ lead' = IF Side[f.owner] = 0 THEN lead + f.ships ELSE lead - f.ships
    /\ fleet' = [fleet EXCEPT ![f.owner] = @ + f.ships]
    /\ UNCHANGED << owner, ships, timer, links, flights, issued, at, turn,
                    crashed >>

AllLanded == ~crashed /\ at # None /\ \A f \in arriving : f.to # at

CapturingSideMutant == 0

CapturingSide == IF lead < 0 THEN 1 ELSE 0
EnemyShips == IF lead < 0 THEN -lead ELSE lead
Overhead == IF owner[at] = None THEN 5 ELSE 10
AttackSucceeds == EnemyShips > Overhead + ships[at]

(* The commanders the star may go to: the largest fleet of all attackers,  *)
(* if it is on the side that captures.                                     *)
Heirs == {c \in Commanders : /\ fleet[c] > 0
                             /\ Side[c] = CapturingSide
                             /\ \A d \in Commanders : fleet[d] <= fleet[c]}

NextStar ==
    /\ at' \in NextStops(arriving)
    /\ lead' = 0
    /\ fleet' = NoFleet

(* What a failed attack costs the defenders.                               *)
Loss == IF EnemyShips > Overhead THEN EnemyShips - Overhead ELSE 0

AttackFails ==
    /\ AllLanded
    /\ ~AttackSucceeds
    /\ ships' = [ships EXCEPT ![at] = @ - Loss]
    /\ NextStar
    /\ UNCHANGED << owner, timer, pending, links, flights, arriving, issued,
                    turn, crashed >>

(* links[other].Remove(s) for every other in links[s], then links[s] is    *)
(* cleared: what points at s goes only if s points back.                   *)
RemoveAllLinksMutant(s) == links' = {l \in links : l[1] # s}

RemoveAllLinks(s) ==
    links' = {l \in links : /\ l[1] # s
                            /\ ~(l[2] = s /\ <<s, l[1]>> \in links)}

Takeover(c) ==
    /\ AllLanded
    /\ AttackSucceeds
    /\ c \in Heirs
    /\ owner' = [owner EXCEPT ![at] = c]
    /\ ships' = [ships EXCEPT ![at] = EnemyShips - Overhead - @]
    /\ timer' = [timer EXCEPT ![at] = TurnsPerProduction]
    /\ RemoveAllLinks(at)
    /\ NextStar
    /\ UNCHANGED << pending, flights, arriving, issued, turn, crashed >>

(* eligibleEnemies is empty and indexing it throws.  GameRunner.Run does   *)
(* not catch it: the game is abandoned in the middle of the turn.          *)
NoHeir ==
    /\ AllLanded
    /\ AttackSucceeds
    /\ Heirs = {}
    /\ crashed' = TRUE
    /\ UNCHANGED << owner, ships, timer, pending, links, flights, arriving,
                    issued, at, lead, fleet, turn >>

-----------------------------------------------------------------------------

Next ==
    \/ \E c \in Commanders, s, t \in Stars, n \in OrderSizes : Fly(c, s, t, n)
    \/ AdvanceTurn
    \/ \E f \in arriving : Reinforce(f) \/ Attack(f)
    \/ AttackFails
    \/ \E c \in Commanders : Takeover(c)
    \/ NoHeir

Spec == Init /\ [][Next]_vars

-----------------------------------------------------------------------------
(* Properties                                                              *)

(* Every variable holds what the code can put there; no star ever has more *)
(* than MaxOutgoing flights charged to it, or a negative number of them.   *)
TypeOK ==
    /\ owner \in [Stars -> Commanders \cup {None}]
    /\ ships \in [Stars -> Nat]
    /\ timer \in [Stars -> 0 .. TurnsPerProduction]
    /\ pending \in [Stars -> 0 .. MaxOutgoing]
    /\ links \subseteq Stars \X Stars
    /\ flights \subseteq Flight /\ IsFiniteSet(flights)
    /\ arriving \subseteq Flight /\ IsFiniteSet(arriving)
    /\ issued \subseteq Stars \X Stars
    /\ at \in Stars \cup {None}
    /\ lead \in Int
    /\ fleet \in [Commanders -> Nat]
    /\ turn \in 0 .. MaxTurns
    /\ crashed \in BOOLEAN

(* links feed the shared view of the galaxy (GetCommanderConnectedCompo-   *)
(* nents indexes by the owner of both ends and trusts that "star links     *)
(* already provide both directions"): a link is kept in both directions    *)
(* and joins stars of two different commanders of one side, whatever was   *)
(* captured since it was made.                                             *)
LinksJoinAllies ==
    \A l \in links :
      /\ <<l[2], l[1]>> \in links
      /\ owner[l[1]] # None /\ owner[l[2]] # None
      /\ owner[l[1]] # owner[l[2]]
      /\ Side[owner[l[1]]] = Side[owner[l[2]]]

FlightsFrom(s) == {f \in flights \cup arriving : f.from = s}

(* PendingOutgoingFlights is a counter kept apart from the list it counts: *)
(* it always equals the number of flights from the star that have not yet  *)
(* landed, also after the star changed hands with flights under way.       *)
PendingIsExact == \A s \in Stars : pending[s] = Cardinality(FlightsFrom(s))

(* No two flights between the same two stars ever land in the same turn:   *)
(* alreadyIssuedFlights allows one per turn and all take equally long.     *)
FlightsApart ==
    \A f, g \in flights \cup arriving :
      f.from = g.from /\ f.to = g.to /\ f.turns = g.turns => f = g

(* A star nobody holds has no ships and no production timer ("This is 0    *)
(* for unowned stars", game.proto) although failed attacks subtract ships  *)
(* from it; a star somebody holds always has a running timer.              *)
NeutralStarsIdle ==
    \A s \in Stars : IF owner[s] = None THEN ships[s] = 0 /\ timer[s] = 0
                                        ELSE timer[s] > 0

(* Between turns nothing is left of the last turn's battles: every arrival *)
(* was landed and both tallies of attackers are cleared.                   *)
TurnsAreComplete ==
    at = None => arriving = {} /\ lead = 0 /\ fleet = NoFleet

(* A flight is under way for at least one and at most its full travel time *)
(* and one launched this turn is in alreadyIssuedFlights; it lands in the  *)
(* very turn its countdown ends, never later.                              *)
FlightsOnCourse ==
    /\ \A f \in flights :
         /\ f.turns \in 1 .. TravelTurns(f.from, f.to)
         /\ f.turns = TravelTurns(f.from, f.to) => <<f.from, f.to>> \in issued
    /\ \A f \in arriving : f.turns = 0

(* Both tallies of attackers only ever hold enemies of the star's owner.   *)
AttackersAreEnemies ==
    at # None /\ owner[at] # None =>
      /\ \A c \in Commanders : Side[c] = Side[owner[at]] => fleet[c] = 0
      /\ IF Side[owner[at]] = 0 THEN lead <= 0 ELSE lead >= 0

(* Those attackers by side: the ships landed by its commanders.            *)
FleetOf(side) == SumFunctionOnSet(fleet, {c \in Commanders : Side[c] = side})

(* The two tallies of one battle, a balance that decides who wins and by   *)
(* how much and the fleets that decide who gets the star, count the same   *)
(* ships, and no friend of the owner is in either (Game.cs:378-430).       *)
TalliesAgree == AttackersAreEnemies /\ lead = FleetOf(0) - FleetOf(1)

(* The inductive invariant: what the proofs of all of these rest on.       *)
IInv ==
    /\ TypeOK
    /\ LinksJoinAllies
    /\ PendingIsExact
    /\ FlightsApart
    /\ NeutralStarsIdle
    /\ TurnsAreComplete
    /\ FlightsOnCourse
    /\ AttackersAreEnemies

(* An attack that overcomes overhead and defenders hands the star over     *)
(* (Game.cs:421 "takeover happens."): there is a commander to give it to.  *)
TakeoverHappens == AllLanded /\ AttackSucceeds => Heirs # {}

(* Where takeovers do happen: the attackers of a star that is held are all *)
(* of one side, so the largest of them is on the side that captures.  Only *)
(* on a star nobody holds can the exception end the game.                  *)
OnlyNeutralStarsCrash == crashed => owner[at] = None

(* All ships of a side: on its stars, under way, arrived but not landed,   *)
(* and landed in the battle that is being decided.                         *)
Held(side) == {s \in Stars : owner[s] # None /\ Side[owner[s]] = side}
FlightsOf(side) == {f \in flights \cup arriving : Side[f.owner] = side}
Aboard == [f \in flights \cup arriving |-> f.ships]

ShipsOf(side) == SumFunctionOnSet(ships, Held(side))
                   + SumFunctionOnSet(Aboard, FlightsOf(side))
                   + FleetOf(side)

Yield(side) == SumFunctionOnSet(Richness, {s \in Held(side) : Producing(s)})

(* Ships come from production and go in battles alone: no launch, landing, *)
(* failed attack or capture ever leaves a side with more ships than it     *)
(* had, and until they meet an enemy or an overhead none are lost either   *)
(* (Game.cs:378-527).                                                      *)
ShipsAreAccountedFor ==
    [][\A side \in {0, 1} :
         /\ ShipsOf(side)' <=
              ShipsOf(side) + IF turn' = turn THEN 0 ELSE Yield(side)
         /\ (at = None \/ arriving' # arriving) =>
              ShipsOf(side)' >= ShipsOf(side)]_vars

(* Whatever the ships do, stars change hands and links come and go only as *)
(* Conquest allows: no star is ever given up or passed within a side, and  *)
(* a capture takes every link of the star with it.                         *)
Abstract == INSTANCE Conquest
ImplementsConquest == Abstract!Spec
=============================================================================
