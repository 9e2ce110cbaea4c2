---------------------------- MODULE GalaxyProofs ----------------------------
(***************************************************************************)
(* Proofs about Galaxy for any number of commanders, stars and turns, any  *)
(* map and any production period.                                          *)
(***************************************************************************)
EXTENDS Galaxy, FunctionTheorems, FiniteSetTheorems, WellFoundedInduction,
        TLAPS

(* A flight takes at least one turn.                                       *)
LEMMA TravelTurnsType ==
    \A s, t \in Stars : TravelTurns(s, t) \in Nat \ {0}
BY MapAssumption DEF TravelTurns, TRAVEL_SPEED

LEMMA SideType == Side \in [Commanders -> {0, 1}]
BY DEF Side

LEMMA NoneIsNobody == None \notin Commanders /\ None \notin Stars
BY DEF None, Commanders, Stars

LEMMA NoFleetType == NoFleet \in [Commanders -> Nat]
BY DEF NoFleet

(* The next star to resolve is a star, and there is none only when every   *)
(* arrival has landed.                                                     *)
LEMMA NextStopsType ==
    ASSUME NEW S, NEW s \in NextStops(S)
    PROVE  s \in Stars \cup {None} /\ (s = None => S = {})
BY NoneIsNobody DEF NextStops

-----------------------------------------------------------------------------
(* Initial states                                                          *)

LEMMA InitIInv == Init => IInv
<1> SUFFICES ASSUME Init PROVE IInv
  OBVIOUS
<1> USE SizeAssumption, MapAssumption, NoneIsNobody
<1>1. PICK home \in Placements :
        owner = [s \in Stars |-> IF \E c \in Commanders : home[c] = s
                                 THEN CHOOSE c \in Commanders : home[c] = s
                                 ELSE None]
  BY DEF Init
<1>2. owner \in [Stars -> Commanders \cup {None}]
  BY <1>1
<1>3. /\ ships = [s \in Stars |-> IF owner[s] = None THEN 0 ELSE START_SHIPS]
      /\ timer = [s \in Stars |-> IF owner[s] = None THEN 0
                                  ELSE TurnsPerProduction]
      /\ pending = [s \in Stars |-> 0]
      /\ links = {} /\ flights = {} /\ arriving = {} /\ issued = {}
      /\ at = None /\ lead = 0 /\ fleet = NoFleet
      /\ turn = 0 /\ crashed = FALSE
  BY DEF Init
<1>4. TypeOK
  <2>1. /\ ships \in [Stars -> Nat]
        /\ timer \in [Stars -> 0 .. TurnsPerProduction]
        /\ pending \in [Stars -> 0 .. MaxOutgoing]
    BY <1>3 DEF START_SHIPS
  <2>2. turn \in 0 .. MaxTurns /\ fleet \in [Commanders -> Nat]
    BY <1>3, NoFleetType
  <2>3. IsFiniteSet(flights) /\ IsFiniteSet(arriving)
    BY <1>3, FS_EmptySet
  <2>4. at \in Stars \cup {None} /\ lead \in Int
    BY <1>3
  <2>5. crashed \in BOOLEAN
    BY <1>3, Zenon
  <2>6. /\ links \subseteq Stars \X Stars /\ issued \subseteq Stars \X Stars
        /\ flights \subseteq Flight /\ arriving \subseteq Flight
    BY <1>3
  <2> QED BY <1>2, <2>1, <2>2, <2>3, <2>4, <2>5, <2>6 DEF TypeOK
<1>5. PendingIsExact
  <2>1. \A s \in Stars : FlightsFrom(s) = {}
    BY <1>3 DEF FlightsFrom
  <2> QED BY <2>1, <1>3, FS_EmptySet DEF PendingIsExact
<1>6. NeutralStarsIdle
  BY <1>2, <1>3 DEF NeutralStarsIdle
<1>7. /\ LinksJoinAllies /\ FlightsApart /\ TurnsAreComplete
      /\ FlightsOnCourse /\ AttackersAreEnemies
  BY <1>3 DEF LinksJoinAllies, FlightsApart, TurnsAreComplete,
              FlightsOnCourse, AttackersAreEnemies
<1> QED BY <1>4, <1>5, <1>6, <1>7 DEF IInv

-----------------------------------------------------------------------------
(* Launching                                                               *)

LEMMA FlyIInv ==
    ASSUME IInv, NEW c \in Commanders, NEW s \in Stars, NEW t \in Stars,
           NEW n \in OrderSizes, Fly(c, s, t, n)
    PROVE  IInv'
<1> DEFINE f0 == [from |-> s, to |-> t, owner |-> c, ships |-> n,
                  turns |-> TravelTurns(s, t)]
<1> USE SizeAssumption, MapAssumption, NoneIsNobody
<1>1. /\ at = None /\ ~crashed /\ turn < MaxTurns
      /\ s # t /\ owner[s] = c /\ 0 < n /\ n <= ships[s]
      /\ pending[s] < MaxOutgoing /\ <<s, t>> \notin issued
  BY DEF Fly, TakingOrders, ValidFly
<1>2. /\ issued' = issued \cup {<<s, t>>}
      /\ pending' = [pending EXCEPT ![s] = @ + 1]
      /\ ships' = [ships EXCEPT ![s] = @ - n]
      /\ flights' = flights \cup {f0}
      /\ UNCHANGED << owner, timer, links, arriving, at, lead, fleet, turn,
                      crashed >>
  BY DEF Fly, AddFlight
<1>3. arriving = {}
  BY <1>1 DEF IInv, TurnsAreComplete
<1>4. f0 \in Flight
  BY <1>1, TravelTurnsType DEF Flight
<1>5. \A g \in flights : g.from = s /\ g.to = t => g.turns # f0.turns
  BY <1>1 DEF IInv, FlightsOnCourse
<1>6. f0 \notin flights
  BY <1>5
<1>7. TypeOK'
  <2> USE DEF TypeOK
  <2>1. TypeOK
    BY DEF IInv
  <2>2. ships' \in [Stars -> Nat]
    BY <1>1, <1>2, <2>1
  <2>3. pending' \in [Stars -> 0 .. MaxOutgoing]
    BY <1>1, <1>2, <2>1
  <2>4. flights' \subseteq Flight /\ IsFiniteSet(flights')
    BY <1>2, <1>4, <2>1, FS_AddElement
  <2> QED BY <1>2, <2>1, <2>2, <2>3, <2>4
<1>8. LinksJoinAllies'
  BY <1>2 DEF IInv, LinksJoinAllies
<1>9. PendingIsExact'
  <2> SUFFICES ASSUME NEW r \in Stars
               PROVE  pending'[r] = Cardinality(FlightsFrom(r)')
    BY DEF PendingIsExact
  <2>1. /\ pending[r] = Cardinality(FlightsFrom(r))
        /\ pending \in [Stars -> Nat]
    BY DEF IInv, PendingIsExact, TypeOK
  <2>2. IsFiniteSet(FlightsFrom(r))
    <3>1. FlightsFrom(r) \subseteq flights
      BY <1>3 DEF FlightsFrom
    <3> QED BY <3>1, FS_Subset DEF IInv, TypeOK
  <2>3. CASE r = s
    <3>1. FlightsFrom(r)' = FlightsFrom(r) \cup {f0}
      BY <1>2, <2>3 DEF FlightsFrom
    <3>2. f0 \notin FlightsFrom(r)
      BY <1>3, <1>6 DEF FlightsFrom
    <3>3. Cardinality(FlightsFrom(r)') = Cardinality(FlightsFrom(r)) + 1
      <4> HIDE DEF f0
      <4> QED BY <2>2, <3>1, <3>2, FS_AddElement
    <3> QED BY <1>2, <2>1, <2>3, <3>3
  <2>4. CASE r # s
    <3>1. FlightsFrom(r)' = FlightsFrom(r)
      BY <1>2, <2>4 DEF FlightsFrom
    <3> QED BY <1>2, <2>1, <2>4, <3>1
  <2> QED BY <2>3, <2>4
<1>10. FlightsApart'
  BY <1>2, <1>3, <1>5 DEF IInv, FlightsApart
<1>11. NeutralStarsIdle'
  BY <1>1, <1>2 DEF IInv, NeutralStarsIdle, TypeOK
<1>12. TurnsAreComplete'
  BY <1>2 DEF IInv, TurnsAreComplete, NoFleet
<1>13. FlightsOnCourse'
  <2>1. f0.turns \in 1 .. TravelTurns(f0.from, f0.to)
    BY TravelTurnsType
  <2> QED BY <1>2, <1>3, <2>1 DEF IInv, FlightsOnCourse, TravelTurns
<1>14. AttackersAreEnemies'
  BY <1>1, <1>2 DEF AttackersAreEnemies
<1> QED BY <1>7, <1>8, <1>9, <1>10, <1>11, <1>12, <1>13, <1>14 DEF IInv

-----------------------------------------------------------------------------
(* Production and the flights one turn closer                              *)

(* Flights that are apart stay apart when they come closer.                *)
LEMMA CloserIsInjective ==
    ASSUME NEW f \in Flight, NEW g \in Flight, Closer(f) = Closer(g)
    PROVE  f = g
<1>1. /\ f.from = g.from /\ f.to = g.to /\ f.owner = g.owner
      /\ f.ships = g.ships /\ f.turns - 1 = g.turns - 1
  BY DEF Closer, Flight
<1>2. f.turns = g.turns
  BY <1>1 DEF Flight
<1> QED BY <1>1, <1>2 DEF Flight

(* Bringing flights closer neither merges nor loses any of them.           *)
LEMMA CloserKeepsCount ==
    ASSUME NEW S \in SUBSET Flight, IsFiniteSet(S)
    PROVE  LET T == {Closer(f) : f \in S}
           IN  IsFiniteSet(T) /\ Cardinality(T) = Cardinality(S)
<1> DEFINE T == {Closer(f) : f \in S}
           m == [f \in S |-> Closer(f)]
<1>1. m \in [S -> T]
  OBVIOUS
<1>2. ASSUME NEW f \in S, NEW g \in S, m[f] = m[g]
      PROVE  f = g
  BY <1>2, CloserIsInjective
<1>3. \A t \in T : \E f \in S : m[f] = t
  OBVIOUS
<1>4. m \in Bijection(S, T)
  BY <1>1, <1>2, <1>3, Fun_IsBij
<1>5. ExistsBijection(S, T)
  BY <1>4 DEF ExistsBijection
<1> QED BY <1>5, FS_Bijection

LEMMA AdvanceTurnIInv ==
    ASSUME IInv, AdvanceTurn
    PROVE  IInv'
<1> DEFINE moved == {Closer(g) : g \in flights}
<1> USE SizeAssumption, MapAssumption, NoneIsNobody
<1>1. /\ at = None /\ ~crashed /\ turn < MaxTurns
      /\ arriving = {} /\ lead = 0 /\ fleet = NoFleet
  BY DEF AdvanceTurn, TakingOrders, IInv, TurnsAreComplete
<1>2. /\ flights' = {f \in moved : ~(f.turns <= 0)}
      /\ arriving' = {f \in moved : f.turns <= 0}
      /\ at' \in NextStops(arriving')
      /\ issued' = {} /\ turn' = turn + 1
      /\ UNCHANGED << owner, pending, links, lead, fleet, crashed >>
  BY DEF AdvanceTurn, Arrived
<1>3. /\ timer' = [s \in Stars |-> IF owner[s] = None THEN timer[s]
                                   ELSE IF Producing(s) THEN TurnsPerProduction
                                   ELSE timer[s] - 1]
      /\ ships' = [s \in Stars |->
                    IF Producing(s) THEN ships[s] + Richness[s] ELSE ships[s]]
  BY DEF AdvanceTurn
<1>4. TypeOK /\ FlightsOnCourse /\ NeutralStarsIdle
  BY DEF IInv
<1>5. flights \subseteq Flight /\ IsFiniteSet(flights)
  BY <1>4 DEF TypeOK
<1>6. ASSUME NEW g \in flights
      PROVE  /\ Closer(g) \in Flight
             /\ Closer(g).from = g.from /\ Closer(g).to = g.to
             /\ Closer(g).turns = g.turns - 1
             /\ g.turns \in 1 .. TravelTurns(g.from, g.to)
  <2>1. g \in Flight /\ g.turns \in 1 .. TravelTurns(g.from, g.to)
    BY <1>4, <1>5 DEF FlightsOnCourse
  <2>2. g.turns \in Nat /\ g.turns >= 1
    BY <2>1, TravelTurnsType DEF Flight
  <2> QED BY <2>1, <2>2 DEF Closer, Flight
<1>7. moved \subseteq Flight /\ IsFiniteSet(moved)
  BY <1>5, <1>6, CloserKeepsCount
<1>8. flights' \cup arriving' = moved
  <2>1. \A f \in moved : f.turns \in Nat
    BY <1>7 DEF Flight
  <2> QED BY <1>2, <2>1
<1>9. TypeOK'
  <2>1. timer' \in [Stars -> 0 .. TurnsPerProduction]
    BY <1>3, <1>4 DEF TypeOK, NeutralStarsIdle
  <2>2. ships' \in [Stars -> Nat]
    BY <1>3, <1>4 DEF TypeOK
  <2>3. /\ flights' \subseteq Flight /\ IsFiniteSet(flights')
        /\ arriving' \subseteq Flight /\ IsFiniteSet(arriving')
    BY <1>2, <1>7, FS_Subset
  <2>4. at' \in Stars \cup {None}
    BY <1>2, NextStopsType
  <2>5. turn' \in 0 .. MaxTurns
    BY <1>1, <1>2, <1>4 DEF TypeOK
  <2> QED BY <1>2, <1>4, <2>1, <2>2, <2>3, <2>4, <2>5 DEF TypeOK
<1>10. LinksJoinAllies'
  BY <1>2 DEF IInv, LinksJoinAllies
<1>11. PendingIsExact'
  <2> SUFFICES ASSUME NEW s \in Stars
               PROVE  pending'[s] = Cardinality(FlightsFrom(s)')
    BY DEF PendingIsExact
  <2> DEFINE mine == {f \in flights : f.from = s}
  <2>1. FlightsFrom(s) = mine
    BY <1>1 DEF FlightsFrom
  <2>2. FlightsFrom(s)' = {Closer(f) : f \in mine}
    BY <1>6, <1>8 DEF FlightsFrom
  <2>3. mine \in SUBSET Flight /\ IsFiniteSet(mine)
    BY <1>5, FS_Subset
  <2>4. Cardinality(FlightsFrom(s)') = Cardinality(mine)
    BY <2>2, <2>3, CloserKeepsCount
  <2> QED BY <1>2, <2>1, <2>4 DEF IInv, PendingIsExact
<1>12. FlightsApart'
  <2> SUFFICES ASSUME NEW f \in moved, NEW g \in moved,
                      f.from = g.from, f.to = g.to, f.turns = g.turns
               PROVE  f = g
    BY <1>8 DEF FlightsApart
  <2>1. PICK f0 \in flights, g0 \in flights : f = Closer(f0) /\ g = Closer(g0)
    OBVIOUS
  <2>2. f0.from = g0.from /\ f0.to = g0.to /\ f0.turns - 1 = g0.turns - 1
    BY <1>6, <2>1
  <2>3. f0.turns \in Nat /\ g0.turns \in Nat
    BY <1>5 DEF Flight
  <2>4. f0.turns = g0.turns
    BY <2>2, <2>3
  <2> QED BY <2>1, <2>2, <2>4 DEF IInv, FlightsApart
<1>13. NeutralStarsIdle'
  BY <1>2, <1>3, <1>4 DEF NeutralStarsIdle, TypeOK, Producing
<1>14. TurnsAreComplete'
  BY <1>1, <1>2, NextStopsType DEF TurnsAreComplete, NoFleet
<1>15. FlightsOnCourse'
  <2>1. ASSUME NEW f \in moved
        PROVE  /\ f.turns \in 0 .. TravelTurns(f.from, f.to)
               /\ f.turns # TravelTurns(f.from, f.to)
    <3>1. PICK g \in flights : f = Closer(g)
      OBVIOUS
    <3>2. g.from \in Stars /\ g.to \in Stars
      BY <1>5 DEF Flight
    <3>3. TravelTurns(g.from, g.to) \in Nat
      BY <3>2, TravelTurnsType
    <3> QED BY <1>6, <3>1, <3>3
  <2>2. \A f \in moved : TravelTurns(f.from, f.to)
                           = TravelTurns(f.from, f.to)'
    BY DEF TravelTurns
  <2> QED BY <1>2, <2>1, <2>2 DEF FlightsOnCourse
<1>16. AttackersAreEnemies'
  BY <1>1, <1>2, <1>9, SideType DEF AttackersAreEnemies, NoFleet, TypeOK
<1> QED BY <1>9, <1>10, <1>11, <1>12, <1>13, <1>14, <1>15, <1>16 DEF IInv

-----------------------------------------------------------------------------
(* Landing                                                                 *)

(* What a landing does to the flights and their counter, whoever lands.    *)
LEMMA LandingKeeps ==
    ASSUME IInv, NEW f \in arriving, Landing(f), UNCHANGED flights
    PROVE  /\ arriving' \subseteq Flight /\ IsFiniteSet(arriving')
           /\ pending' \in [Stars -> 0 .. MaxOutgoing]
           /\ PendingIsExact'
           /\ FlightsApart'
           /\ at \in Stars /\ f \in Flight
<1>1. TypeOK /\ PendingIsExact /\ FlightsOnCourse
  BY DEF IInv
<1>2. /\ arriving' = arriving \ {f}
      /\ pending' = [pending EXCEPT ![f.from] = @ - 1]
      /\ f.to = at /\ f \in Flight /\ f.from \in Stars /\ f.to \in Stars
  BY <1>1 DEF Landing, TypeOK, Flight
<1>3. f \notin flights
  <2>1. \A g \in flights : g.turns # 0
    <3> SUFFICES ASSUME NEW g \in flights PROVE g.turns # 0
      OBVIOUS
    <3>1. g.from \in Stars /\ g.to \in Stars
      BY <1>1 DEF TypeOK, Flight
    <3>2. TravelTurns(g.from, g.to) \in Nat
      BY <3>1, TravelTurnsType
    <3>3. g.turns \in 1 .. TravelTurns(g.from, g.to)
      BY <1>1 DEF FlightsOnCourse
    <3> QED BY <3>2, <3>3
  <2> QED BY <1>1, <2>1 DEF FlightsOnCourse
<1>4. arriving' \subseteq Flight /\ IsFiniteSet(arriving')
  BY <1>1, <1>2, FS_RemoveElement DEF TypeOK
<1>5. ASSUME NEW s \in Stars
      PROVE  /\ IsFiniteSet(FlightsFrom(s))
             /\ pending[s] = Cardinality(FlightsFrom(s))
             /\ pending[s] \in 0 .. MaxOutgoing
  <2>1. IsFiniteSet(flights \cup arriving)
    BY <1>1, FS_Union DEF TypeOK
  <2>2. FlightsFrom(s) \in SUBSET (flights \cup arriving)
    BY DEF FlightsFrom
  <2> QED BY <1>1, <2>1, <2>2, FS_Subset DEF TypeOK, PendingIsExact
<1>6. /\ FlightsFrom(f.from)' = FlightsFrom(f.from) \ {f}
      /\ Cardinality(FlightsFrom(f.from)') = pending[f.from] - 1
      /\ Cardinality(FlightsFrom(f.from)') \in Nat
  <2>1. f \in FlightsFrom(f.from)
    BY DEF FlightsFrom
  <2>2. FlightsFrom(f.from)' = FlightsFrom(f.from) \ {f}
    BY <1>2, <1>3 DEF FlightsFrom
  <2>3. IsFiniteSet(FlightsFrom(f.from))
    BY <1>2, <1>5
  <2> QED BY <1>2, <1>5, <2>1, <2>2, <2>3, FS_RemoveElement, FS_CardinalityType
<1>7. PendingIsExact' /\ pending' \in [Stars -> 0 .. MaxOutgoing]
  <2> SUFFICES ASSUME NEW s \in Stars
               PROVE  /\ pending'[s] = Cardinality(FlightsFrom(s)')
                      /\ pending'[s] \in 0 .. MaxOutgoing
    BY <1>1, <1>2 DEF PendingIsExact, TypeOK
  <2>1. CASE s = f.from
    <3>1. pending'[s] = pending[s] - 1
      BY <1>1, <1>2, <2>1 DEF TypeOK
    <3>2. pending[s] \in 0 .. MaxOutgoing /\ pending[s] - 1 \in Nat
      BY <1>5, <1>6, <2>1
    <3> QED BY <1>6, <2>1, <3>1, <3>2, SizeAssumption
  <2>2. CASE s # f.from
    <3>1. FlightsFrom(s)' = FlightsFrom(s)
      BY <1>2, <2>2 DEF FlightsFrom
    <3> QED BY <1>1, <1>2, <1>5, <2>2, <3>1 DEF TypeOK
  <2> QED BY <2>1, <2>2
<1>8. FlightsApart'
  BY <1>2 DEF IInv, FlightsApart
<1> QED BY <1>2, <1>4, <1>7, <1>8

LEMMA ReinforceIInv ==
    ASSUME IInv, NEW f \in arriving, Reinforce(f)
    PROVE  IInv'
<1> USE SizeAssumption, MapAssumption, NoneIsNobody
<1>1. /\ Landing(f) /\ owner[at] # None
      /\ Side[f.owner] = Side[owner[at]]
      /\ ships' = [ships EXCEPT ![at] = @ + f.ships]
      /\ UNCHANGED << owner, timer, flights, issued, at, lead, fleet, turn,
                      crashed >>
  BY DEF Reinforce, Friendly
<1>2. TypeOK
  BY DEF IInv
<1>3. /\ arriving' \subseteq Flight /\ IsFiniteSet(arriving')
      /\ pending' \in [Stars -> 0 .. MaxOutgoing]
      /\ PendingIsExact' /\ FlightsApart'
      /\ at \in Stars /\ f \in Flight
  BY <1>1, LandingKeeps
<1>4. /\ f.from \in Stars /\ f.ships \in Nat /\ f.owner \in Commanders
      /\ owner[f.from] \in Commanders \cup {None}
  BY <1>2, <1>3 DEF Flight, TypeOK
<1>5. \/ UNCHANGED links
      \/ /\ owner[f.from] # owner[at] /\ owner[f.from] = f.owner
         /\ links' = links \cup {<<f.from, at>>, <<at, f.from>>}
  BY DEF Reinforce, AddLink, FromAlly
<1>6. TypeOK'
  <2>1. links' \subseteq Stars \X Stars
    BY <1>2, <1>3, <1>4, <1>5 DEF TypeOK
  <2> QED BY <1>1, <1>2, <1>3, <1>4, <2>1 DEF TypeOK
<1>7. LinksJoinAllies'
  <2>1. LinksJoinAllies
    BY DEF IInv
  <2>2. CASE UNCHANGED links
    BY <1>1, <2>1, <2>2 DEF LinksJoinAllies
  <2>3. CASE /\ owner[f.from] # owner[at] /\ owner[f.from] = f.owner
             /\ links' = links \cup {<<f.from, at>>, <<at, f.from>>}
    <3>1. owner' = owner
      BY <1>1
    <3>2. \A l \in links : LinksJoinAllies => <<l[2], l[1]>> \in links'
      BY <2>3 DEF LinksJoinAllies
    <3>3. ASSUME NEW l \in {<<f.from, at>>, <<at, f.from>>}
          PROVE  /\ <<l[2], l[1]>> \in links'
                 /\ owner[l[1]] # None /\ owner[l[2]] # None
                 /\ owner[l[1]] # owner[l[2]]
                 /\ Side[owner[l[1]]] = Side[owner[l[2]]]
      <4>1. CASE l = <<f.from, at>>
        BY <1>1, <1>4, <2>3, <4>1
      <4>2. CASE l = <<at, f.from>>
        BY <1>1, <1>4, <2>3, <4>2
      <4> QED BY <4>1, <4>2
    <3> QED BY <2>1, <2>3, <3>1, <3>2, <3>3 DEF LinksJoinAllies
  <2> QED BY <1>5, <2>2, <2>3
<1>8. NeutralStarsIdle'
  BY <1>1, <1>2 DEF IInv, NeutralStarsIdle, TypeOK
<1>9. TurnsAreComplete' /\ FlightsOnCourse'
  BY <1>1, <1>3 DEF Landing, IInv, TurnsAreComplete, FlightsOnCourse,
                    TravelTurns
<1>10. AttackersAreEnemies'
  BY <1>1 DEF IInv, AttackersAreEnemies
<1> QED BY <1>3, <1>6, <1>7, <1>8, <1>9, <1>10 DEF IInv

LEMMA AttackIInv ==
    ASSUME IInv, NEW f \in arriving, Attack(f)
    PROVE  IInv'
<1> USE SizeAssumption, MapAssumption, NoneIsNobody
<1>1. /\ Landing(f)
      /\ lead' = IF Side[f.owner] = 0 THEN lead + f.ships ELSE lead - f.ships
      /\ fleet' = [fleet EXCEPT ![f.owner] = @ + f.ships]
      /\ UNCHANGED << owner, ships, timer, links, flights, issued, at, turn,
                      crashed >>
  BY DEF Attack
<1>2. TypeOK
  BY DEF IInv
<1>3. /\ arriving' \subseteq Flight /\ IsFiniteSet(arriving')
      /\ pending' \in [Stars -> 0 .. MaxOutgoing]
      /\ PendingIsExact' /\ FlightsApart'
      /\ at \in Stars /\ f \in Flight
  BY <1>1, LandingKeeps
<1>4. lead' \in Int /\ fleet' \in [Commanders -> Nat]
  <2>1. f.ships \in Nat /\ f.owner \in Commanders
    BY <1>3 DEF Flight
  <2>2. lead \in Int /\ fleet \in [Commanders -> Nat]
    BY <1>2 DEF TypeOK
  <2>3. lead' \in Int
    BY <1>1, <2>1, <2>2
  <2> QED BY <1>1, <2>1, <2>2, <2>3
<1>5. TypeOK'
  BY <1>1, <1>2, <1>3, <1>4 DEF TypeOK
<1>6. LinksJoinAllies' /\ NeutralStarsIdle'
  BY <1>1 DEF IInv, LinksJoinAllies, NeutralStarsIdle
<1>7. TurnsAreComplete' /\ FlightsOnCourse'
  BY <1>1, <1>3 DEF Landing, IInv, TurnsAreComplete, FlightsOnCourse,
                    TravelTurns
<1>8. AttackersAreEnemies'
  <2> SUFFICES ASSUME owner[at] # None
               PROVE  /\ \A c \in Commanders :
                           Side[c] = Side[owner[at]] => fleet'[c] = 0
                      /\ IF Side[owner[at]] = 0 THEN lead' <= 0
                                                ELSE lead' >= 0
    BY <1>1 DEF AttackersAreEnemies
  <2>1. /\ \A c \in Commanders : Side[c] = Side[owner[at]] => fleet[c] = 0
        /\ IF Side[owner[at]] = 0 THEN lead <= 0 ELSE lead >= 0
        /\ lead \in Int /\ fleet \in [Commanders -> Nat]
    BY <1>2, <1>3 DEF IInv, AttackersAreEnemies, TypeOK
  <2>2. /\ f.ships \in Nat /\ f.owner \in Commanders
        /\ owner[at] \in Commanders
    BY <1>2, <1>3 DEF Flight, TypeOK
  <2>3. /\ Side[f.owner] # Side[owner[at]]
        /\ Side[f.owner] \in {0, 1} /\ Side[owner[at]] \in {0, 1}
    BY <2>2, SideType DEF Attack, Friendly
  <2> QED BY <1>1, <2>1, <2>2, <2>3
<1> QED BY <1>3, <1>5, <1>6, <1>7, <1>8 DEF IInv

-----------------------------------------------------------------------------
(* The verdict on a battle                                                 *)

(* What both verdicts leave alone, and how they go on to the next star.    *)
LEMMA VerdictKeeps ==
    ASSUME IInv, NextStar, UNCHANGED << pending, flights, arriving, issued,
                                        turn, crashed >>
    PROVE  /\ at' \in Stars \cup {None} /\ lead' \in Int
           /\ fleet' \in [Commanders -> Nat]
           /\ PendingIsExact' /\ FlightsApart'
           /\ TurnsAreComplete' /\ FlightsOnCourse'
           /\ AttackersAreEnemies'
<1>1. at' \in Stars \cup {None} /\ (at' = None => arriving = {})
  BY NextStopsType DEF NextStar
<1>2. lead' = 0 /\ fleet' = NoFleet
  BY DEF NextStar
<1>3. PendingIsExact' /\ FlightsApart' /\ FlightsOnCourse'
  BY DEF IInv, PendingIsExact, FlightsFrom, FlightsApart, FlightsOnCourse,
         TravelTurns
<1>4. TurnsAreComplete'
  BY <1>1, <1>2 DEF TurnsAreComplete, NoFleet
<1>5. AttackersAreEnemies'
  BY <1>2 DEF AttackersAreEnemies, NoFleet
<1> QED BY <1>1, <1>2, <1>3, <1>4, <1>5, NoFleetType

LEMMA EnemyShipsType == lead \in Int => EnemyShips \in Nat
BY DEF EnemyShips

LEMMA AttackFailsIInv ==
    ASSUME IInv, AttackFails
    PROVE  IInv'
<1> USE SizeAssumption, MapAssumption, NoneIsNobody
<1>1. /\ at # None /\ NextStar
      /\ EnemyShips <= Overhead + ships[at]
      /\ ships' = [ships EXCEPT ![at] = @ - Loss]
      /\ UNCHANGED << owner, timer, pending, links, flights, arriving, issued,
                      turn, crashed >>
  <2>1. EnemyShips \in Int /\ Overhead + ships[at] \in Int
    BY EnemyShipsType DEF IInv, TypeOK, AttackFails, AllLanded, Overhead
  <2> QED BY <2>1 DEF AttackFails, AllLanded, AttackSucceeds
<1>2. TypeOK /\ NeutralStarsIdle /\ at \in Stars
  BY <1>1 DEF IInv, TypeOK
<1>3. /\ EnemyShips \in Nat /\ Overhead \in Nat
      /\ Loss \in Nat /\ Loss <= ships[at]
  BY <1>1, <1>2, EnemyShipsType DEF TypeOK, Overhead, Loss
<1>4. /\ at' \in Stars \cup {None} /\ lead' \in Int
      /\ fleet' \in [Commanders -> Nat]
      /\ PendingIsExact' /\ FlightsApart'
      /\ TurnsAreComplete' /\ FlightsOnCourse'
      /\ AttackersAreEnemies'
  BY <1>1, VerdictKeeps
<1>5. ships' \in [Stars -> Nat]
  BY <1>1, <1>2, <1>3 DEF TypeOK
<1>6. TypeOK'
  BY <1>1, <1>2, <1>4, <1>5 DEF TypeOK
<1>7. NeutralStarsIdle'
  <2>1. \A s \in Stars : ships[s] = 0 => ships'[s] = 0
    BY <1>1, <1>2, <1>3 DEF TypeOK
  <2> QED BY <1>1, <1>2, <2>1 DEF NeutralStarsIdle
<1>8. LinksJoinAllies'
  BY <1>1 DEF IInv, LinksJoinAllies
<1> QED BY <1>4, <1>6, <1>7, <1>8 DEF IInv

(* RemoveAllLinks looks for the links of the star in its own set only:     *)
(* because links are kept in both directions that finds all of them.       *)
LEMMA RemoveAllLinksComplete ==
    ASSUME TypeOK, LinksJoinAllies, NEW s \in Stars, RemoveAllLinks(s)
    PROVE  links' = {l \in links : l[1] # s /\ l[2] # s}
<1>1. ASSUME NEW l \in links, l[2] = s
      PROVE  <<s, l[1]>> \in links
  BY <1>1 DEF LinksJoinAllies
<1> QED BY <1>1 DEF RemoveAllLinks

LEMMA TakeoverIInv ==
    ASSUME IInv, NEW c \in Commanders, Takeover(c)
    PROVE  IInv'
<1> USE SizeAssumption, MapAssumption, NoneIsNobody
<1>1. /\ at # None /\ NextStar /\ AttackSucceeds
      /\ owner' = [owner EXCEPT ![at] = c]
      /\ ships' = [ships EXCEPT ![at] = EnemyShips - Overhead - @]
      /\ timer' = [timer EXCEPT ![at] = TurnsPerProduction]
      /\ RemoveAllLinks(at)
      /\ UNCHANGED << pending, flights, arriving, issued, turn, crashed >>
  BY DEF Takeover, AllLanded
<1>2. TypeOK /\ NeutralStarsIdle /\ LinksJoinAllies /\ at \in Stars
  BY <1>1 DEF IInv, TypeOK
<1>3. links' = {l \in links : l[1] # at /\ l[2] # at}
  BY <1>1, <1>2, RemoveAllLinksComplete
<1>4. EnemyShips - Overhead - ships[at] \in Nat
  <2>1. EnemyShips \in Nat /\ Overhead \in Nat /\ ships[at] \in Nat
    BY <1>2, EnemyShipsType DEF TypeOK, Overhead
  <2> QED BY <1>1, <2>1 DEF AttackSucceeds
<1>5. /\ at' \in Stars \cup {None} /\ lead' \in Int
      /\ fleet' \in [Commanders -> Nat]
      /\ PendingIsExact' /\ FlightsApart'
      /\ TurnsAreComplete' /\ FlightsOnCourse'
      /\ AttackersAreEnemies'
  BY <1>1, VerdictKeeps
<1>6. TypeOK'
  <2>1. ships' \in [Stars -> Nat]
    BY <1>1, <1>2, <1>4 DEF TypeOK
  <2>2. /\ owner' \in [Stars -> Commanders \cup {None}]
        /\ timer' \in [Stars -> 0 .. TurnsPerProduction]
        /\ links' \subseteq Stars \X Stars
    BY <1>1, <1>2, <1>3 DEF TypeOK
  <2> QED BY <1>1, <1>2, <1>5, <2>1, <2>2 DEF TypeOK
<1>7. LinksJoinAllies'
  <2> SUFFICES ASSUME NEW l \in links'
               PROVE  /\ <<l[2], l[1]>> \in links'
                      /\ owner'[l[1]] # None /\ owner'[l[2]] # None
                      /\ owner'[l[1]] # owner'[l[2]]
                      /\ Side[owner'[l[1]]] = Side[owner'[l[2]]]
    BY DEF LinksJoinAllies
  <2>1. l \in links /\ l[1] # at /\ l[2] # at
    BY <1>3
  <2>2. l[1] \in Stars /\ l[2] \in Stars
    BY <1>2, <2>1 DEF TypeOK
  <2>3. owner'[l[1]] = owner[l[1]] /\ owner'[l[2]] = owner[l[2]]
    BY <1>1, <1>2, <2>1, <2>2 DEF TypeOK
  <2>4. <<l[2], l[1]>> \in links /\ <<l[2], l[1]>>[1] = l[2]
        /\ <<l[2], l[1]>>[2] = l[1]
    BY <1>2, <2>1 DEF LinksJoinAllies
  <2> QED BY <1>2, <1>3, <2>1, <2>3, <2>4 DEF LinksJoinAllies
<1>8. NeutralStarsIdle'
  BY <1>1, <1>2 DEF NeutralStarsIdle, TypeOK
<1> QED BY <1>5, <1>6, <1>7, <1>8 DEF IInv

LEMMA NoHeirIInv ==
    ASSUME IInv, NoHeir
    PROVE  IInv'
<1>1. UNCHANGED << owner, ships, timer, pending, links, flights, arriving,
                   issued, at, lead, fleet, turn >>
  BY DEF NoHeir
<1>2. crashed' \in BOOLEAN
  BY Zenon DEF NoHeir
<1>3. TypeOK'
  BY <1>1, <1>2 DEF IInv, TypeOK
<1> QED BY <1>1, <1>3 DEF IInv, LinksJoinAllies, PendingIsExact, FlightsFrom,
            FlightsApart, NeutralStarsIdle, TurnsAreComplete, NoFleet,
            FlightsOnCourse, TravelTurns, AttackersAreEnemies

-----------------------------------------------------------------------------
(* The invariant                                                           *)

LEMMA NextIInv == IInv /\ [Next]_vars => IInv'
<1> SUFFICES ASSUME IInv, [Next]_vars PROVE IInv'
  OBVIOUS
<1>1. ASSUME NEW c \in Commanders, NEW s \in Stars, NEW t \in Stars,
             NEW n \in OrderSizes, Fly(c, s, t, n)
      PROVE  IInv'
  BY <1>1, FlyIInv
<1>2. CASE AdvanceTurn
  BY <1>2, AdvanceTurnIInv
<1>3. ASSUME NEW f \in arriving, Reinforce(f) PROVE IInv'
  BY <1>3, ReinforceIInv
<1>4. ASSUME NEW f \in arriving, Attack(f) PROVE IInv'
  BY <1>4, AttackIInv
<1>5. CASE AttackFails
  BY <1>5, AttackFailsIInv
<1>6. ASSUME NEW c \in Commanders, Takeover(c) PROVE IInv'
  BY <1>6, TakeoverIInv
<1>7. CASE NoHeir
  BY <1>7, NoHeirIInv
<1>8. CASE UNCHANGED vars
  BY <1>8 DEF vars, IInv, TypeOK, LinksJoinAllies, PendingIsExact,
              FlightsFrom, FlightsApart, NeutralStarsIdle, TurnsAreComplete,
              NoFleet, FlightsOnCourse, TravelTurns, AttackersAreEnemies
<1> QED BY <1>1, <1>2, <1>3, <1>4, <1>5, <1>6, <1>7, <1>8 DEF Next

(* The inductive invariant holds throughout every game.                    *)
THEOREM Invariance == Spec => []IInv
<1> QED BY InitIInv, NextIInv, PTL DEF Spec

(* Every variable keeps its type: in particular no star's ships, timer or  *)
(* counter of flights ever becomes negative.                               *)
THEOREM TypeCorrect == Spec => []TypeOK
<1>1. IInv => TypeOK
  BY DEF IInv
<1> QED BY <1>1, Invariance, PTL

(* Links always join, in both directions, two different commanders of one  *)
(* side: intelligence is never shared with the enemy.                      *)
THEOREM LinksCorrect == Spec => []LinksJoinAllies
<1>1. IInv => LinksJoinAllies
  BY DEF IInv
<1> QED BY <1>1, Invariance, PTL

(* The counter of outgoing flights always agrees with the flights, so that *)
(* the limit on it is a limit on them.                                     *)
THEOREM PendingCorrect == Spec => []PendingIsExact
<1>1. IInv => PendingIsExact
  BY DEF IInv
<1> QED BY <1>1, Invariance, PTL

(* Unowned stars stay without ships and without a timer.                   *)
THEOREM NeutralStarsCorrect == Spec => []NeutralStarsIdle
<1>1. IInv => NeutralStarsIdle
  BY DEF IInv
<1> QED BY <1>1, Invariance, PTL

(* No two flights between the same two stars ever land together.           *)
THEOREM FlightsApartCorrect == Spec => []FlightsApart
<1>1. IInv => FlightsApart
  BY DEF IInv
<1> QED BY <1>1, Invariance, PTL

(* Every flight lands exactly when its travel time is over, and between    *)
(* turns no battle is left over.                                           *)
THEOREM FlightsCorrect == Spec => [](FlightsOnCourse /\ TurnsAreComplete)
<1>1. IInv => FlightsOnCourse /\ TurnsAreComplete
  BY DEF IInv
<1> QED BY <1>1, Invariance, PTL

-----------------------------------------------------------------------------
(* Where a takeover has an heir                                            *)

(* The tally leans only to a side that has ships in the battle.            *)
LeadHasFleet ==
    /\ lead > 0 => \E c \in Commanders : fleet[c] > 0 /\ Side[c] = 0
    /\ lead < 0 => \E c \in Commanders : fleet[c] > 0 /\ Side[c] = 1

BattleInv == IInv /\ LeadHasFleet /\ OnlyNeutralStarsCrash

(* A function on a finite set has a largest value: of the sets of what     *)
(* lies above a member one is smallest, and it is empty.                   *)
LEMMA LargestValue ==
    ASSUME NEW S, IsFiniteSet(S), S # {}, NEW f \in [S -> Nat]
    PROVE  \E m \in S : \A d \in S : f[d] <= f[m]
<1> DEFINE Above(c) == {d \in S : f[d] > f[c]}
           T == {Above(c) : c \in S}
<1>1. IsWellFoundedOn(StrictSubsetOrdering(S), FiniteSubsetsOf(S))
  BY FS_StrictSubsetOrderingWellFounded
<1>2. \A c \in S : Above(c) \subseteq S /\ IsFiniteSet(Above(c))
  BY FS_Subset
<1>3. T \subseteq FiniteSubsetsOf(S) /\ T # {}
  <2>1. ASSUME NEW c \in S PROVE Above(c) \in FiniteSubsetsOf(S)
    <3> HIDE DEF Above
    <3> QED BY <1>2 DEF FiniteSubsetsOf
  <2> HIDE DEF Above
  <2> QED BY <2>1
<1>4. PICK X \in T : \A Y \in T : ~(<<Y, X>> \in StrictSubsetOrdering(S))
  <2> HIDE DEF T
  <2> QED BY <1>1, <1>3, WFMin
<1>5. PICK m \in S : X = Above(m)
  BY <1>4
<1>6. ASSUME NEW d \in S PROVE f[d] <= f[m]
  <2>1. f[d] \in Nat /\ f[m] \in Nat
    BY <1>5
  <2>2. CASE f[d] > f[m]
    <3>1. Above(d) \subseteq Above(m)
      BY <1>5, <2>1, <2>2
    <3>2. d \in Above(m) /\ d \notin Above(d)
      BY <2>1, <2>2
    <3>3. Above(d) \in T /\ <<Above(d), X>> \in StrictSubsetOrdering(S)
      BY <1>5, <3>1, <3>2 DEF StrictSubsetOrdering
    <3> QED BY <1>4, <3>3
  <2> QED BY <2>1, <2>2
<1> QED BY <1>5, <1>6

(* On a star somebody holds the attackers are all of one side: the largest *)
(* fleet is on the side that wins the tally.                               *)
LEMMA HeldStarHasHeir ==
    ASSUME IInv, LeadHasFleet, AllLanded, AttackSucceeds, owner[at] # None
    PROVE  Heirs # {}
<1>1. /\ at \in Stars /\ owner[at] \in Commanders /\ lead \in Int
      /\ fleet \in [Commanders -> Nat] /\ ships[at] \in Nat
  BY DEF IInv, TypeOK, AllLanded
<1>2. EnemyShips > 0
  BY <1>1, EnemyShipsType DEF AttackSucceeds, Overhead
<1>3. PICK c \in Commanders : fleet[c] > 0 /\ Side[c] = CapturingSide
  BY <1>1, <1>2 DEF EnemyShips, CapturingSide, LeadHasFleet
<1>4. PICK m \in Commanders : \A d \in Commanders : fleet[d] <= fleet[m]
  <2>1. IsFiniteSet(Commanders)
    BY SizeAssumption, FS_Interval DEF Commanders
  <2> QED BY <1>1, <1>3, <2>1, LargestValue
<1>5. fleet[m] > 0 /\ fleet[m] # 0 /\ fleet[c] # 0
  BY <1>1, <1>3, <1>4
<1>6. Side[m] # Side[owner[at]] /\ Side[c] # Side[owner[at]]
  BY <1>1, <1>5 DEF IInv, AttackersAreEnemies, AllLanded
<1>7. Side[m] = CapturingSide
  BY <1>1, <1>3, <1>6, SideType
<1> QED BY <1>4, <1>5, <1>7 DEF Heirs

LEMMA NextBattleInv == BattleInv /\ [Next]_vars => BattleInv'
<1> SUFFICES ASSUME BattleInv, [Next]_vars PROVE BattleInv'
  OBVIOUS
<1> USE DEF BattleInv
<1>1. IInv' /\ TypeOK
  BY NextIInv DEF IInv
<1>2. CASE UNCHANGED << owner, at, lead, fleet, crashed >>
  BY <1>1, <1>2 DEF LeadHasFleet, OnlyNeutralStarsCrash
<1>3. ASSUME NEW c \in Commanders, NEW s \in Stars, NEW t \in Stars,
             NEW n \in OrderSizes, Fly(c, s, t, n)
      PROVE  UNCHANGED << owner, at, lead, fleet, crashed >>
  BY <1>3 DEF Fly
<1>4. CASE AdvanceTurn
  BY <1>1, <1>4 DEF AdvanceTurn, TakingOrders, LeadHasFleet,
     OnlyNeutralStarsCrash
<1>5. ASSUME NEW f \in arriving, Reinforce(f)
      PROVE  UNCHANGED << owner, at, lead, fleet, crashed >>
  <2>1. crashed' = crashed
    BY <1>5, Zenon DEF Reinforce
  <2> QED BY <1>5, <2>1 DEF Reinforce
<1>6. ASSUME NEW f \in arriving, Attack(f) PROVE BattleInv'
  <2>1. /\ f.owner \in Commanders /\ f.ships \in Nat \ {0}
        /\ lead \in Int /\ fleet \in [Commanders -> Nat]
    BY <1>1 DEF TypeOK, Flight
  <2>2. /\ lead' = IF Side[f.owner] = 0 THEN lead + f.ships
                                         ELSE lead - f.ships
        /\ fleet' = [fleet EXCEPT ![f.owner] = @ + f.ships]
    BY <1>6 DEF Attack
  <2>3. crashed' = crashed /\ owner' = owner /\ at' = at
    BY <1>6, Zenon DEF Attack
  <2>4. /\ fleet'[f.owner] > 0
        /\ \A c \in Commanders : fleet[c] > 0 => fleet'[c] > 0
    BY <2>1, <2>2
  <2>5. LeadHasFleet'
    <3>1. CASE Side[f.owner] = 0
      BY <2>1, <2>2, <2>4, <3>1 DEF LeadHasFleet
    <3>2. CASE Side[f.owner] = 1
      BY <2>1, <2>2, <2>4, <3>2 DEF LeadHasFleet
    <3> QED BY <2>1, <3>1, <3>2, SideType
  <2> QED BY <1>1, <2>3, <2>5 DEF OnlyNeutralStarsCrash
<1>7. ASSUME NextStar, crashed' = crashed, ~crashed PROVE BattleInv'
  BY <1>1, <1>7 DEF NextStar, LeadHasFleet, OnlyNeutralStarsCrash
<1>8. CASE AttackFails
  <2>1. crashed' = crashed /\ ~crashed /\ NextStar
    BY <1>8, Zenon DEF AttackFails, AllLanded
  <2> QED BY <1>7, <2>1
<1>9. ASSUME NEW c \in Commanders, Takeover(c) PROVE BattleInv'
  <2>1. crashed' = crashed /\ ~crashed /\ NextStar
    BY <1>9, Zenon DEF Takeover, AllLanded
  <2> QED BY <1>7, <2>1
<1>10. CASE NoHeir
  <2>1. /\ AllLanded /\ AttackSucceeds /\ Heirs = {}
        /\ UNCHANGED << owner, at, lead, fleet >>
    BY <1>10 DEF NoHeir
  <2>2. owner[at] = None
    BY <2>1, HeldStarHasHeir
  <2> QED BY <1>1, <2>1, <2>2 DEF LeadHasFleet, OnlyNeutralStarsCrash
<1>11. CASE UNCHANGED vars
  BY <1>2, <1>11 DEF vars
<1> QED
  <2>1. CASE \E c \in Commanders, s, t \in Stars, n \in OrderSizes :
               Fly(c, s, t, n)
    BY <1>2, <1>3, <2>1
  <2>2. CASE \E f \in arriving : Reinforce(f) \/ Attack(f)
    BY <1>2, <1>5, <1>6, <2>2
  <2> QED BY <1>4, <1>8, <1>9, <1>10, <1>11, <2>1, <2>2 DEF Next

(* Only a star nobody holds can leave a takeover without an heir and end   *)
(* the game: battles for a held star always have an outcome.               *)
THEOREM HeldStarsNeverCrash == Spec => []OnlyNeutralStarsCrash
<1>1. Init => BattleInv
  <2> SUFFICES ASSUME Init PROVE BattleInv
    OBVIOUS
  <2>1. lead = 0 /\ crashed = FALSE
    BY DEF Init
  <2>2. LeadHasFleet
    BY <2>1 DEF LeadHasFleet
  <2>3. OnlyNeutralStarsCrash
    BY <2>1, Zenon DEF OnlyNeutralStarsCrash
  <2> QED BY InitIInv, <2>2, <2>3 DEF BattleInv
<1>2. BattleInv => OnlyNeutralStarsCrash
  BY DEF BattleInv
<1> QED BY <1>1, <1>2, NextBattleInv, PTL DEF Spec

-----------------------------------------------------------------------------
(* Galaxy implements Conquest                                              *)

LEMMA InitConquest == Init => Abstract!Init
<1> SUFFICES ASSUME Init PROVE Abstract!Init
  OBVIOUS
<1> USE MapAssumption, NoneIsNobody
<1>1. PICK home \in Placements :
        owner = [s \in Stars |-> IF \E c \in Commanders : home[c] = s
                                 THEN CHOOSE c \in Commanders : home[c] = s
                                 ELSE None]
  BY DEF Init
<1>2. home \in [Commanders -> Stars]
  OBVIOUS
<1>3. owner \in [Stars -> Commanders \cup {None}]
  BY <1>1
<1>4. ASSUME NEW c \in Commanders
      PROVE  \A t \in Stars : owner[t] = c <=> t = home[c]
  <2> SUFFICES ASSUME NEW t \in Stars PROVE owner[t] = c <=> t = home[c]
    OBVIOUS
  <2>1. ASSUME t = home[c] PROVE owner[t] = c
    BY <1>1, <2>1
  <2>2. ASSUME owner[t] = c PROVE t = home[c]
    BY <1>1, <2>2
  <2> QED BY <2>1, <2>2
<1>5. links = {}
  BY DEF Init
<1> QED BY <1>2, <1>3, <1>4, <1>5 DEF Abstract!Init

(* A friendly landing is an alliance or changes neither owners nor links.  *)
LEMMA ReinforceConquest ==
    ASSUME IInv, NEW f \in arriving, Reinforce(f)
    PROVE  Abstract!Next \/ UNCHANGED << owner, links >>
<1>1. /\ at \in Stars /\ f.from \in Stars /\ f.owner \in Commanders
      /\ owner[at] # None /\ Side[f.owner] = Side[owner[at]]
      /\ UNCHANGED owner
  BY NoneIsNobody DEF IInv, TypeOK, Flight, Reinforce, Landing, Friendly
<1>2. CASE owner[f.from] # owner[at] /\ owner[f.from] = f.owner
  <2>1. owner[f.from] # None
    BY <1>1, <1>2, NoneIsNobody
  <2>2. links' = links \cup {<<f.from, at>>, <<at, f.from>>}
    BY <1>2 DEF Reinforce, AddLink, FromAlly
  <2>3. Abstract!Ally(f.from, at)
    BY <1>1, <1>2, <2>1, <2>2 DEF Abstract!Ally, Abstract!Held
  <2> QED BY <1>1, <2>3 DEF Abstract!Next
<1>3. CASE ~(owner[f.from] # owner[at] /\ owner[f.from] = f.owner)
  BY <1>1, <1>3 DEF Reinforce, FromAlly
<1> QED BY <1>2, <1>3

(* A takeover is a capture: the heir is an attacker, and the attackers of  *)
(* a star that is held are all on the other side.                          *)
LEMMA TakeoverConquest ==
    ASSUME IInv, NEW c \in Commanders, Takeover(c)
    PROVE  Abstract!Next
<1>1. /\ at \in Stars /\ c \in Heirs
      /\ owner' = [owner EXCEPT ![at] = c]
      /\ RemoveAllLinks(at)
  BY NoneIsNobody DEF IInv, TypeOK, Takeover, AllLanded
<1>2. links' = {l \in links : l[1] # at /\ l[2] # at}
  BY <1>1, RemoveAllLinksComplete DEF IInv
<1>3. owner[at] # None => Side[owner[at]] # Side[c]
  BY <1>1, NoneIsNobody DEF IInv, AttackersAreEnemies, Heirs
<1>4. Abstract!Capture(at, c)
  BY <1>1, <1>2, <1>3 DEF Abstract!Capture, Abstract!Held
<1> QED BY <1>1, <1>4 DEF Abstract!Next

LEMMA NextConquest ==
    IInv /\ [Next]_vars => [Abstract!Next]_<< owner, links >>
<1> SUFFICES ASSUME IInv, [Next]_vars
             PROVE  Abstract!Next \/ UNCHANGED << owner, links >>
  OBVIOUS
<1>1. ASSUME NEW c \in Commanders, NEW s \in Stars, NEW t \in Stars,
             NEW n \in OrderSizes, Fly(c, s, t, n)
      PROVE  UNCHANGED << owner, links >>
  BY <1>1 DEF Fly
<1>2. CASE AdvanceTurn
  BY <1>2 DEF AdvanceTurn
<1>3. ASSUME NEW f \in arriving, Reinforce(f)
      PROVE  Abstract!Next \/ UNCHANGED << owner, links >>
  BY <1>3, ReinforceConquest
<1>4. ASSUME NEW f \in arriving, Attack(f)
      PROVE  UNCHANGED << owner, links >>
  BY <1>4 DEF Attack
<1>5. CASE AttackFails
  BY <1>5 DEF AttackFails
<1>6. ASSUME NEW c \in Commanders, Takeover(c) PROVE Abstract!Next
  BY <1>6, TakeoverConquest
<1>7. CASE NoHeir
  BY <1>7 DEF NoHeir
<1>8. CASE UNCHANGED vars
  BY <1>8 DEF vars
<1> QED BY <1>1, <1>2, <1>3, <1>4, <1>5, <1>6, <1>7, <1>8 DEF Next

(* Every game, whatever its size, is a play of Conquest.                   *)
THEOREM Refinement == Spec => ImplementsConquest
<1>1. IInv /\ [Next]_vars => [Abstract!Next]_(Abstract!abstractVars)
  BY NextConquest DEF Abstract!abstractVars
<1> QED BY <1>1, InitConquest, Invariance, PTL
        DEF Spec, ImplementsConquest, Abstract!Spec
-----------------------------------------------------------------------------
(* Sums over finite sets                                                   *)

(* A property of sets, given as the set P of those that have it, holds of  *)
(* every part of a finite set if it goes from smaller parts to larger ones.*)
LEMMA SmallerToLarger ==
    ASSUME NEW S, IsFiniteSet(S), NEW P,
           \A s \in SUBSET S : (\A t \in SUBSET s : t # s => t \in P) => s \in P
    PROVE  \A s \in SUBSET S : s \in P
<1> DEFINE Others == {s \in SUBSET S : s \notin P}
<1> SUFFICES ASSUME Others # {} PROVE FALSE
  <2>1. Others = {} => \A s \in SUBSET S : s \in P
    OBVIOUS
  <2> HIDE DEF Others
  <2> QED BY <2>1
<1>1. IsWellFoundedOn(StrictSubsetOrdering(S), SUBSET S)
  <2>1. FiniteSubsetsOf(S) = SUBSET S
    BY FS_FiniteSubsetsOfFinite
  <2>2. IsWellFoundedOn(StrictSubsetOrdering(S), FiniteSubsetsOf(S))
    BY FS_StrictSubsetOrderingWellFounded
  <2> QED BY <2>1, <2>2
<1>2. PICK X \in Others : \A Y \in Others : ~(<<Y, X>> \in StrictSubsetOrdering(S))
  <2>1. Others \subseteq SUBSET S
    OBVIOUS
  <2> HIDE DEF Others
  <2> QED BY <1>1, <2>1, WFMin
<1>3. ASSUME NEW t \in SUBSET X, t # X PROVE t \in P
  <2>1. <<t, X>> \in StrictSubsetOrdering(S)
    BY <1>3 DEF StrictSubsetOrdering
  <2> QED BY <1>2, <1>3, <2>1
<1> QED BY <1>2, <1>3

(* It is enough that it goes from a part to that part and one member more. *)
LEMMA OneByOne ==
    ASSUME NEW S, IsFiniteSet(S), NEW P, {} \in P,
           \A s \in SUBSET S : \A x \in S \ s : s \in P => s \cup {x} \in P
    PROVE  S \in P
<1>1. ASSUME NEW s \in SUBSET S, \A t \in SUBSET s : t # s => t \in P
      PROVE  s \in P
  <2>1. CASE s = {}
    BY <2>1
  <2>2. CASE s # {}
    <3>1. PICK x \in s : TRUE
      BY <2>2
    <3>2. s \ {x} \in P
      BY <1>1, <3>1
    <3>3. (s \ {x}) \cup {x} = s
      BY <3>1
    <3>4. s \ {x} \in SUBSET S /\ x \in S \ (s \ {x})
      BY <3>1
    <3> QED BY <3>2, <3>3, <3>4
  <2> QED BY <2>1, <2>2
<1> QED BY <1>1, SmallerToLarger

(* What SumFunctionOnSet computes: the sums over all parts of a set, each  *)
(* from the one over a part with a member less.                            *)
PickOf(s) == CHOOSE x \in s : TRUE
Step(f, g, s) == IF s = {} THEN 0 ELSE f[PickOf(s)] + g[s \ {PickOf(s)}]
ArePartialSums(g, f, S) == g = [s \in SUBSET S |-> Step(f, g, s)]
HasPartialSums(g, f, S) == \A s \in SUBSET S : g[s] = Step(f, g, s)
PartialSums(f, S) == CHOOSE g : ArePartialSums(g, f, S)

LEMMA SumIsLastPartialSum ==
    ASSUME NEW f, NEW S
    PROVE  SumFunctionOnSet(f, S) = PartialSums(f, S)[S]
BY DEF SumFunctionOnSet, FoldFunctionOnSet, MapThenFoldSet,
       PartialSums, ArePartialSums, Step, PickOf

LEMMA PickOfPart ==
    ASSUME NEW S, NEW s \in SUBSET S, s # {}
    PROVE  /\ PickOf(s) \in s /\ PickOf(s) \in S
           /\ s \ {PickOf(s)} \in SUBSET s /\ s \ {PickOf(s)} \in SUBSET S
           /\ s \ {PickOf(s)} # s
<1>1. PickOf(s) \in s
  BY DEF PickOf
<1> QED BY <1>1

NumbersOn(f, S) == \A x \in S : f[x] \in Int

(* Partial sums of numbers exist: the sum over a part is what any function *)
(* that has the partial sums of that part gives it.                        *)
LEMMA PartialSumsOnce ==
    ASSUME NEW S, IsFiniteSet(S), NEW f,
           NEW g, NEW h, NEW A, NEW B, S \subseteq A, S \subseteq B,
           HasPartialSums(g, f, A), HasPartialSums(h, f, B)
    PROVE  g[S] = h[S]
<1> DEFINE P == {s \in SUBSET S : g[s] = h[s]}
<1>1. ASSUME NEW s \in SUBSET S, \A t \in SUBSET s : t # s => t \in P
      PROVE  s \in P
  <2>1. g[s] = Step(f, g, s) /\ h[s] = Step(f, h, s)
    BY DEF HasPartialSums
  <2>2. CASE s = {}
    BY <2>1, <2>2 DEF Step
  <2>3. CASE s # {}
    <3>1. s \ {PickOf(s)} \in P
      BY <1>1, <2>3, PickOfPart
    <3> QED BY <2>1, <2>3, <3>1 DEF Step
  <2> QED BY <2>2, <2>3
<1> HIDE DEF P
<1>2. S \in P
  BY <1>1, SmallerToLarger
<1> QED BY <1>2 DEF P

LEMMA PartialSumsExist ==
    ASSUME NEW S, IsFiniteSet(S), NEW f, NumbersOn(f, S)
    PROVE  \E g \in [SUBSET S -> Int] : HasPartialSums(g, f, S)
<1> DEFINE Some(s) == {g \in [SUBSET s -> Int] : HasPartialSums(g, f, s)}
           P == {s \in SUBSET S : Some(s) # {}}
           value(s) == (CHOOSE g \in Some(s) : TRUE)[s]
<1>1. ASSUME NEW s \in SUBSET S, \A t \in SUBSET s : t # s => t \in P
      PROVE  s \in P
  <2> DEFINE q == s \ {PickOf(s)}
             all == IF s = {} THEN 0 ELSE f[PickOf(s)] + value(q)
             g == [t \in SUBSET s |-> IF t = s THEN all ELSE value(t)]
  <2>1. IsFiniteSet(s)
    BY FS_Subset
  <2>2. ASSUME NEW t \in SUBSET s, t # s, NEW u \in SUBSET t
        PROVE  value(u) \in Int /\ \A h \in Some(t) : h[u] = value(u)
    <3>1. u # s /\ u \in SUBSET s /\ IsFiniteSet(u)
      BY <2>1, <2>2, FS_Subset
    <3>2. Some(u) # {}
      BY <1>1, <3>1
    <3> DEFINE k == CHOOSE g_1 \in Some(u) : TRUE
    <3>3. k \in Some(u)
      <4> HIDE DEF Some
      <4> QED BY <3>2
    <3>4. value(u) = k[u]
      OBVIOUS
    <3> HIDE DEF k, value
    <3>5. k[u] \in Int
      BY <3>3
    <3>6. ASSUME NEW h \in Some(t) PROVE h[u] = k[u]
      BY <3>1, <3>3, PartialSumsOnce
    <3> QED BY <3>4, <3>5, <3>6
  <2> HIDE DEF value
  <2>3. \A t \in SUBSET s : t # s => value(t) \in Int
    BY <2>2
  <2>4. all \in Int
    BY <2>3, PickOfPart DEF NumbersOn
  <2>5. g \in [SUBSET s -> Int]
    <3> HIDE DEF all
    <3> QED BY <2>3, <2>4
  <2>6. ASSUME NEW t \in SUBSET s PROVE g[t] = Step(f, g, t)
    <3>1. CASE t = s
      <4>1. CASE s = {}
        BY <3>1, <4>1 DEF Step
      <4>2. CASE s # {}
        <5>1. g[q] = value(q)
          BY <4>2, PickOfPart
        <5> QED BY <3>1, <4>2, <5>1 DEF Step
      <4> QED BY <4>1, <4>2
    <3>2. CASE t # s
      <4>1. PICK h \in Some(t) : TRUE
        BY <1>1, <3>2
      <4>2. h[t] = value(t) /\ g[t] = value(t) /\ h[t] = Step(f, h, t)
        BY <2>2, <3>2, <4>1 DEF HasPartialSums
      <4>3. CASE t = {}
        BY <4>2, <4>3 DEF Step
      <4>4. CASE t # {}
        <5> DEFINE r == t \ {PickOf(t)}
        <5>1. r \in SUBSET t /\ r # s /\ r \in SUBSET s
          BY <3>2, <4>4, PickOfPart
        <5>2. h[r] = value(r) /\ g[r] = value(r)
          BY <2>2, <3>2, <4>1, <5>1
        <5> QED BY <4>2, <4>4, <5>2 DEF Step
      <4> QED BY <4>3, <4>4
    <3> QED BY <3>1, <3>2
  <2> HIDE DEF g
  <2>7. g \in Some(s)
    BY <2>5, <2>6 DEF HasPartialSums
  <2> QED BY <2>7
<1>2. S \in P
  <2> HIDE DEF P
  <2> QED BY <1>1, SmallerToLarger
<1> QED BY <1>2

GivesSums(g, f, S) ==
    /\ HasPartialSums(g, f, S)
    /\ \A T \in SUBSET S : SumFunctionOnSet(f, T) = g[T]

LEMMA PartialSumsAreSums ==
    ASSUME NEW S, IsFiniteSet(S), NEW f, NumbersOn(f, S)
    PROVE  \E g \in [SUBSET S -> Int] : GivesSums(g, f, S)
<1>1. PICK g \in [SUBSET S -> Int] : HasPartialSums(g, f, S)
  BY PartialSumsExist
<1>2. ASSUME NEW T \in SUBSET S PROVE SumFunctionOnSet(f, T) = g[T]
  <2>1. IsFiniteSet(T) /\ NumbersOn(f, T)
    BY FS_Subset DEF NumbersOn
  <2>2. PICK k \in [SUBSET T -> Int] : HasPartialSums(k, f, T)
    BY <2>1, PartialSumsExist
  <2>3. ArePartialSums(k, f, T)
    BY <2>2 DEF HasPartialSums, ArePartialSums
  <2> DEFINE p == PartialSums(f, T)
  <2>4. ArePartialSums(p, f, T)
    BY <2>3 DEF PartialSums
  <2> HIDE DEF p
  <2>5. HasPartialSums(p, f, T)
    <3>1. ASSUME NEW s \in SUBSET T PROVE p[s] = Step(f, p, s)
      BY <2>4 DEF ArePartialSums
    <3> QED BY <3>1 DEF HasPartialSums
  <2>6. p[T] = g[T]
    BY <1>1, <2>1, <2>5, PartialSumsOnce
  <2> QED BY <2>6, SumIsLastPartialSum DEF p
<1> QED BY <1>1, <1>2 DEF GivesSums

(* It does not matter which member is taken out first.                     *)
AnyIsFirst(g, f, S) == \A s \in SUBSET S : \A x \in s : g[s] = f[x] + g[s \ {x}]

LEMMA AnyMemberFirst ==
    ASSUME NEW S, IsFiniteSet(S), NEW f, NumbersOn(f, S),
           NEW g \in [SUBSET S -> Int], HasPartialSums(g, f, S)
    PROVE  AnyIsFirst(g, f, S)
<1> DEFINE P == {s \in SUBSET S : \A x \in s : g[s] = f[x] + g[s \ {x}]}
<1>1. ASSUME NEW s \in SUBSET S, \A t \in SUBSET s : t # s => t \in P,
             NEW x \in s
      PROVE  g[s] = f[x] + g[s \ {x}]
  <2> DEFINE y == PickOf(s)
             r == (s \ {y}) \ {x}
  <2>1. y \in s /\ g[s] = f[y] + g[s \ {y}]
    BY <1>1, PickOfPart DEF HasPartialSums, Step
  <2> HIDE DEF y
  <2>2. CASE x = y
    BY <2>1, <2>2
  <2>3. CASE x # y
    <3>1. s \ {y} \in P /\ s \ {x} \in P /\ x \in s \ {y} /\ y \in s \ {x}
      BY <1>1, <2>1, <2>3
    <3>2. g[s \ {y}] = f[x] + g[r]
      BY <3>1
    <3>3. (s \ {x}) \ {y} = r
      OBVIOUS
    <3>4. g[s \ {x}] = f[y] + g[r]
      <4> HIDE DEF r
      <4> QED BY <3>1, <3>3
    <3>5. f[x] \in Int /\ f[y] \in Int /\ g[r] \in Int
      BY <2>1 DEF NumbersOn
    <3> HIDE DEF r
    <3> QED BY <2>1, <3>2, <3>4, <3>5
  <2> QED BY <2>2, <2>3
<1>2. \A s \in SUBSET S : s \in P
  <2>1. ASSUME NEW s \in SUBSET S, \A t \in SUBSET s : t # s => t \in P
        PROVE  s \in P
    BY <1>1, <2>1
  <2> HIDE DEF P
  <2> QED BY <2>1, SmallerToLarger
<1> QED BY <1>2 DEF AnyIsFirst

(* The sum over nothing, and over one member more: all that the following  *)
(* lemmas use of sums.                                                     *)
LEMMA SumOverNothing == ASSUME NEW f PROVE SumFunctionOnSet(f, {}) = 0
<1>1. IsFiniteSet({}) /\ NumbersOn(f, {})
  BY FS_EmptySet DEF NumbersOn
<1>2. PICK g \in [SUBSET {} -> Int] :
        GivesSums(g, f, {})
  BY <1>1, PartialSumsAreSums
<1>3. {} \in SUBSET {}
  OBVIOUS
<1> QED BY <1>2, <1>3 DEF GivesSums, HasPartialSums, Step

LEMMA SumOverOneMore ==
    ASSUME NEW S, IsFiniteSet(S), NEW x, x \notin S,
           NEW f, f[x] \in Int, NumbersOn(f, S)
    PROVE  /\ SumFunctionOnSet(f, S) \in Int
           /\ SumFunctionOnSet(f, S \cup {x}) = SumFunctionOnSet(f, S) + f[x]
<1> DEFINE U == S \cup {x}
<1>1. IsFiniteSet(U) /\ NumbersOn(f, U) /\ S \in SUBSET U /\ U \in SUBSET U
      /\ U \ {x} = S /\ x \in U
  BY FS_AddElement DEF NumbersOn
<1> HIDE DEF U
<1>2. PICK g \in [SUBSET U -> Int] : GivesSums(g, f, U)
  BY <1>1, PartialSumsAreSums
<1>3. g[U] = f[x] + g[U \ {x}]
  <2>1. HasPartialSums(g, f, U)
    BY <1>2 DEF GivesSums
  <2>2. AnyIsFirst(g, f, U)
    BY <1>1, <2>1, AnyMemberFirst
  <2> QED BY <1>1, <2>2 DEF AnyIsFirst
<1>4. g[U] = f[x] + g[S] /\ g[S] \in Int
  BY <1>1, <1>3
<1>5. SumFunctionOnSet(f, U) = g[U] /\ SumFunctionOnSet(f, S) = g[S]
  BY <1>1, <1>2 DEF GivesSums
<1>6. \A a \in Int : f[x] + a = a + f[x]
  OBVIOUS
<1> QED BY <1>4, <1>5, <1>6 DEF U

LEMMA SumIsInt ==
    ASSUME NEW S, IsFiniteSet(S), NEW f, NumbersOn(f, S)
    PROVE  SumFunctionOnSet(f, S) \in Int
<1>1. PICK g \in [SUBSET S -> Int] : GivesSums(g, f, S)
  BY PartialSumsAreSums
<1> QED BY <1>1 DEF GivesSums

LEMMA NumbersOnPart ==
    ASSUME NEW S, IsFiniteSet(S), NEW f, NumbersOn(f, S), NEW s \in SUBSET S
    PROVE  IsFiniteSet(s) /\ NumbersOn(f, s) /\ \A x \in S : f[x] \in Int
BY FS_Subset DEF NumbersOn

LEMMA SumIsNat ==
    ASSUME NEW S, IsFiniteSet(S), NEW f, \A x \in S : f[x] \in Nat
    PROVE  SumFunctionOnSet(f, S) \in Nat
<1> DEFINE P == {s \in SUBSET S : SumFunctionOnSet(f, s) \in Nat}
<1>1. {} \in P
  BY SumOverNothing
<1>2. ASSUME NEW s \in SUBSET S, NEW x \in S \ s, s \in P
      PROVE  s \cup {x} \in P
  <2>1. IsFiniteSet(s) /\ NumbersOn(f, s) /\ f[x] \in Int /\ f[x] \in Nat
    BY FS_Subset DEF NumbersOn
  <2>2. SumFunctionOnSet(f, s \cup {x}) = SumFunctionOnSet(f, s) + f[x]
    BY <2>1, SumOverOneMore
  <2> QED BY <1>2, <2>1, <2>2
<1>3. S \in P
  <2> HIDE DEF P
  <2> QED BY <1>1, <1>2, OneByOne
<1> QED BY <1>3

(* The sum over an image: the values are the same in another place.        *)
LEMMA SumOverImage ==
    ASSUME NEW S, IsFiniteSet(S), NEW f, NumbersOn(f, S), NEW m, NEW h,
           \A x \in S : h[m[x]] = f[x],
           \A x, y \in S : m[x] = m[y] => x = y
    PROVE  SumFunctionOnSet(h, {m[x] : x \in S}) = SumFunctionOnSet(f, S)
<1> DEFINE Image(s) == {m[x] : x \in s}
           Same(s) == SumFunctionOnSet(h, Image(s)) = SumFunctionOnSet(f, s)
           P == {s \in SUBSET S : Same(s)}
<1>1. {} \in P
  <2>1. Image({}) = {}
    OBVIOUS
  <2> QED BY <2>1, SumOverNothing
<1>2. ASSUME NEW s \in SUBSET S, NEW x \in S \ s, Same(s)
      PROVE  Same(s \cup {x})
  <2>1. IsFiniteSet(s) /\ NumbersOn(f, s) /\ f[x] \in Int
    BY NumbersOnPart
  <2>2. IsFiniteSet(Image(s))
    <3>1. [y \in s |-> m[y]] \in Surjection(s, Image(s))
      BY DEF Surjection
    <3> HIDE DEF Image
    <3> QED BY <2>1, <3>1, FS_Surjection
  <2>3. NumbersOn(h, Image(s))
    BY <2>1 DEF NumbersOn
  <2>4. Image(s \cup {x}) = Image(s) \cup {m[x]} /\ m[x] \notin Image(s)
    OBVIOUS
  <2>5. SumFunctionOnSet(f, s \cup {x}) = SumFunctionOnSet(f, s) + f[x]
    BY <2>1, SumOverOneMore
  <2>6. h[m[x]] = f[x]
    OBVIOUS
  <2> DEFINE I == Image(s)
             e == m[x]
  <2>7. SumFunctionOnSet(h, I \cup {e}) = SumFunctionOnSet(h, I) + h[e]
    <3>1. IsFiniteSet(I) /\ NumbersOn(h, I) /\ e \notin I /\ h[e] \in Int
      BY <2>1, <2>2, <2>3, <2>4, <2>6
    <3> HIDE DEF I, e
    <3> QED BY <3>1, SumOverOneMore
  <2> QED BY <1>2, <2>4, <2>5, <2>6, <2>7
<1>3. S \in P
  <2>1. ASSUME NEW s \in SUBSET S, NEW x \in S \ s, s \in P
        PROVE  s \cup {x} \in P
    BY <1>2, <2>1
  <2> HIDE DEF P
  <2> QED BY <1>1, <2>1, OneByOne
<1> QED BY <1>3

(* Some values grow: the sum grows by the sum of what they grow by.        *)
Grown(h, f, r, S, T) == \A x \in S : h[x] = IF x \in T THEN f[x] + r[x] ELSE f[x]

LEMMA SumOfGrowth ==
    ASSUME NEW S, IsFiniteSet(S), NEW T, NEW f, NEW r, NEW h,
           NumbersOn(f, S), NumbersOn(r, S), Grown(h, f, r, S, T)
    PROVE  SumFunctionOnSet(h, S)
             = SumFunctionOnSet(f, S) + SumFunctionOnSet(r, S \cap T)
<1> DEFINE Grows(s) == SumFunctionOnSet(h, s)
                         = SumFunctionOnSet(f, s) + SumFunctionOnSet(r, s \cap T)
           P == {s \in SUBSET S : Grows(s)}
<1>1. {} \in P
  <2>1. {} \cap T = {}
    OBVIOUS
  <2> QED BY <2>1, SumOverNothing
<1>2. ASSUME NEW s \in SUBSET S, NEW x \in S \ s, Grows(s)
      PROVE  Grows(s \cup {x})
  <2>1. /\ IsFiniteSet(s) /\ NumbersOn(f, s) /\ NumbersOn(r, s)
        /\ f[x] \in Int /\ r[x] \in Int
    BY NumbersOnPart
  <2>2. NumbersOn(h, s) /\ h[x] \in Int
    BY <2>1 DEF NumbersOn, Grown
  <2>3. IsFiniteSet(s \cap T) /\ NumbersOn(r, s \cap T) /\ x \notin s \cap T
    BY <2>1, FS_Subset DEF NumbersOn
  <2>4. /\ SumFunctionOnSet(f, s \cup {x}) = SumFunctionOnSet(f, s) + f[x]
        /\ SumFunctionOnSet(f, s) \in Int
    BY <2>1, SumOverOneMore
  <2>5. SumFunctionOnSet(h, s \cup {x}) = SumFunctionOnSet(h, s) + h[x]
    BY <2>1, <2>2, SumOverOneMore
  <2>6. SumFunctionOnSet(r, s \cap T) \in Int
    BY <2>3, SumIsInt
  <2> DEFINE a == SumFunctionOnSet(f, s)
             b == SumFunctionOnSet(r, s \cap T)
  <2>7. CASE x \in T
    <3>1. (s \cup {x}) \cap T = (s \cap T) \cup {x}
      BY <2>7
    <3>2. SumFunctionOnSet(r, (s \cap T) \cup {x}) = b + r[x]
      BY <2>1, <2>3, SumOverOneMore
    <3>3. h[x] = f[x] + r[x]
      BY <2>7 DEF Grown
    <3>4. (a + b) + (f[x] + r[x]) = (a + f[x]) + (b + r[x])
      <4> HIDE DEF a, b
      <4>1. a \in Int /\ b \in Int
        BY <2>4, <2>6 DEF a, b
      <4> QED BY <2>1, <4>1
    <3> QED BY <1>2, <2>4, <2>5, <3>1, <3>2, <3>3, <3>4
  <2>8. CASE x \notin T
    <3>1. (s \cup {x}) \cap T = s \cap T /\ h[x] = f[x]
      BY <2>8 DEF Grown
    <3>2. (a + b) + f[x] = (a + f[x]) + b
      <4> HIDE DEF a, b
      <4>1. a \in Int /\ b \in Int
        BY <2>4, <2>6 DEF a, b
      <4> QED BY <2>1, <4>1
    <3> QED BY <1>2, <2>4, <2>5, <3>1, <3>2
  <2> QED BY <2>7, <2>8
<1>3. S \in P
  <2>1. ASSUME NEW s \in SUBSET S, NEW x \in S \ s, s \in P
        PROVE  s \cup {x} \in P
    BY <1>2, <2>1
  <2> HIDE DEF P
  <2> QED BY <1>1, <2>1, OneByOne
<1> QED BY <1>3

LEMMA SumOfSame ==
    ASSUME NEW S, IsFiniteSet(S), NEW f, NumbersOn(f, S),
           NEW h, \A x \in S : h[x] = f[x]
    PROVE  SumFunctionOnSet(h, S) = SumFunctionOnSet(f, S)
<1>1. PICK T : T = {}
  OBVIOUS
<1>2. SumFunctionOnSet(h, S)
        = SumFunctionOnSet(f, S) + SumFunctionOnSet(f, S \cap T)
  <2>1. Grown(h, f, f, S, T)
    BY <1>1 DEF Grown
  <2> QED BY <2>1, SumOfGrowth
<1>3. SumFunctionOnSet(f, S \cap T) = 0
  <2>1. S \cap T = {}
    BY <1>1
  <2> QED BY <2>1, SumOverNothing
<1>4. SumFunctionOnSet(f, S) \in Int
  BY SumIsInt
<1> QED BY <1>2, <1>3, <1>4

(* One value changes.                                                      *)
LEMMA SumOfChange ==
    ASSUME NEW S, IsFiniteSet(S), NEW x \in S, NEW f, NumbersOn(f, S),
           NEW h, h[x] \in Int, \A y \in S \ {x} : h[y] = f[y]
    PROVE  SumFunctionOnSet(h, S) = SumFunctionOnSet(f, S) - f[x] + h[x]
<1> DEFINE R == S \ {x}
<1>1. IsFiniteSet(R) /\ x \notin R /\ S = R \cup {x} /\ NumbersOn(f, R)
      /\ f[x] \in Int /\ \A y \in R : h[y] = f[y]
  BY NumbersOnPart
<1>2. NumbersOn(h, R)
  BY <1>1 DEF NumbersOn
<1> HIDE DEF R
<1>3. /\ SumFunctionOnSet(f, R \cup {x}) = SumFunctionOnSet(f, R) + f[x]
      /\ SumFunctionOnSet(f, R) \in Int
  BY <1>1, SumOverOneMore
<1>4. SumFunctionOnSet(h, R \cup {x}) = SumFunctionOnSet(h, R) + h[x]
  BY <1>1, <1>2, SumOverOneMore
<1>5. SumFunctionOnSet(h, R) = SumFunctionOnSet(f, R)
  BY <1>1, SumOfSame
<1>6. \A a \in Int : a + h[x] = (a + f[x]) - f[x] + h[x]
  BY <1>1
<1> QED BY <1>1, <1>3, <1>4, <1>5, <1>6

-----------------------------------------------------------------------------
(* The ships of a side                                                     *)

LEMMA SumOfNothing ==
    ASSUME NEW S, IsFiniteSet(S), NEW f, \A x \in S : f[x] = 0
    PROVE  SumFunctionOnSet(f, S) = 0
<1>1. NumbersOn(f, S) /\ Grown(f, f, f, S, S)
  BY DEF NumbersOn, Grown
<1>2. SumFunctionOnSet(f, S)
        = SumFunctionOnSet(f, S) + SumFunctionOnSet(f, S \cap S)
  BY <1>1, SumOfGrowth
<1>3. S \cap S = S /\ SumFunctionOnSet(f, S) \in Int
  BY <1>1, SumIsInt
<1> QED BY <1>2, <1>3

Crew(side) == {c \in Commanders : Side[c] = side}
Cargo == [f \in Flight |-> f.ships]
OnStars(side) == SumFunctionOnSet(ships, Held(side))
Flying(side) == SumFunctionOnSet(Cargo, FlightsOf(side))

LEMMA CrewIsFinite == \A side : IsFiniteSet(Crew(side)) /\ Crew(side) \subseteq Commanders
<1>1. IsFiniteSet(Commanders)
  BY SizeAssumption, FS_Interval DEF Commanders
<1> QED BY <1>1, FS_Subset DEF Crew

LEMMA HeldIsFinite == \A side : IsFiniteSet(Held(side)) /\ Held(side) \subseteq Stars
<1>1. IsFiniteSet(Stars)
  BY SizeAssumption, FS_Interval DEF Stars
<1> QED BY <1>1, FS_Subset DEF Held

LEMMA FlightsOfType ==
    ASSUME TypeOK, NEW side
    PROVE  IsFiniteSet(FlightsOf(side)) /\ FlightsOf(side) \subseteq Flight
<1>1. IsFiniteSet(flights \cup arriving) /\ flights \cup arriving \subseteq Flight
  BY FS_Union DEF TypeOK
<1>2. FlightsOf(side) \subseteq flights \cup arriving
  BY DEF FlightsOf
<1> QED BY <1>1, <1>2, FS_Subset

LEMMA CargoType == NumbersOn(Cargo, Flight) /\ \A f \in Flight : Cargo[f] = f.ships
BY DEF NumbersOn, Cargo, Flight

LEMMA PartsOfShips ==
    ASSUME TypeOK, NEW side
    PROVE  /\ ShipsOf(side) = OnStars(side) + Flying(side) + FleetOf(side)
           /\ OnStars(side) \in Nat /\ Flying(side) \in Nat /\ FleetOf(side) \in Nat
<1>1. OnStars(side) \in Nat
  BY HeldIsFinite, SumIsNat DEF TypeOK, OnStars
<1>2. FleetOf(side) \in Nat
  <2>1. \A c \in Crew(side) : fleet[c] \in Nat
    BY CrewIsFinite DEF TypeOK
  <2> QED BY <2>1, CrewIsFinite, SumIsNat DEF FleetOf, Crew
<1>3. Flying(side) \in Nat
  <2>1. \A f \in FlightsOf(side) : Cargo[f] \in Nat
    BY FlightsOfType, CargoType DEF Flight
  <2> QED BY <2>1, FlightsOfType, SumIsNat DEF Flying
<1>4. SumFunctionOnSet(Aboard, FlightsOf(side)) = Flying(side)
  <2>1. NumbersOn(Cargo, FlightsOf(side))
    BY FlightsOfType, CargoType DEF NumbersOn
  <2>2. \A f \in FlightsOf(side) : Aboard[f] = Cargo[f]
    BY FlightsOfType, CargoType DEF Aboard, FlightsOf
  <2> QED BY <2>1, <2>2, FlightsOfType, SumOfSame DEF Flying
<1> QED BY <1>1, <1>2, <1>3, <1>4 DEF ShipsOf, OnStars

PartsAddUp ==
    \A side :
      /\ ShipsOf(side) = OnStars(side) + Flying(side) + FleetOf(side)
      /\ OnStars(side) \in Nat /\ Flying(side) \in Nat /\ FleetOf(side) \in Nat

LEMMA PartsNow == TypeOK => PartsAddUp
BY PartsOfShips DEF PartsAddUp

LEMMA PartsNext == TypeOK' => PartsAddUp'
BY PartsNow, PTL

(* Before anybody has landed no side has a fleet in a battle.              *)
LEMMA NoFleetOfAnySide ==
    ASSUME fleet = NoFleet, NEW side PROVE FleetOf(side) = 0
<1>1. \A c \in Crew(side) : fleet[c] = 0
  BY CrewIsFinite DEF NoFleet
<1> QED BY <1>1, CrewIsFinite, SumOfNothing DEF FleetOf, Crew

LEMMA NoFleetNext ==
    ASSUME fleet' = NoFleet, NEW side PROVE FleetOf(side)' = 0
<1> DEFINE g == fleet'
<1>1. \A c \in Crew(side) : g[c] = 0
  BY CrewIsFinite DEF NoFleet
<1>2. FleetOf(side)' = SumFunctionOnSet(g, Crew(side))
  BY DEF FleetOf, Crew
<1> HIDE DEF g
<1> QED BY <1>1, <1>2, CrewIsFinite, SumOfNothing

LEMMA SameFleets == ASSUME UNCHANGED fleet, NEW side PROVE FleetOf(side)' = FleetOf(side)
BY DEF FleetOf

LEMMA SameStars ==
    ASSUME UNCHANGED << owner, ships >>, NEW side PROVE OnStars(side)' = OnStars(side)
BY DEF OnStars, Held

LEMMA SameFlights ==
    ASSUME UNCHANGED << flights, arriving >>, NEW side PROVE Flying(side)' = Flying(side)
BY DEF Flying, FlightsOf

(* The ships of one star change, and its side stays.                       *)
LEMMA OneStarChanges ==
    ASSUME TypeOK, NEW s \in Stars, NEW n \in Int, UNCHANGED owner,
           ships' = [ships EXCEPT ![s] = n], NEW side
    PROVE  OnStars(side)' = IF s \in Held(side) THEN OnStars(side) - ships[s] + n
                            ELSE OnStars(side)
<1>1. Held(side)' = Held(side)
  BY DEF Held
<1>2. NumbersOn(ships, Held(side))
  BY HeldIsFinite DEF TypeOK, NumbersOn
<1>3. ships'[s] = n /\ \A r \in Stars \ {s} : ships'[r] = ships[r]
  BY DEF TypeOK
<1> DEFINE S == Held(side)
           g == ships'
<1>4. IsFiniteSet(S) /\ S \subseteq Stars
  BY HeldIsFinite
<1>5. SumFunctionOnSet(g, S) = IF s \in S THEN SumFunctionOnSet(ships, S) - ships[s] + n
                               ELSE SumFunctionOnSet(ships, S)
  <2>1. g[s] = n /\ \A r \in S \ {s} : g[r] = ships[r]
    BY <1>3, <1>4
  <2>2. NumbersOn(ships, S)
    BY <1>2
  <2> HIDE DEF S, g
  <2>3. CASE s \in S
    <3>1. SumFunctionOnSet(g, S) = SumFunctionOnSet(ships, S) - ships[s] + g[s]
      BY <1>4, <2>1, <2>2, <2>3, SumOfChange
    <3> QED BY <2>1, <2>3, <3>1
  <2>4. CASE s \notin S
    <3>1. \A r \in S : g[r] = ships[r]
      BY <2>1, <2>4
    <3> QED BY <1>4, <2>2, <2>4, <3>1, SumOfSame
  <2> QED BY <2>3, <2>4
<1> QED BY <1>1, <1>5 DEF OnStars

(* A flight that lands is no longer under way.                             *)
LEMMA LandingFlies ==
    ASSUME IInv, NEW f \in arriving, Landing(f), UNCHANGED flights, NEW side
    PROVE  Flying(side)' = IF Side[f.owner] = side THEN Flying(side) - f.ships
                           ELSE Flying(side)
<1>1. TypeOK /\ f \in Flight /\ f.ships \in Int
  BY DEF IInv, TypeOK, Flight
<1>2. f \notin flights
  <2>1. f \in flights => f.turns \in 1 .. TravelTurns(f.from, f.to)
    BY DEF IInv, FlightsOnCourse
  <2>2. f.turns = 0 /\ TravelTurns(f.from, f.to) \in Nat
    BY <1>1, TravelTurnsType DEF IInv, FlightsOnCourse, Flight
  <2> QED BY <2>1, <2>2
<1>3. flights' = flights /\ arriving' = arriving \ {f}
  BY DEF Landing
<1> DEFINE R == FlightsOf(side)'
<1>4. IsFiniteSet(FlightsOf(side)) /\ FlightsOf(side) \subseteq Flight
  BY <1>1, FlightsOfType
<1>5. R \subseteq FlightsOf(side) /\ f \notin R
  BY <1>2, <1>3 DEF FlightsOf
<1>6. CASE Side[f.owner] = side
  <2>1. FlightsOf(side) = R \cup {f}
    BY <1>2, <1>3, <1>6 DEF FlightsOf
  <2>2. IsFiniteSet(R) /\ NumbersOn(Cargo, R) /\ Cargo[f] = f.ships
    BY <1>1, <1>4, <1>5, FS_Subset, CargoType DEF NumbersOn
  <2> HIDE DEF R
  <2>3. /\ SumFunctionOnSet(Cargo, R \cup {f}) = SumFunctionOnSet(Cargo, R) + f.ships
        /\ SumFunctionOnSet(Cargo, R) \in Int
    BY <1>1, <1>5, <2>2, SumOverOneMore
  <2>4. Flying(side) = SumFunctionOnSet(Cargo, R) + f.ships
    BY <2>1, <2>3 DEF Flying
  <2>5. Flying(side)' = SumFunctionOnSet(Cargo, R)
    BY DEF Flying, Cargo, R
  <2> QED BY <1>1, <1>6, <2>3, <2>4, <2>5
<1>7. CASE Side[f.owner] # side
  <2>1. R = FlightsOf(side)
    BY <1>3, <1>7 DEF FlightsOf
  <2> QED BY <1>7, <2>1 DEF Flying, Cargo
<1> QED BY <1>6, <1>7

LEMMA FlyShips ==
    ASSUME IInv, NEW c \in Commanders, NEW s \in Stars, NEW t \in Stars,
           NEW n \in OrderSizes, Fly(c, s, t, n), NEW side
    PROVE  ShipsOf(side)' = ShipsOf(side) /\ turn' = turn
<1> DEFINE f0 == [from |-> s, to |-> t, owner |-> c, ships |-> n,
                  turns |-> TravelTurns(s, t)]
<1>1. /\ s # t /\ owner[s] = c /\ 0 < n /\ n <= ships[s] /\ n \in Nat
      /\ <<s, t>> \notin issued /\ arriving = {}
  BY SizeAssumption DEF Fly, TakingOrders, ValidFly, IInv, TurnsAreComplete
<1>2. /\ ships' = [ships EXCEPT ![s] = @ - n]
      /\ flights' = flights \cup {f0}
      /\ UNCHANGED << owner, arriving, fleet, turn >>
  BY DEF Fly, AddFlight
<1>3. TypeOK /\ TypeOK'
  BY FlyIInv DEF IInv
<1>4. /\ f0 \in Flight /\ f0.turns = TravelTurns(f0.from, f0.to)
      /\ f0.ships = n /\ f0.owner = c
  BY <1>1, TravelTurnsType DEF Flight
<1>5. f0 \notin flights \cup arriving
  BY <1>1 DEF IInv, FlightsOnCourse
<1>6. ships[s] \in Int /\ n \in Int
  BY <1>1, <1>3 DEF TypeOK
<1>7. s \in Held(side) <=> Side[c] = side
  BY <1>1, NoneIsNobody DEF Held
<1>8. OnStars(side)' = IF Side[c] = side THEN OnStars(side) - n ELSE OnStars(side)
  <2>1. OnStars(side)' = IF s \in Held(side) THEN OnStars(side) - ships[s] + (ships[s] - n)
                         ELSE OnStars(side)
    <3>1. ships' = [ships EXCEPT ![s] = ships[s] - n] /\ ships[s] - n \in Int
      BY <1>2, <1>6
    <3> QED BY <1>2, <1>3, <3>1, OneStarChanges
  <2> QED BY <1>3, <1>6, <1>7, <2>1, PartsOfShips
<1>9. Flying(side)' = IF Side[c] = side THEN Flying(side) + n ELSE Flying(side)
  <2> HIDE DEF f0
  <2>1. FlightsOf(side)' = IF Side[c] = side THEN FlightsOf(side) \cup {f0}
                           ELSE FlightsOf(side)
    BY <1>2, <1>4 DEF FlightsOf
  <2>2. NumbersOn(Cargo, FlightsOf(side)) /\ IsFiniteSet(FlightsOf(side))
    BY <1>3, FlightsOfType, CargoType DEF NumbersOn
  <2>3. f0 \notin FlightsOf(side) /\ Cargo[f0] = n
    BY <1>4, <1>5, CargoType DEF FlightsOf
  <2>4. SumFunctionOnSet(Cargo, FlightsOf(side) \cup {f0})
          = SumFunctionOnSet(Cargo, FlightsOf(side)) + n
    BY <1>6, <2>2, <2>3, SumOverOneMore
  <2>5. Flying(side)' = SumFunctionOnSet(Cargo, FlightsOf(side)')
    BY DEF Flying, Cargo
  <2> QED BY <2>1, <2>4, <2>5 DEF Flying
<1>10. FleetOf(side)' = FleetOf(side)
  BY <1>2, SameFleets
<1>11. /\ ShipsOf(side) = OnStars(side) + Flying(side) + FleetOf(side)
       /\ ShipsOf(side)' = OnStars(side)' + Flying(side)' + FleetOf(side)'
       /\ OnStars(side) \in Nat /\ Flying(side) \in Nat /\ FleetOf(side) \in Nat
  BY <1>3, PartsNow, PartsNext DEF PartsAddUp
<1> QED BY <1>2, <1>6, <1>8, <1>9, <1>10, <1>11

(* Production adds the yield, and the flights carry on.                    *)
LEMMA AdvanceTurnShips ==
    ASSUME IInv, AdvanceTurn, NEW side
    PROVE  /\ ShipsOf(side)' = ShipsOf(side) + Yield(side)
           /\ Yield(side) \in Nat /\ turn' # turn
<1>1. TypeOK /\ TypeOK' /\ arriving = {} /\ turn \in Nat /\ turn' = turn + 1
  BY AdvanceTurnIInv, SizeAssumption
     DEF AdvanceTurn, TakingOrders, IInv, TurnsAreComplete, TypeOK
<1>2. UNCHANGED << owner, fleet >>
  BY DEF AdvanceTurn
<1> DEFINE S == Held(side)
           T == {s \in Stars : Producing(s)}
           g == ships'
<1>3. IsFiniteSet(S) /\ S \subseteq Stars
  BY HeldIsFinite
<1>4. /\ NumbersOn(ships, S) /\ NumbersOn(Richness, S) /\ Grown(g, ships, Richness, S, T)
      /\ \A s \in S : Richness[s] \in Nat
  BY <1>1, <1>3, MapAssumption DEF AdvanceTurn, TypeOK, NumbersOn, Grown
<1>5. S \cap T = {s \in Held(side) : Producing(s)} /\ Held(side)' = S
  BY <1>2, <1>3 DEF Held
<1>6. OnStars(side)' = OnStars(side) + Yield(side)
  <2>1. SumFunctionOnSet(g, S)
          = SumFunctionOnSet(ships, S) + SumFunctionOnSet(Richness, S \cap T)
    <3> HIDE DEF S, T, g
    <3> QED BY <1>3, <1>4, SumOfGrowth
  <2> QED BY <1>5, <2>1 DEF OnStars, Yield
<1>7. Yield(side) \in Nat
  <2>1. IsFiniteSet(S \cap T) /\ \A s \in S \cap T : Richness[s] \in Nat
    BY <1>3, <1>4, FS_Subset
  <2> HIDE DEF S, T
  <2>2. SumFunctionOnSet(Richness, S \cap T) \in Nat
    BY <2>1, SumIsNat
  <2> QED BY <1>5, <2>2 DEF Yield
<1>8. Flying(side)' = Flying(side)
  <2> DEFINE m == [f \in Flight |-> Closer(f)]
             F == FlightsOf(side)
  <2>1. IsFiniteSet(F) /\ F \subseteq Flight /\ F = {f \in flights : Side[f.owner] = side}
    BY <1>1, FlightsOfType DEF FlightsOf
  <2>2. ASSUME NEW f \in flights
        PROVE  /\ f \in Flight /\ Closer(f) \in Flight /\ m[f] = Closer(f)
               /\ Closer(f).ships = f.ships /\ Closer(f).owner = f.owner
    <3>1. f \in Flight /\ f.turns \in 1 .. TravelTurns(f.from, f.to)
      BY <1>1 DEF TypeOK, IInv, FlightsOnCourse
    <3>2. f.turns \in Nat /\ f.turns >= 1
      BY <3>1, TravelTurnsType DEF Flight
    <3> QED BY <3>1, <3>2 DEF Closer, Flight
  <2>3. FlightsOf(side)' = {m[f] : f \in F}
    <3>1. flights' \cup arriving' = {Closer(f) : f \in flights}
      BY DEF AdvanceTurn
    <3>2. FlightsOf(side)' = {e \in {Closer(f) : f \in flights} : Side[e.owner] = side}
      BY <3>1 DEF FlightsOf
    <3>3. ASSUME NEW f \in F PROVE m[f] \in FlightsOf(side)'
      BY <2>1, <2>2, <3>2
    <3>4. ASSUME NEW e \in FlightsOf(side)' PROVE \E f \in F : e = m[f]
      <4>1. PICK f \in flights : e = Closer(f) /\ Side[e.owner] = side
        BY <3>2
      <4> QED BY <2>1, <2>2, <4>1
    <3> HIDE DEF m, F
    <3> QED BY <3>3, <3>4
  <2>4. NumbersOn(Cargo, F) /\ \A f \in F : Cargo[m[f]] = Cargo[f]
    BY <2>1, <2>2, CargoType DEF NumbersOn
  <2>5. \A e, f \in F : m[e] = m[f] => e = f
    BY <2>1, <2>2, CloserIsInjective
  <2> HIDE DEF m, F
  <2>6. SumFunctionOnSet(Cargo, {m[f] : f \in F}) = SumFunctionOnSet(Cargo, F)
    BY <2>1, <2>4, <2>5, SumOverImage
  <2> QED BY <2>3, <2>6 DEF Flying, Cargo, F
<1>9. FleetOf(side)' = FleetOf(side)
  BY <1>2, SameFleets
<1> HIDE DEF S, T, g
<1> QED BY <1>1, <1>6, <1>7, <1>8, <1>9, PartsNow, PartsNext DEF PartsAddUp

LEMMA ReinforceShips ==
    ASSUME IInv, NEW f \in arriving, Reinforce(f), NEW side
    PROVE  ShipsOf(side)' = ShipsOf(side) /\ turn' = turn
<1>1. TypeOK /\ TypeOK'
  BY ReinforceIInv DEF IInv
<1>2. /\ Landing(f) /\ Friendly(f) /\ f.to = at /\ at \in Stars
      /\ UNCHANGED << owner, flights, fleet, turn >>
      /\ ships' = [ships EXCEPT ![at] = @ + f.ships]
  <2>1. f \in Flight
    BY <1>1 DEF TypeOK
  <2> QED BY <2>1 DEF Reinforce, Landing, Flight
<1>3. ships[at] \in Int /\ f.ships \in Int
  BY <1>1, <1>2 DEF TypeOK, Flight
<1>4. at \in Held(side) <=> Side[f.owner] = side
  BY <1>2 DEF Friendly, Held
<1>5. OnStars(side)' = IF at \in Held(side) THEN OnStars(side) - ships[at] + (ships[at] + f.ships)
                       ELSE OnStars(side)
  <2>1. ships' = [ships EXCEPT ![at] = ships[at] + f.ships] /\ ships[at] + f.ships \in Int
    BY <1>2, <1>3
  <2> QED BY <1>1, <1>2, <2>1, OneStarChanges
<1>6. Flying(side)' = IF Side[f.owner] = side THEN Flying(side) - f.ships ELSE Flying(side)
  BY <1>2, LandingFlies
<1>7. FleetOf(side)' = FleetOf(side)
  BY <1>2, SameFleets
<1> QED BY <1>1, <1>2, <1>3, <1>4, <1>5, <1>6, <1>7, PartsNow, PartsNext DEF PartsAddUp

(* An attacker's ships join the fleets of its side.                        *)
LEMMA AttackFleets ==
    ASSUME TypeOK, NEW f \in arriving, Attack(f), NEW side
    PROVE  FleetOf(side)' = IF Side[f.owner] = side THEN FleetOf(side) + f.ships
                            ELSE FleetOf(side)
<1> DEFINE S == Crew(side)
           g == fleet'
           e == f.owner
<1>1. f \in Flight /\ e \in Commanders /\ f.ships \in Int
  BY DEF TypeOK, Flight
<1>2. g = [fleet EXCEPT ![e] = @ + f.ships] /\ fleet \in [Commanders -> Nat]
  BY DEF Attack, TypeOK
<1>3. IsFiniteSet(S) /\ S \subseteq Commanders /\ NumbersOn(fleet, S)
  BY <1>2, CrewIsFinite DEF NumbersOn
<1>4. /\ g[e] = fleet[e] + f.ships /\ g[e] \in Int /\ fleet[e] \in Int
      /\ \A c \in S \ {e} : g[c] = fleet[c]
  BY <1>1, <1>2, <1>3
<1>5. e \in S <=> Side[e] = side
  BY <1>1 DEF Crew
<1>6. FleetOf(side) = SumFunctionOnSet(fleet, S) /\ FleetOf(side)' = SumFunctionOnSet(g, S)
  BY DEF FleetOf, Crew
<1> HIDE DEF S, g, e
<1>7. CASE e \in S
  <2>1. SumFunctionOnSet(g, S) = SumFunctionOnSet(fleet, S) - fleet[e] + g[e]
    BY <1>3, <1>4, <1>7, SumOfChange
  <2>2. SumFunctionOnSet(fleet, S) \in Int
    BY <1>3, SumIsInt
  <2>3. SumFunctionOnSet(g, S) = SumFunctionOnSet(fleet, S) + f.ships
    BY <1>1, <1>4, <2>1, <2>2
  <2> QED BY <1>5, <1>6, <1>7, <2>3 DEF e
<1>8. CASE e \notin S
  <2>1. \A c \in S : g[c] = fleet[c]
    BY <1>4, <1>8
  <2>2. SumFunctionOnSet(g, S) = SumFunctionOnSet(fleet, S)
    BY <1>3, <2>1, SumOfSame
  <2> QED BY <1>5, <1>6, <1>8, <2>2 DEF e
<1> QED BY <1>7, <1>8

LEMMA AttackShips ==
    ASSUME IInv, NEW f \in arriving, Attack(f), NEW side
    PROVE  ShipsOf(side)' = ShipsOf(side) /\ turn' = turn
<1>1. TypeOK /\ TypeOK' /\ f.ships \in Int
  BY AttackIInv DEF IInv, TypeOK, Flight
<1>2. Landing(f) /\ UNCHANGED << owner, ships, flights, turn >>
  BY DEF Attack
<1>3. OnStars(side)' = OnStars(side)
  BY <1>2, SameStars
<1>4. Flying(side)' = IF Side[f.owner] = side THEN Flying(side) - f.ships ELSE Flying(side)
  BY <1>2, LandingFlies
<1>5. FleetOf(side)' = IF Side[f.owner] = side THEN FleetOf(side) + f.ships
                       ELSE FleetOf(side)
  BY <1>1, AttackFleets
<1> QED BY <1>1, <1>2, <1>3, <1>4, <1>5, PartsNow, PartsNext DEF PartsAddUp

(* The balance of a battle is that of the fleets.                          *)
LeadIsExact == lead = FleetOf(0) - FleetOf(1)
FairBattle == IInv /\ LeadIsExact

LEMMA InitFairBattle == Init => FairBattle
<1> SUFFICES ASSUME Init PROVE FairBattle
  OBVIOUS
<1>1. lead = 0 /\ fleet = NoFleet
  BY DEF Init
<1>2. FleetOf(0) = 0 /\ FleetOf(1) = 0
  BY <1>1, NoFleetOfAnySide
<1> QED BY <1>1, <1>2, InitIInv DEF FairBattle, LeadIsExact

LEMMA NextFairBattle == FairBattle /\ [Next]_vars => FairBattle'
<1> SUFFICES ASSUME FairBattle, [Next]_vars PROVE FairBattle'
  OBVIOUS
<1>1. TypeOK /\ IInv' /\ PartsAddUp
  BY NextIInv, PartsNow DEF FairBattle, IInv
<1>2. CASE UNCHANGED << lead, fleet >>
  BY <1>1, <1>2, SameFleets DEF FairBattle, LeadIsExact
<1>3. ASSUME NEW c \in Commanders, NEW s \in Stars, NEW t \in Stars,
             NEW n \in OrderSizes, Fly(c, s, t, n)
      PROVE  UNCHANGED << lead, fleet >>
  BY <1>3 DEF Fly
<1>4. CASE AdvanceTurn
  BY <1>2, <1>4 DEF AdvanceTurn
<1>5. ASSUME NEW f \in arriving, Reinforce(f) PROVE UNCHANGED << lead, fleet >>
  BY <1>5 DEF Reinforce
<1>6. ASSUME NEW f \in arriving, Attack(f) PROVE FairBattle'
  <2>1. /\ lead' = IF Side[f.owner] = 0 THEN lead + f.ships ELSE lead - f.ships
        /\ f.ships \in Int /\ f.owner \in Commanders
    BY <1>1, <1>6 DEF Attack, TypeOK, Flight
  <2>2. \A k \in {0, 1} :
          FleetOf(k)' = IF Side[f.owner] = k THEN FleetOf(k) + f.ships ELSE FleetOf(k)
    BY <1>1, <1>6, AttackFleets
  <2>3. Side[f.owner] \in {0, 1}
    BY <2>1, SideType
  <2>4. FleetOf(0) \in Nat /\ FleetOf(1) \in Nat /\ lead = FleetOf(0) - FleetOf(1)
    BY <1>1 DEF PartsAddUp, FairBattle, LeadIsExact
  <2>5. lead' = FleetOf(0)' - FleetOf(1)'
    BY <2>1, <2>2, <2>3, <2>4
  <2> QED BY <1>1, <2>5 DEF FairBattle, LeadIsExact
<1>7. ASSUME NextStar PROVE FairBattle'
  <2>1. lead' = 0 /\ fleet' = NoFleet
    BY <1>7 DEF NextStar
  <2>2. FleetOf(0)' = 0 /\ FleetOf(1)' = 0
    BY <2>1, NoFleetNext
  <2> QED BY <1>1, <2>1, <2>2 DEF FairBattle, LeadIsExact
<1>8. CASE AttackFails
  BY <1>7, <1>8 DEF AttackFails
<1>9. ASSUME NEW c \in Commanders, Takeover(c) PROVE FairBattle'
  BY <1>7, <1>9 DEF Takeover
<1>10. CASE NoHeir
  BY <1>2, <1>10 DEF NoHeir
<1>11. CASE UNCHANGED vars
  BY <1>2, <1>11 DEF vars
<1> QED BY <1>2, <1>3, <1>4, <1>5, <1>6, <1>8, <1>9, <1>10, <1>11 DEF Next

(* The tally by commander and the one that decides always agree, and       *)
(* neither counts a friend of the star's owner.                            *)
THEOREM TalliesCorrect == Spec => []TalliesAgree
<1>1. FairBattle => TalliesAgree
  BY DEF FairBattle, LeadIsExact, TalliesAgree, IInv
<1> QED BY <1>1, InitFairBattle, NextFairBattle, PTL DEF Spec

LEMMA AttackFailsShips ==
    ASSUME IInv, AttackFails, NEW side
    PROVE  /\ ShipsOf(side)' <= ShipsOf(side) /\ turn' = turn
           /\ at # None /\ arriving' = arriving
<1>1. TypeOK /\ TypeOK' /\ at \in Stars /\ at # None
  BY AttackFailsIInv, NoneIsNobody DEF IInv, TypeOK, AttackFails, AllLanded
<1>2. /\ ships' = [ships EXCEPT ![at] = @ - Loss] /\ fleet' = NoFleet
      /\ UNCHANGED << owner, flights, arriving, turn >>
  BY DEF AttackFails, NextStar
<1>3. Loss \in Nat /\ ships[at] \in Int
  <2>1. EnemyShips \in Nat /\ Overhead \in Nat
    BY <1>1, EnemyShipsType DEF TypeOK, Overhead
  <2> QED BY <1>1, <2>1 DEF Loss, TypeOK
<1>4. OnStars(side)' = IF at \in Held(side) THEN OnStars(side) - ships[at] + (ships[at] - Loss)
                       ELSE OnStars(side)
  <2>1. ships' = [ships EXCEPT ![at] = ships[at] - Loss] /\ ships[at] - Loss \in Int
    BY <1>2, <1>3
  <2> QED BY <1>1, <1>2, <2>1, OneStarChanges
<1>5. Flying(side)' = Flying(side)
  BY <1>2, SameFlights
<1>6. FleetOf(side)' = 0
  BY <1>2, NoFleetNext
<1>7. OnStars(side)' <= OnStars(side)
  <2>1. OnStars(side) \in Nat
    BY <1>1, PartsNow DEF PartsAddUp
  <2> QED BY <1>3, <1>4, <2>1
<1> QED BY <1>1, <1>2, <1>5, <1>6, <1>7, PartsNow, PartsNext DEF PartsAddUp

(* The heir's side keeps on the star what its fleets have over the other   *)
(* side's, the overhead and the defenders.                                 *)
LEMMA TakeoverShips ==
    ASSUME FairBattle, NEW c \in Commanders, Takeover(c), NEW side \in {0, 1}
    PROVE  /\ ShipsOf(side)' <= ShipsOf(side) /\ turn' = turn
           /\ at # None /\ arriving' = arriving
<1>1. TypeOK /\ TypeOK' /\ at \in Stars /\ at # None /\ IInv
  BY TakeoverIInv, NoneIsNobody DEF FairBattle, IInv, TypeOK, Takeover, AllLanded
<1> DEFINE left == EnemyShips - Overhead - ships[at]
           S == Held(side) \ {at}
           g == ships'
<1>2. /\ owner' = [owner EXCEPT ![at] = c]
      /\ g = [ships EXCEPT ![at] = left] /\ fleet' = NoFleet
      /\ c \in Heirs /\ UNCHANGED << flights, arriving, turn >>
  BY DEF Takeover, NextStar
<1>3. ships[at] \in Nat /\ EnemyShips \in Nat /\ Overhead \in Nat /\ left \in Int
  BY <1>1, EnemyShipsType DEF TypeOK, Overhead
<1>4. at \in Held(Side[c]) => FALSE
  BY <1>1, <1>2, NoneIsNobody DEF Held, IInv, AttackersAreEnemies, Heirs
<1>5. Held(side)' = IF Side[c] = side THEN S \cup {at} ELSE S
  BY <1>1, <1>2, NoneIsNobody DEF Held, TypeOK
<1>6. /\ IsFiniteSet(S) /\ at \notin S /\ NumbersOn(ships, S) /\ NumbersOn(g, S)
      /\ \A s \in S : g[s] = ships[s]
  BY <1>1, <1>2, HeldIsFinite, FS_Subset DEF TypeOK, NumbersOn
<1>7. g[at] = left
  BY <1>1, <1>2 DEF TypeOK
<1>8. /\ SumFunctionOnSet(g, S) = SumFunctionOnSet(ships, S)
      /\ SumFunctionOnSet(ships, S) \in Nat
      /\ SumFunctionOnSet(g, S \cup {at}) = SumFunctionOnSet(ships, S) + left
  <2>1. \A s \in S : ships[s] \in Nat
    BY <1>1, HeldIsFinite DEF TypeOK
  <2> HIDE DEF S, g, left
  <2>2. SumFunctionOnSet(g, S) = SumFunctionOnSet(ships, S)
    BY <1>6, SumOfSame
  <2>3. SumFunctionOnSet(g, S \cup {at}) = SumFunctionOnSet(g, S) + g[at]
    BY <1>3, <1>6, <1>7, SumOverOneMore
  <2> QED BY <1>6, <1>7, <2>1, <2>2, <2>3, SumIsNat
<1>9. SumFunctionOnSet(ships, S) <= OnStars(side)
  <2>1. CASE at \in Held(side)
    <3>1. Held(side) = S \cup {at}
      BY <2>1
    <3> HIDE DEF S
    <3>2. SumFunctionOnSet(ships, S \cup {at}) = SumFunctionOnSet(ships, S) + ships[at]
      BY <1>3, <1>6, SumOverOneMore
    <3> QED BY <1>3, <1>8, <3>1, <3>2 DEF OnStars
  <2>2. CASE at \notin Held(side)
    <3>1. Held(side) = S
      BY <2>2
    <3> HIDE DEF S
    <3> QED BY <1>8, <3>1 DEF OnStars
  <2> QED BY <2>1, <2>2
<1>10. OnStars(side)' = IF Side[c] = side THEN SumFunctionOnSet(ships, S) + left
                        ELSE SumFunctionOnSet(ships, S)
  BY <1>5, <1>8 DEF OnStars
<1>11. Flying(side)' = Flying(side) /\ FleetOf(side)' = 0
  BY <1>2, SameFlights, NoFleetNext
<1>12. FleetOf(0) \in Nat /\ FleetOf(1) \in Nat /\ lead = FleetOf(0) - FleetOf(1)
  BY <1>1, PartsNow DEF PartsAddUp, FairBattle, LeadIsExact
<1>13. Side[c] = side => left <= FleetOf(side)
  <2>1. Side[c] = CapturingSide
    BY <1>2 DEF Heirs
  <2>2. Side[c] = side => EnemyShips <= FleetOf(side)
    BY <1>12, <2>1 DEF CapturingSide, EnemyShips
  <2> QED BY <1>3, <1>12, <2>2
<1> HIDE DEF left, S, g
<1>14. OnStars(side)' <= OnStars(side) + FleetOf(side)
  <2>1. OnStars(side) \in Nat /\ FleetOf(side) \in Nat
    BY <1>1, PartsNow DEF PartsAddUp
  <2> QED BY <1>3, <1>8, <1>9, <1>10, <1>13, <2>1
<1> QED BY <1>1, <1>2, <1>11, <1>14, PartsNow, PartsNext DEF PartsAddUp

LEMMA NextShips ==
    FairBattle /\ [Next]_vars =>
      \/ UNCHANGED vars
      \/ \A side \in {0, 1} :
           /\ ShipsOf(side)' <= ShipsOf(side) + IF turn' = turn THEN 0 ELSE Yield(side)
           /\ (at = None \/ arriving' # arriving) => ShipsOf(side)' >= ShipsOf(side)
<1> SUFFICES ASSUME FairBattle, [Next]_vars, ~ UNCHANGED vars, NEW side \in {0, 1}
             PROVE  /\ ShipsOf(side)' <= ShipsOf(side) + IF turn' = turn THEN 0 ELSE Yield(side)
                    /\ (at = None \/ arriving' # arriving) => ShipsOf(side)' >= ShipsOf(side)
  OBVIOUS
<1>1. IInv /\ TypeOK /\ TypeOK'
  BY NextIInv DEF FairBattle, IInv
<1>2. ShipsOf(side) \in Nat /\ ShipsOf(side)' \in Nat
  BY <1>1, PartsNow, PartsNext DEF PartsAddUp
<1>3. ASSUME NEW c \in Commanders, NEW s \in Stars, NEW t \in Stars,
             NEW n \in OrderSizes, Fly(c, s, t, n)
      PROVE  ShipsOf(side)' = ShipsOf(side) /\ turn' = turn
  BY <1>1, <1>3, FlyShips
<1>4. CASE AdvanceTurn
  BY <1>1, <1>2, <1>4, AdvanceTurnShips
<1>5. ASSUME NEW f \in arriving, Reinforce(f) \/ Attack(f)
      PROVE  ShipsOf(side)' = ShipsOf(side) /\ turn' = turn
  BY <1>1, <1>5, ReinforceShips, AttackShips
<1>6. CASE AttackFails
  BY <1>1, <1>2, <1>6, AttackFailsShips
<1>7. ASSUME NEW c \in Commanders, Takeover(c)
      PROVE  /\ ShipsOf(side)' <= ShipsOf(side) /\ turn' = turn
             /\ at # None /\ arriving' = arriving
  BY <1>7, TakeoverShips
<1>8. CASE NoHeir
  <2>1. UNCHANGED << owner, ships, flights, arriving, fleet, turn >>
    BY <1>8 DEF NoHeir
  <2>2. /\ OnStars(side)' = OnStars(side) /\ Flying(side)' = Flying(side)
        /\ FleetOf(side)' = FleetOf(side)
    BY <2>1, SameStars, SameFlights, SameFleets
  <2>3. ShipsOf(side)' = ShipsOf(side) /\ turn' = turn
    BY <1>1, <2>1, <2>2, PartsNow, PartsNext DEF PartsAddUp
  <2> QED BY <1>2, <2>3
<1> QED BY <1>2, <1>3, <1>4, <1>5, <1>6, <1>7, <1>8 DEF Next

(* In a game of any size no side ever comes by ships but by production, or *)
(* loses one outside a battle.                                             *)
THEOREM ShipsCorrect == Spec => ShipsAreAccountedFor
<1> QED BY InitFairBattle, NextFairBattle, NextShips, PTL DEF Spec, ShipsAreAccountedFor
=============================================================================
