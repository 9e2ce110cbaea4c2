-------------------------- MODULE TournamentProofs --------------------------
(***************************************************************************)
(* Proofs about Tournament for any number of teams, rounds, threads, games *)
(* per team and failures: its inductive invariant IInv, the properties     *)
(* that follow from it, and that it implements RoundTables.                *)
(***************************************************************************)
EXTENDS Tournament, FiniteSetTheorems, FunctionTheorems, WellFoundedInduction,
        TLAPS

-----------------------------------------------------------------------------
(* Sums                                                                    *)

(* The function SumFunction computes with: the sum over each subset.       *)
PickOf(s) == CHOOSE x \in s : TRUE
IsPartialSums(g, f) ==
    g = [s \in SUBSET DOMAIN f |->
           IF s = {} THEN 0 ELSE f[PickOf(s)] + g[s \ {PickOf(s)}]]
PartialSums(f) == CHOOSE g : IsPartialSums(g, f)

LEMMA SumFunctionDef ==
    ASSUME NEW f
    PROVE  SumFunction(f) = PartialSums(f)[DOMAIN f]
BY DEF SumFunction, SumFunctionOnSet, FoldFunctionOnSet, MapThenFoldSet,
       PartialSums, IsPartialSums, PickOf

LEMMA PickOfSmaller ==
    ASSUME NEW S, IsFiniteSet(S), NEW s \in SUBSET S, s # {}
    PROVE  /\ PickOf(s) \in S
           /\ s \ {PickOf(s)} \in SUBSET S
           /\ Cardinality(s) \in Nat \ {0}
           /\ Cardinality(s \ {PickOf(s)}) = Cardinality(s) - 1
<1>1. PickOf(s) \in s
  BY DEF PickOf
<1>2. IsFiniteSet(s)
  BY FS_Subset
<1>. QED  BY <1>1, <1>2, FS_RemoveElement, FS_CardinalityType, FS_EmptySet

(* Every set of natural numbers but the empty one has a smallest element.  *)
LEMMA SmallestNat ==
    ASSUME NEW T, T \subseteq Nat, T # {}
    PROVE  \E m \in T : \A n \in T : m <= n
<1>1. PICK m \in T : \A n \in T : ~ (<< n, m >> \in OpToRel(<, Nat))
  BY WFMin, NatLessThanWellFounded
<1>2. \A n \in T : ~ (n < m)
  BY <1>1 DEF OpToRel
<1>. QED  BY <1>2

(* A sum of integers is an integer.                                        *)
LEMMA SumIsInt ==
    ASSUME NEW S, IsFiniteSet(S), NEW f \in [S -> Int]
    PROVE  SumFunction(f) \in Int
<1> DEFINE Step(g, s) == IF s = {} THEN 0 ELSE f[PickOf(s)] + g[s \ {PickOf(s)}]
           Upto(n) == \E g \in [SUBSET S -> Int] :
                        \A s \in SUBSET S : Cardinality(s) <= n => g[s] = Step(g, s)
           Bad == {n \in Nat : ~ Upto(n)}
<1>1. Upto(0)
  <2> DEFINE z == [s \in SUBSET S |-> 0]
  <2>1. \A s \in SUBSET S : s # {} => Cardinality(s) \in Nat \ {0}
    BY PickOfSmaller
  <2>2. z \in [SUBSET S -> Int]
    OBVIOUS
  <2>3. ASSUME NEW s \in SUBSET S, Cardinality(s) <= 0
        PROVE  z[s] = Step(z, s)
    BY <2>1, <2>3
  <2>. QED  BY <2>2, <2>3
<1>2. ASSUME NEW n \in Nat, Upto(n)
      PROVE  Upto(n + 1)
  <2>1. PICK g \in [SUBSET S -> Int] :
               \A s \in SUBSET S : Cardinality(s) <= n => g[s] = Step(g, s)
    BY <1>2
  <2> DEFINE h == [s \in SUBSET S |-> Step(g, s)]
  <2>2. h \in [SUBSET S -> Int]
    <3>1. \A s \in SUBSET S :
             s # {} => PickOf(s) \in S /\ s \ {PickOf(s)} \in SUBSET S
      BY PickOfSmaller
    <3>. QED  BY <3>1
  <2>3. ASSUME NEW s \in SUBSET S, Cardinality(s) <= n + 1
        PROVE  h[s] = Step(h, s)
    <3>1. CASE s = {}
      BY <3>1
    <3>2. CASE s # {}
      <4> DEFINE q == s \ {PickOf(s)}
      <4>1. q \in SUBSET S /\ Cardinality(q) <= n
        BY <3>2, <2>3, PickOfSmaller
      <4>2. h[q] = g[q]
        BY <4>1, <2>1
      <4>. QED  BY <4>2, <3>2
    <3>. QED  BY <3>1, <3>2
  <2>. QED  BY <2>2, <2>3
<1>3. Bad = {}
  <2>1. SUFFICES ASSUME Bad # {} PROVE FALSE
    OBVIOUS
  <2> HIDE DEF Upto
  <2>2. PICK m \in Bad : \A k \in Bad : m <= k
    BY <2>1, SmallestNat
  <2>3. m \in Nat \ {0} /\ ~ Upto(m)
    BY <1>1, <2>2
  <2>4. m - 1 \in Nat /\ ~ (m <= m - 1) /\ (m - 1) + 1 = m
    BY <2>3
  <2>5. Upto(m - 1)
    BY <2>2, <2>4
  <2>6. Upto((m - 1) + 1)
    BY <2>4, <2>5, <1>2
  <2>. QED  BY <2>3, <2>4, <2>6
<1>4. PICK g \in [SUBSET S -> Int] : \A s \in SUBSET S : g[s] = Step(g, s)
  <2>1. Cardinality(S) \in Nat
    BY FS_CardinalityType
  <2>2. \A s \in SUBSET S : Cardinality(s) <= Cardinality(S)
    BY FS_Subset
  <2>3. Upto(Cardinality(S))
    BY <1>3, <2>1 DEF Bad
  <2>. QED  BY <2>2, <2>3
<1>5. IsPartialSums(g, f)
  BY <1>4 DEF IsPartialSums
<1> DEFINE p == PartialSums(f)
<1>6. IsPartialSums(p, f)
  BY <1>5 DEF PartialSums
<1>7. \A s \in SUBSET S : p[s] = Step(p, s)
  BY <1>6 DEF IsPartialSums
<1> HIDE DEF p
<1> DEFINE Off == {n \in Nat : \E s \in SUBSET S : Cardinality(s) = n /\ p[s] # g[s]}
<1>8. Off = {}
  <2>1. SUFFICES ASSUME Off # {} PROVE FALSE
    OBVIOUS
  <2>2. PICK m \in Off : \A k \in Off : m <= k
    <3> HIDE DEF Off
    <3>1. Off \subseteq Nat
      BY DEF Off
    <3>. QED  BY <2>1, <3>1, SmallestNat
  <2>3. PICK s \in SUBSET S : Cardinality(s) = m /\ p[s] # g[s]
    BY <2>2
  <2>4. s # {}
    BY <2>3, <1>7, <1>4
  <2> DEFINE q == s \ {PickOf(s)}
  <2>5. q \in SUBSET S /\ Cardinality(q) = m - 1 /\ m - 1 \in Nat
    BY <2>3, <2>4, PickOfSmaller
  <2>6. m \in Nat /\ ~ (m <= m - 1)
    BY <2>2
  <2>7. p[q] = g[q]
    BY <2>2, <2>5, <2>6
  <2>. QED  BY <2>3, <2>4, <2>7, <1>7, <1>4
<1>9. p[S] = g[S]
  BY <1>8, FS_CardinalityType
<1>. QED  BY <1>9, SumFunctionDef DEF p

-----------------------------------------------------------------------------
(* Constants, and what the tables say                                      *)

LEMMA ConstantTypes ==
    /\ NoTeams \in [Teams -> 0 .. MaxUploads]
    /\ NoTeams \in [Teams -> Nat]
    /\ NoTeams \in GainType
    /\ START_ELO \in Int /\ NoElo \in Int
    /\ None \notin Slots /\ None \notin Rounds
    /\ Slots # {}
BY TournamentAssumption DEF NoTeams, None, GainType, START_ELO, NoElo, UNRATED,
   Slots, Rounds

LEMMA FreeSlotTypes ==
    /\ FreeSlot \in SlotType /\ FreeSlot.pc = "completed"
    /\ FaultedSlot \in SlotType /\ FaultedSlot.pc = "faulted"
    /\ FreeSlots \in [Slots -> SlotType]
    /\ \A k \in Slots : FreeSlots[k].pc = "completed"
BY ConstantTypes DEF FreeSlot, FaultedSlot, FreeSlots, SlotType, SlotStates, None

LEMMA NoRoundType ==
    /\ NoRound \in RoundType
    /\ NoRound.id = None
BY ConstantTypes DEF NoRound, RoundType

LEMMA RowsFinite ==
    ASSUME NEW rows \in Seq(RowType)
    PROVE  IsFiniteSet(DOMAIN rows)
<1>1. DOMAIN rows = 1 .. Len(rows) /\ Len(rows) \in Nat
  OBVIOUS
<1>. QED  BY <1>1, FS_Interval

(* A table of games is finite, and so are the games of a round.            *)
LEMMA GamesFinite ==
    ASSUME game \in Seq(RowType), NEW r, NEW t
    PROVE  /\ IsFiniteSet(PlayedGames(r)) /\ Cardinality(PlayedGames(r)) \in Nat
           /\ IsFiniteSet(GamesOf(r, t)) /\ Cardinality(GamesOf(r, t)) \in Nat
<1>1. IsFiniteSet(DOMAIN game)
  BY FS_Interval
<1>2. PlayedGames(r) \subseteq DOMAIN game /\ GamesOf(r, t) \subseteq DOMAIN game
  BY DEF PlayedGames, GamesOf
<1>. QED  BY <1>1, <1>2, FS_Subset, FS_CardinalityType

LEMMA ProductIsNat == \A m, n \in Nat : m * n \in Nat
OBVIOUS

LEMMA HalfIsNat ==
    ASSUME NEW E \in SUBSET Teams
    PROVE  (Cardinality(E) * Desired) \div 2 \in Nat
<1>1. Cardinality(E) \in Nat
  BY TournamentAssumption, FS_Subset, FS_CardinalityType
<1>2. Cardinality(E) * Desired \in Nat
  BY <1>1, ProductIsNat, TournamentAssumption
<1>3. \A m \in Nat : m \div 2 \in Nat
  OBVIOUS
<1>. QED  BY <1>2, <1>3

LEMMA GamesToRunType == \A r : GamesToRun(r) \in Nat
<1>1. \A r : Entered(r) \subseteq Teams
  BY DEF Entered
<1>. QED  BY <1>1, HalfIsNat DEF GamesToRun

(* Ratings are numbers.                                                    *)
LEMMA RecoveredEloType ==
    ASSUME game \in Seq(RowType), elo \in [Rounds -> [Teams -> Int]],
           NEW r, NEW t \in Teams
    PROVE  RecoveredElo(r, t) \in Int
<1>1. StartingElo(r, t) \in Int
  BY ConstantTypes DEF StartingElo
<1> DEFINE won == [g \in GamesOf(r, t) |-> game[g].gain[t]]
<1>2. won \in [GamesOf(r, t) -> Int]
  <2>1. ASSUME NEW g \in DOMAIN game
        PROVE  game[g].gain[t] \in Int
    <3>1. game[g] \in RowType
      OBVIOUS
    <3>. QED  BY <3>1 DEF RowType, GainType
  <2>2. GamesOf(r, t) \subseteq DOMAIN game
    BY DEF GamesOf, PlayedGames
  <2>. QED  BY <2>1, <2>2
<1>3. SumFunction(won) \in Int
  BY <1>2, GamesFinite, SumIsInt
<1>. QED  BY <1>1, <1>3 DEF RecoveredElo

-----------------------------------------------------------------------------
(* What a step leaves alone                                                *)

LEMMA SameTables ==
    ASSUME UNCHANGED << started, ended, roster, elo, listed, game >>
    PROVE  /\ Active' = Active
           /\ \A r : /\ PlayedGames(r)' = PlayedGames(r)
                     /\ Entered(r)' = Entered(r)
                     /\ GamesToRun(r)' = GamesToRun(r)
           /\ RoundsInOrder => RoundsInOrder'
           /\ ResultsAccountForGames => ResultsAccountForGames'
<1>1. \A r : Entered(r)' = Entered(r) /\ PlayedGames(r)' = PlayedGames(r)
  BY DEF Entered, PlayedGames
<1>2. \A r : GamesToRun(r)' = GamesToRun(r)
  BY <1>1 DEF GamesToRun
<1>3. \A r, t : GamesOf(r, t)' = GamesOf(r, t)
  BY <1>1 DEF GamesOf
<1>4. \A r, t : StartingElo(r, t)' = StartingElo(r, t)
  BY <1>1 DEF StartingElo
<1>5. ASSUME NEW r, NEW t
      PROVE  RecoveredElo(r, t)' = RecoveredElo(r, t)
  <2>1. [g \in GamesOf(r, t)' |-> game'[g].gain[t]]
          = [g \in GamesOf(r, t) |-> game[g].gain[t]]
    BY <1>3
  <2>. QED  BY <1>4, <2>1 DEF RecoveredElo
<1>6. ResultsAccountForGames => ResultsAccountForGames'
  BY <1>1, <1>3, <1>5 DEF ResultsAccountForGames
<1>7. RoundsInOrder => RoundsInOrder'
  BY DEF RoundsInOrder
<1>. QED  BY <1>1, <1>2, <1>6, <1>7 DEF Active

(* A round stays whole while its games do.                                 *)
LEMMA StaysWhole ==
    ASSUME IInv, UNCHANGED << started, ended, roster, game >>,
           failures' \in Nat, failures <= failures'
    PROVE  RoundsAreWhole'
<1>1. \A r : /\ PlayedGames(r)' = PlayedGames(r)
             /\ GamesToRun(r)' = GamesToRun(r)
  BY DEF Entered, PlayedGames, GamesToRun
<1>2. \A r : Cardinality(PlayedGames(r)) \in Nat /\ GamesToRun(r) \in Nat
  BY GamesFinite, GamesToRunType DEF IInv, TypeOK
<1>3. failures \in Nat
  BY TournamentAssumption DEF IInv, TypeOK
<1>. QED  BY <1>1, <1>2, <1>3 DEF IInv, RoundsAreWhole

(* A task is in step as long as it is left alone, its row with it.         *)
LEMMA TaskStays ==
    ASSUME NEW k \in Slots, TaskInStep(k),
           slot'[k] = slot[k], (sem' = k) <=> (sem = k),
           Underway(k) => UNCHANGED << roster, round.id >>,
           HasRow(k) => /\ slot[k].id \in DOMAIN game'
                        /\ game'[slot[k].id] = game[slot[k].id]
                        /\ \A j \in Slots : HasRow(j)' /\ j # k =>
                              slot'[j].id # slot[k].id
    PROVE  TaskInStep(k)'
<1>1. /\ HasRow(k)' <=> HasRow(k)
      /\ Underway(k)' <=> Underway(k)
      /\ HasRow(k) => Underway(k)
  BY DEF HasRow, Underway
<1>2. Underway(k) => Entered(round.id)' = Entered(round.id)
  BY DEF Entered
<1>. QED  BY <1>1, <1>2 DEF TaskInStep

LEMMA IdleInStep ==
    ASSUME NEW k \in Slots, slot[k].pc \in {"completed", "faulted", "selecting"},
           sem # k
    PROVE  TaskInStep(k)
BY DEF TaskInStep, Underway, HasRow

LEMMA SlotsFinite == IsFiniteSet(Slots)
BY TournamentAssumption, FS_Interval DEF Slots

LEMMA InHandFinite == IsFiniteSet(InHand) /\ Cardinality(InHand) \in Nat
BY SlotsFinite, FS_Subset, FS_CardinalityType DEF InHand

-----------------------------------------------------------------------------
(* The initial states                                                      *)

LEMMA InitIInv == Init => IInv
<1> SUFFICES ASSUME Init PROVE IInv
  OBVIOUS
<1> USE TournamentAssumption, ConstantTypes, FreeSlotTypes, NoRoundType
<1>1. TypeOK
  BY DEF Init, TypeOK
<1>2. RoundsInOrder /\ ResultsAccountForGames /\ RoundsAreWhole
  BY DEF Init, RoundsInOrder, ResultsAccountForGames, RoundsAreWhole
<1>3. LoopInStep
  BY DEF Init, LoopInStep, AllOver, Over, NoTeams, None, TypeOK
<1>4. \A k \in Slots : TaskInStep(k)
  BY IdleInStep DEF Init
<1>5. GamesAreCounted
  BY DEF Init, GamesAreCounted
<1>. QED  BY <1>1, <1>2, <1>3, <1>4, <1>5 DEF IInv, EngineInStep

-----------------------------------------------------------------------------
(* The outside, and the steps of the loop that leave the tables alone      *)

LEMMA QuietIInv ==
    ASSUME IInv, TypeOK', LoopInStep',
           UNCHANGED << started, ended, roster, elo, listed, game, round, slot,
                        sem >>,
           failures <= failures',
           pc' \in {"running", "finishing"} => pc \in {"running", "finishing"}
    PROVE  IInv'
<1>1. failures \in Nat /\ failures' \in Nat
  BY TournamentAssumption DEF IInv, TypeOK
<1>2. RoundsInOrder' /\ ResultsAccountForGames'
  BY SameTables DEF IInv, EngineInStep
<1>3. RoundsAreWhole'
  BY StaysWhole, <1>1
<1>4. ASSUME NEW k \in Slots
      PROVE  TaskInStep(k)'
  <2>1. TaskInStep(k)
    BY DEF IInv, EngineInStep
  <2>2. HasRow(k) => \A j \in Slots : HasRow(j)' /\ j # k =>
                        slot'[j].id # slot[k].id
    BY <2>1 DEF TaskInStep, HasRow
  <2>3. HasRow(k) => slot[k].id \in DOMAIN game'
    BY <2>1 DEF TaskInStep
  <2>. QED  BY <2>1, <2>2, <2>3, TaskStays
<1>5. GamesAreCounted'
  <2>1. /\ PlayedGames(round.id)' = PlayedGames(round.id)
        /\ Entered(round.id)' = Entered(round.id)
        /\ Quota' = Quota
        /\ InHand' = InHand
    BY SameTables DEF Quota, InHand, Over
  <2>2. /\ Cardinality(PlayedGames(round.id)) \in Nat
        /\ Cardinality(InHand) \in Nat
        /\ round.numGames \in Nat
    BY GamesFinite, InHandFinite DEF IInv, TypeOK, RoundType
  <2>3. CASE pc' \in {"running", "finishing"}
    BY <1>1, <2>1, <2>2, <2>3 DEF IInv, EngineInStep, GamesAreCounted
  <2>. QED  BY <2>3 DEF GamesAreCounted
<1>. QED  BY <1>2, <1>3, <1>4, <1>5 DEF IInv, EngineInStep

LEMMA ScheduleReachedIInv ==
    ASSUME IInv, NEW r \in Rounds, ScheduleReached(r)
    PROVE  IInv'
<1> USE DEF ScheduleReached
<1>1. TypeOK'
  BY DEF IInv, TypeOK
<1>2. LoopInStep'
  BY DEF IInv, EngineInStep, LoopInStep, Active, AllOver, Over, At, Quota,
         GamesToRun, Entered
<1>3. failures <= failures'
  BY TournamentAssumption DEF IInv, TypeOK
<1>. QED  BY <1>1, <1>2, <1>3, QuietIInv

LEMMA BinaryValidatedIInv ==
    ASSUME IInv, NEW t \in Teams, BinaryValidated(t)
    PROVE  IInv'
<1> USE DEF BinaryValidated
<1>1. TypeOK'
  BY TournamentAssumption DEF IInv, TypeOK
<1>2. LoopInStep'
  <2>1. \A u \in Teams : plan[u] <= binary'[u]
    BY DEF IInv, EngineInStep, LoopInStep, TypeOK
  <2>. QED  BY <2>1 DEF IInv, EngineInStep, LoopInStep, Active, AllOver, Over,
                        At, Quota, GamesToRun, Entered
<1>3. failures <= failures'
  BY TournamentAssumption DEF IInv, TypeOK
<1>. QED  BY <1>1, <1>2, <1>3, QuietIInv

LEMMA ConnectIInv == ASSUME IInv, Connect PROVE IInv'
<1> USE DEF Connect, tables
<1>1. TypeOK'
  BY DEF IInv, TypeOK
<1>2. LoopInStep'
  BY DEF IInv, EngineInStep, LoopInStep, AllOver, Over
<1>3. failures <= failures'
  BY TournamentAssumption DEF IInv, TypeOK
<1>. QED  BY <1>1, <1>2, <1>3, QuietIInv

LEMMA ResumeRoundIInv == ASSUME IInv, ResumeRound PROVE IInv'
<1> USE DEF ResumeRound, tables
<1>1. TypeOK'
  BY DEF IInv, TypeOK
<1>2. LoopInStep'
  BY DEF IInv, EngineInStep, LoopInStep, AllOver, Over
<1>3. failures <= failures'
  BY TournamentAssumption DEF IInv, TypeOK
<1>. QED  BY <1>1, <1>2, <1>3, QuietIInv

LEMMA PlanRoundIInv == ASSUME IInv, PlanRound PROVE IInv'
<1> USE DEF PlanRound, tables
<1>1. PICK r : plan' = [t \in Teams |-> IF t \in Qualified(r) THEN binary[t]
                                                              ELSE None]
  OBVIOUS
<1>2. \A t \in Teams : plan'[t] \in 0 .. MaxUploads /\ plan'[t] <= binary[t]
  BY <1>1, TournamentAssumption DEF IInv, TypeOK, None
<1>3. TypeOK'
  BY <1>1, <1>2 DEF IInv, TypeOK
<1>4. LoopInStep'
  BY <1>2 DEF IInv, EngineInStep, LoopInStep, AllOver, Over, NoRoundActive, Active
<1>5. failures <= failures'
  BY TournamentAssumption DEF IInv, TypeOK
<1>. QED  BY <1>3, <1>4, <1>5, QuietIInv

(* Every exception of the loop, and the death of the process.              *)
LEMMA ForgetIInv ==
    ASSUME IInv, Forget, UNCHANGED tables,
           failures' \in 0 .. MaxFailures, failures <= failures'
    PROVE  IInv'
<1> USE ConstantTypes, NoRoundType, FreeSlotTypes DEF Forget, tables
<1>1. TypeOK'
  BY DEF IInv, TypeOK
<1>2. RoundsInOrder' /\ ResultsAccountForGames'
  BY SameTables DEF IInv, EngineInStep
<1>3. RoundsAreWhole'
  BY StaysWhole, TournamentAssumption
<1>4. LoopInStep'
  <2>1. \A t \in Teams : plan'[t] <= binary'[t]
    BY DEF NoTeams, None, IInv, TypeOK
  <2>. QED  BY <2>1 DEF LoopInStep, AllOver, Over
<1>5. \A k \in Slots : TaskInStep(k)'
  BY DEF TaskInStep, Underway, HasRow
<1>6. GamesAreCounted'
  BY DEF GamesAreCounted
<1>. QED  BY <1>1, <1>2, <1>3, <1>4, <1>5, <1>6 DEF IInv, EngineInStep

LEMMA FailureBound ==
    ASSUME IInv, MayFail
    PROVE  failures' \in 0 .. MaxFailures /\ failures <= failures'
BY TournamentAssumption DEF MayFail, IInv, TypeOK

LEMMA DatabaseFailsIInv == ASSUME IInv, DatabaseFails PROVE IInv'
BY ForgetIInv, FailureBound DEF DatabaseFails

LEMMA CrashIInv == ASSUME IInv, Crash PROVE IInv'
BY ForgetIInv, FailureBound DEF Crash

(* Every task counted is over, so that those missing are the failed ones.  *)
LEMMA AwaitGamesIInv == ASSUME IInv, AwaitGames PROVE IInv'
<1> USE DEF AwaitGames, tables
<1>1. failures \in 0 .. MaxFailures /\ failures <= failures
  BY TournamentAssumption DEF IInv, TypeOK
<1>2. CASE \E k \in Slots : slot[k].pc = "faulted"
  BY <1>1, <1>2, ForgetIInv
<1>3. CASE ~ \E k \in Slots : slot[k].pc = "faulted"
  <2>1. TypeOK'
    BY <1>3 DEF IInv, TypeOK
  <2>2. LoopInStep'
    <3>1. \A k \in Slots : At(k, "completed")
      BY <1>3 DEF AllOver, Over, At
    <3>. QED  BY <1>3, <3>1 DEF IInv, EngineInStep, LoopInStep, Active, AllOver,
                                Over, At, Quota, GamesToRun, Entered
  <2>. QED  BY <1>1, <1>3, <2>1, <2>2, QuietIInv
<1>. QED  BY <1>2, <1>3

-----------------------------------------------------------------------------
(* The steps of the loop that start, recover and finish a round            *)

(* There is one active round at most.                                      *)
LEMMA OneActive ==
    ASSUME TypeOK, RoundsInOrder, NEW q \in Active, NEW r \in Active
    PROVE  q = r
<1>1. q \in started \ ended /\ r \in started \ ended /\ started \subseteq Rounds
  BY DEF Active, TypeOK
<1>2. ~ (q < r) /\ ~ (r < q)
  BY <1>1 DEF RoundsInOrder
<1>. QED  BY <1>1, <1>2 DEF Rounds

LEMMA StartRoundIInv == ASSUME IInv, StartRound PROVE IInv'
<1> USE DEF StartRound
<1>1. PICK r \in NextUnstarted : /\ roster' = [roster EXCEPT ![r] = plan]
                                 /\ started' = started \cup {r}
  OBVIOUS
<1>2. /\ r \in Rounds \ started
      /\ \A q \in Rounds \ started : r <= q
      /\ started = ended
  BY DEF NextUnstarted, IInv, EngineInStep, LoopInStep, Active, TypeOK
<1>3. TypeOK'
  BY <1>1, <1>2, ConstantTypes DEF IInv, TypeOK
<1>4. RoundsInOrder'
  <2>1. \A q \in Rounds : q < r => q \in ended
    BY <1>2 DEF Rounds
  <2>. QED  BY <1>1, <2>1 DEF IInv, EngineInStep, RoundsInOrder
<1>5. LoopInStep'
  <2>1. /\ \A t \in Teams : plan'[t] <= binary'[t]
        /\ pc' = "recovering" /\ AllOver'
    BY DEF NoTeams, None, IInv, TypeOK, EngineInStep, LoopInStep, AllOver, Over
  <2>2. round.id # None => round.id \in started /\ round.entrant = roster[round.id]
    BY DEF IInv, EngineInStep, LoopInStep
  <2>3. round.id # None => roster'[round.id] = roster[round.id]
    BY <1>1, <1>2, <2>2 DEF IInv, TypeOK
  <2>. QED  BY <1>1, <2>1, <2>2, <2>3 DEF LoopInStep
<1>6. ASSUME NEW k \in Slots
      PROVE  TaskInStep(k)'
  BY DEF IInv, EngineInStep, LoopInStep, AllOver, Over, TaskInStep, Underway, HasRow
<1>7. GamesAreCounted'
  BY DEF GamesAreCounted
(* Rounds before the new one keep their tables.                            *)
<1>8. \A q : PlayedGames(q)' = PlayedGames(q)
  BY DEF PlayedGames
<1>9. \A q \in started : Entered(q)' = Entered(q) /\ GamesToRun(q)' = GamesToRun(q)
  <2>1. \A q \in started : Entered(q)' = Entered(q)
    BY <1>1, <1>2 DEF Entered, IInv, TypeOK
  <2>. QED  BY <2>1 DEF GamesToRun
<1>10. ResultsAccountForGames'
  <2>1. SUFFICES ASSUME NEW q \in ended, NEW t \in Teams, t \in Entered(q)'
                 PROVE  (elo[q][t] = RecoveredElo(q, t) /\ listed[q][t] = GamesOf(q, t))'
    BY DEF ResultsAccountForGames
  <2>2. q \in started /\ q \in Rounds
    BY DEF IInv, TypeOK
  <2>3. GamesOf(q, t)' = GamesOf(q, t)
    BY <1>8 DEF GamesOf
  <2>4. StartingElo(q, t)' = StartingElo(q, t)
    <3>1. CASE q - 1 \in Rounds
      <4>1. q - 1 \in started
        BY <2>2, <3>1, <1>2 DEF IInv, EngineInStep, RoundsInOrder, Rounds
      <4>. QED  BY <4>1, <1>9 DEF StartingElo
    <3>2. CASE q - 1 \notin Rounds
      BY <3>2 DEF StartingElo
    <3>. QED  BY <3>1, <3>2
  <2>5. [g \in GamesOf(q, t)' |-> game'[g].gain[t]]
          = [g \in GamesOf(q, t) |-> game[g].gain[t]]
    BY <2>3
  <2>6. RecoveredElo(q, t)' = RecoveredElo(q, t)
    BY <2>4, <2>5 DEF RecoveredElo
  <2>7. t \in Entered(q)
    BY <2>1, <2>2, <1>9
  <2>. QED  BY <2>3, <2>6, <2>7 DEF IInv, ResultsAccountForGames
<1>11. RoundsAreWhole'
  <2>1. PlayedGames(r) = {}
    BY <1>2 DEF PlayedGames, IInv, EngineInStep, RoundsInOrder
  <2>2. Cardinality(PlayedGames(r)') = 0 /\ r \notin ended
    BY <1>2, <1>8, <2>1, FS_EmptySet
  <2>3. GamesToRun(r)' \in Nat
    <3>1. Entered(r)' \subseteq Teams
      BY DEF Entered
    <3>. QED  BY <3>1, HalfIsNat DEF GamesToRun
  <2>. QED  BY <1>1, <1>8, <1>9, <2>2, <2>3 DEF IInv, RoundsAreWhole
<1>. QED  BY <1>3, <1>4, <1>5, <1>6, <1>7, <1>10, <1>11 DEF IInv, EngineInStep

LEMMA RecoverIInv == ASSUME IInv, Recover PROVE IInv'
<1> USE DEF Recover, tables
<1>1. PICK r \in Active :
        round' = [id |-> r,
                  entrant |-> roster[r],
                  count |-> [t \in Teams |-> Cardinality(GamesOf(r, t))],
                  numGames |-> Cardinality(PlayedGames(r))]
  OBVIOUS
<1>2. r \in Rounds /\ r \in started /\ roster[r] \in [Teams -> 0 .. MaxUploads]
  BY DEF Active, IInv, TypeOK
<1>3. Cardinality(PlayedGames(r)) \in Nat /\ failures \in Nat
  <2>1. game \in Seq(RowType) /\ failures \in Nat
    BY TournamentAssumption DEF IInv, TypeOK
  <2>. QED  BY <2>1, GamesFinite
<1>4. TypeOK'
  <2>1. [t \in Teams |-> Cardinality(GamesOf(r, t))] \in [Teams -> Nat]
    BY GamesFinite DEF IInv, TypeOK
  <2>2. round' \in RoundType
    BY <1>1, <1>2, <1>3, <2>1 DEF RoundType
  <2>. QED  BY <2>2 DEF IInv, TypeOK
<1>5. RoundsInOrder' /\ ResultsAccountForGames'
  BY SameTables DEF IInv, EngineInStep
<1>6. RoundsAreWhole'
  BY <1>3, StaysWhole
<1>7. LoopInStep'
  BY <1>1, <1>2 DEF IInv, EngineInStep, LoopInStep, Active, AllOver, Over
<1>8. ASSUME NEW k \in Slots
      PROVE  TaskInStep(k)'
  BY DEF IInv, EngineInStep, LoopInStep, AllOver, Over, TaskInStep, Underway, HasRow
<1>9. GamesAreCounted'
  <2>1. InHand' = {}
    BY DEF IInv, EngineInStep, LoopInStep, AllOver, Over, InHand
  <2>2. Cardinality(InHand') = 0
    BY <2>1, FS_EmptySet
  <2>3. round'.id = r /\ round'.numGames = Cardinality(PlayedGames(r))
    BY <1>1
  <2>4. Cardinality(PlayedGames(r)) <= GamesToRun(r)
    BY <1>2, <1>3, GamesToRunType DEF IInv, RoundsAreWhole
  <2>5. PlayedGames(r)' = PlayedGames(r) /\ GamesToRun(r)' = GamesToRun(r)
    BY SameTables
  <2>6. PlayedGames(round.id)' = PlayedGames(r) /\ Quota' = GamesToRun(r)
    BY <2>3, <2>5 DEF PlayedGames, Quota, GamesToRun, Entered
  <2>. QED  BY <1>3, <2>2, <2>3, <2>4, <2>6 DEF GamesAreCounted
<1>. QED  BY <1>4, <1>5, <1>6, <1>7, <1>8, <1>9 DEF IInv, EngineInStep

LEMMA FinishRoundIInv == ASSUME IInv, FinishRound PROVE IInv'
<1> USE DEF FinishRound
<1>1. PICK r \in Active :
        /\ elo' = [elo EXCEPT ![r] = [t \in Teams |->
                     IF t \in Entered(r) THEN RecoveredElo(r, t) ELSE NoElo]]
        /\ listed' = [listed EXCEPT ![r] = [t \in Teams |-> GamesOf(r, t)]]
        /\ ended' = ended \cup {r}
  OBVIOUS
<1>2. r \in Rounds /\ r \in started /\ r \notin ended
  BY DEF Active, IInv, TypeOK
<1>3. TypeOK'
  <2>1. [t \in Teams |-> IF t \in Entered(r) THEN RecoveredElo(r, t) ELSE NoElo]
          \in [Teams -> Int]
    BY RecoveredEloType, ConstantTypes DEF IInv, TypeOK
  <2>2. elo' \in [Rounds -> [Teams -> Int]]
    BY <1>1, <1>2, <2>1 DEF IInv, TypeOK
  <2>3. [t \in Teams |-> GamesOf(r, t)] \in [Teams -> SUBSET (DOMAIN game)]
    BY DEF GamesOf, PlayedGames
  <2>4. listed' \in [Rounds -> [Teams -> SUBSET (DOMAIN game)]]
    BY <1>1, <1>2, <2>3 DEF IInv, TypeOK
  <2>. QED  BY <1>1, <1>2, <2>2, <2>4 DEF IInv, TypeOK
<1>4. RoundsInOrder'
  BY <1>1 DEF IInv, EngineInStep, RoundsInOrder
<1>5. LoopInStep'
  BY DEF IInv, EngineInStep, LoopInStep, AllOver, Over
<1>6. ASSUME NEW k \in Slots
      PROVE  TaskInStep(k)'
  BY DEF IInv, EngineInStep, LoopInStep, AllOver, Over, TaskInStep, Underway, HasRow
<1>7. GamesAreCounted'
  BY DEF GamesAreCounted
<1>8. \A q : /\ PlayedGames(q)' = PlayedGames(q)
             /\ Entered(q)' = Entered(q)
             /\ GamesToRun(q)' = GamesToRun(q)
  BY DEF PlayedGames, Entered, GamesToRun
(* The round before one that ended is never the one that ends now.         *)
<1>9. ResultsAccountForGames'
  <2>1. SUFFICES ASSUME NEW q \in ended', NEW t \in Teams, t \in Entered(q)'
                 PROVE  (elo[q][t] = RecoveredElo(q, t) /\ listed[q][t] = GamesOf(q, t))'
    BY DEF ResultsAccountForGames
  <2>2. q \in started /\ q \in Rounds /\ t \in Entered(q)
    BY <1>1, <1>2, <1>8, <2>1 DEF IInv, TypeOK
  <2>3. GamesOf(q, t)' = GamesOf(q, t)
    BY <1>8 DEF GamesOf
  <2>4. StartingElo(q, t)' = StartingElo(q, t)
    <3>1. q - 1 # r
      BY <1>2, <2>2 DEF IInv, EngineInStep, RoundsInOrder, Rounds
    <3>. QED  BY <1>1, <1>2, <1>8, <2>2, <3>1 DEF StartingElo, IInv, TypeOK
  <2>5. [g \in GamesOf(q, t)' |-> game'[g].gain[t]]
          = [g \in GamesOf(q, t) |-> game[g].gain[t]]
    BY <2>3
  <2>6. RecoveredElo(q, t)' = RecoveredElo(q, t)
    BY <2>4, <2>5 DEF RecoveredElo
  <2>7. elo'[q][t] = RecoveredElo(q, t) /\ listed'[q][t] = GamesOf(q, t)
    <3>1. CASE q = r
      BY <1>1, <1>2, <2>2, <3>1 DEF IInv, TypeOK
    <3>2. CASE q # r
      BY <1>1, <1>2, <2>2, <3>2 DEF IInv, TypeOK, ResultsAccountForGames
    <3>. QED  BY <3>1, <3>2
  <2>. QED  BY <2>3, <2>6, <2>7
<1>10. RoundsAreWhole'
  <2>1. round.id = r
    BY OneActive DEF IInv, EngineInStep, LoopInStep
  <2>2. InHand = {}
    BY DEF IInv, EngineInStep, LoopInStep, AllOver, InHand
  <2>3. Cardinality(InHand) = 0
    BY <2>2, FS_EmptySet
  <2>4. Cardinality(PlayedGames(r)) \in Nat
    <3>1. game \in Seq(RowType)
      BY DEF IInv, TypeOK
    <3>. QED  BY <3>1, GamesFinite
  <2>5. failures \in Nat /\ round.numGames \in Nat /\ GamesToRun(r) \in Nat
    BY TournamentAssumption, GamesToRunType DEF IInv, TypeOK, RoundType
  <2>6. GamesToRun(r) <= Cardinality(PlayedGames(r)) + failures
    BY <2>1, <2>3, <2>4, <2>5
       DEF IInv, EngineInStep, LoopInStep, GamesAreCounted, Quota, At
  <2>7. GamesToRun(r) - Cardinality(PlayedGames(r)) <= failures
    BY <2>4, <2>5, <2>6
  <2>. QED  BY <1>1, <1>8, <2>7 DEF IInv, RoundsAreWhole
<1>. QED  BY <1>3, <1>4, <1>5, <1>6, <1>7, <1>9, <1>10 DEF IInv, EngineInStep

-----------------------------------------------------------------------------
(* A task at work: what becomes of the others, the count and the results   *)

LEMMA OthersStay ==
    ASSUME IInv, NEW k \in Slots,
           \A j \in Slots \ {k} : slot'[j] = slot[j] /\ (sem' = j <=> sem = j),
           UNCHANGED << roster, round.id >>,
           \A g \in DOMAIN game :
              /\ g \in DOMAIN game'
              /\ game'[g] = game[g] \/ (HasRow(k) /\ g = slot[k].id),
           HasRow(k)' => \/ HasRow(k) /\ slot'[k].id = slot[k].id
                         \/ slot'[k].id \notin DOMAIN game,
           NEW j \in Slots, j # k
    PROVE  TaskInStep(j)'
<1>1. \A i \in Slots : TaskInStep(i)
  BY DEF IInv, EngineInStep
<1>2. \A i \in Slots \ {k} : HasRow(i)' <=> HasRow(i)
  BY DEF HasRow
<1>3. HasRow(j) => /\ slot[j].id \in DOMAIN game
                   /\ HasRow(k) => slot[k].id # slot[j].id
                   /\ \A i \in Slots : HasRow(i) /\ i # j => slot[i].id # slot[j].id
  BY <1>1 DEF TaskInStep
<1>4. HasRow(j) => /\ slot[j].id \in DOMAIN game'
                   /\ game'[slot[j].id] = game[slot[j].id]
  BY <1>3
<1>5. HasRow(j) => \A i \in Slots : HasRow(i)' /\ i # j => slot'[i].id # slot[j].id
  BY <1>2, <1>3
<1>. QED  BY <1>1, <1>4, <1>5, TaskStays

Lone == /\ Cardinality(Entered(round.id)) < 2
        /\ \E k \in Slots : slot[k].pc \in {"selecting", "faulted"}

LEMMA CountStays ==
    ASSUME IInv, pc = "running", game' \in Seq(RowType),
           UNCHANGED << pc, roster, round.id, round.numGames >>,
           failures' \in Nat,
           NEW played \in Nat, played = Cardinality(PlayedGames(round.id)'),
           NEW inHand \in Nat, inHand = Cardinality(InHand'),
           NEW known \in Nat,
           known = Cardinality(PlayedGames(round.id)) + Cardinality(InHand),
           played + inHand <= known,
           \/ known + failures <= played + inHand + failures' /\ (Lone => Lone')
           \/ Lone'
    PROVE  GamesAreCounted'
<1>1. failures \in Nat /\ round.numGames \in Nat
  BY TournamentAssumption DEF IInv, TypeOK, RoundType
<1>2. Quota' = Quota /\ Quota \in Nat
  BY GamesToRunType DEF Quota, GamesToRun, Entered
<1>3. /\ known <= round.numGames /\ round.numGames <= Quota
      /\ round.numGames <= known + failures \/ Lone
  BY DEF IInv, EngineInStep, GamesAreCounted, Lone
<1>4. played + inHand <= round.numGames
  BY <1>1, <1>3
<1>5. CASE Lone'
  BY <1>2, <1>3, <1>4, <1>5 DEF GamesAreCounted, Lone
<1>6. CASE ~ Lone'
  <2>1. known + failures <= played + inHand + failures' /\ ~ Lone
    BY <1>6, Zenon
  <2>2. round.numGames <= known + failures
    BY <2>1, <1>3, Zenon
  <2>3. round.numGames <= (played + inHand) + failures'
    BY <1>1, <2>1, <2>2
  <2>. QED  BY <1>2, <1>3, <1>4, <2>3 DEF GamesAreCounted
<1>. QED  BY <1>5, <1>6

(* Only the round that is on gains games, and never too many.              *)
LEMMA WholeWhileCounted ==
    ASSUME IInv, pc = "running", GamesAreCounted', game' \in Seq(RowType),
           UNCHANGED << pc, started, ended, roster, round.id >>,
           failures' \in Nat, failures <= failures',
           \A q : q # round.id => PlayedGames(q)' = PlayedGames(q),
           round'.numGames \in Nat
    PROVE  RoundsAreWhole'
<1>1. round.id \notin ended
  BY DEF IInv, EngineInStep, LoopInStep, Active
<1>2. \A q : GamesToRun(q)' = GamesToRun(q) /\ GamesToRun(q) \in Nat
  BY GamesToRunType DEF GamesToRun, Entered
<1>3. \A q : Cardinality(PlayedGames(q)) \in Nat
  <2>1. game \in Seq(RowType)
    BY DEF IInv, TypeOK
  <2>. QED  BY <2>1, GamesFinite
<1>4. failures \in Nat
  BY TournamentAssumption DEF IInv, TypeOK
<1>5. Cardinality(PlayedGames(round.id)') \in Nat /\ Cardinality(InHand') \in Nat
  <2>1. IsFiniteSet(DOMAIN game')
    BY RowsFinite
  <2>2. PlayedGames(round.id)' \subseteq DOMAIN game'
    BY DEF PlayedGames
  <2>3. InHand' \subseteq Slots
    BY DEF InHand
  <2>. QED  BY <2>1, <2>2, <2>3, SlotsFinite, FS_Subset, FS_CardinalityType
<1>6. Cardinality(PlayedGames(round.id)') <= GamesToRun(round.id)
  <2>1. /\ Cardinality(PlayedGames(round.id)') + Cardinality(InHand') <= round'.numGames
        /\ round'.numGames <= GamesToRun(round.id)
    BY <1>2 DEF GamesAreCounted, Quota, PlayedGames
  <2>. QED  BY <1>2, <1>5, <2>1
<1>7. ASSUME NEW q \in started
      PROVE  /\ 0 <= GamesToRun(q) - Cardinality(PlayedGames(q)')
             /\ q \in ended => GamesToRun(q) - Cardinality(PlayedGames(q)') <= failures'
  <2>1. CASE q = round.id
    BY <2>1, <1>1, <1>2, <1>5, <1>6
  <2>2. CASE q # round.id
    <3>1. Cardinality(PlayedGames(q)') = Cardinality(PlayedGames(q))
      BY <2>2
    <3>. QED  BY <3>1, <1>2, <1>3, <1>4 DEF IInv, RoundsAreWhole
  <2>. QED  BY <2>1, <2>2
<1>. QED  BY <1>2, <1>7 DEF RoundsAreWhole

(* The games of a round that ended stay what they are.                     *)
LEMMA ResultsStay ==
    ASSUME IInv, UNCHANGED << started, ended, roster, elo, listed >>,
           \A q \in ended : /\ PlayedGames(q)' = PlayedGames(q)
                            /\ \A g \in PlayedGames(q) : game'[g] = game[g]
    PROVE  ResultsAccountForGames'
<1>1. \A q : Entered(q)' = Entered(q)
  BY DEF Entered
<1>2. SUFFICES ASSUME NEW q \in ended, NEW t \in Teams, t \in Entered(q)
               PROVE  (elo[q][t] = RecoveredElo(q, t) /\ listed[q][t] = GamesOf(q, t))'
  BY <1>1 DEF ResultsAccountForGames
<1>3. GamesOf(q, t)' = GamesOf(q, t)
  BY DEF GamesOf
<1>4. [g \in GamesOf(q, t)' |-> game'[g].gain[t]]
        = [g \in GamesOf(q, t) |-> game[g].gain[t]]
  BY <1>3 DEF GamesOf
<1>5. StartingElo(q, t)' = StartingElo(q, t)
  BY <1>1 DEF StartingElo
<1>6. RecoveredElo(q, t)' = RecoveredElo(q, t)
  BY <1>4, <1>5 DEF RecoveredElo
<1>. QED  BY <1>2, <1>3, <1>6 DEF IInv, ResultsAccountForGames

LEMMA AtWork ==
    ASSUME IInv, NEW k \in Slots, ~ Over(k)
    PROVE  /\ pc = "running"
           /\ round.id \in Rounds /\ round.id \in started /\ round.id \notin ended
           /\ round.entrant = roster[round.id]
           /\ \A j \in Slots : TaskInStep(j)
           /\ slot \in [Slots -> SlotType] /\ slot[k] \in SlotType
<1>1. pc = "running"
  BY DEF IInv, EngineInStep, LoopInStep, AllOver
<1>2. round.id \in Active /\ round.id # None
  BY <1>1, ConstantTypes DEF IInv, EngineInStep, LoopInStep, Active, TypeOK
<1>. QED  BY <1>1, <1>2 DEF IInv, EngineInStep, LoopInStep, TypeOK, Active

LEMMA HandStays ==
    ASSUME NEW k \in Slots, \A j \in Slots \ {k} : slot'[j] = slot[j],
           ~ Over(k), ~ Over(k)'
    PROVE  InHand' = InHand
BY DEF InHand, Over

LEMMA HandLess ==
    ASSUME NEW k \in Slots, \A j \in Slots \ {k} : slot'[j] = slot[j],
           ~ Over(k), Over(k)'
    PROVE  /\ Cardinality(InHand) \in Nat \ {0}
           /\ Cardinality(InHand') = Cardinality(InHand) - 1
<1>1. InHand' = InHand \ {k} /\ k \in InHand
  BY DEF InHand, Over
<1>2. Cardinality(InHand \ {k}) = Cardinality(InHand) - 1
  BY <1>1, InHandFinite, FS_RemoveElement
<1>3. Cardinality(InHand \ {k}) \in Nat
  BY InHandFinite, FS_RemoveElement, FS_CardinalityType
<1>. QED  BY <1>1, <1>2, <1>3, InHandFinite

LEMMA HandMore ==
    ASSUME NEW k \in Slots, \A j \in Slots \ {k} : slot'[j] = slot[j],
           Over(k), ~ Over(k)'
    PROVE  Cardinality(InHand') = Cardinality(InHand) + 1
<1>1. InHand' = InHand \cup {k} /\ k \notin InHand
  BY DEF InHand, Over
<1>. QED  BY <1>1, InHandFinite, FS_AddElement

(* What is left to show of a step of a task, or of its dispatch.           *)
LEMMA TaskIInv ==
    ASSUME IInv, NEW k \in Slots, pc = "running",
           UNCHANGED << started, ended, binary, roster, elo, listed, pc, plan,
                        round.id, round.entrant >>,
           failures <= failures', TypeOK', GamesAreCounted',
           \A j \in Slots : TaskInStep(j)',
           \A g \in DOMAIN game' : game'[g].round \in started,
           \A q : q # round.id => PlayedGames(q)' = PlayedGames(q),
           \A q \in ended : \A g \in PlayedGames(q) : game'[g] = game[g]
    PROVE  IInv'
<1>1. round.id \notin ended
  BY DEF IInv, EngineInStep, LoopInStep, Active
<1>2. RoundsInOrder'
  BY DEF IInv, EngineInStep, RoundsInOrder
<1>3. LoopInStep'
  BY DEF IInv, EngineInStep, LoopInStep, Active
<1>4. ResultsAccountForGames'
  BY <1>1, ResultsStay
<1>5. game' \in Seq(RowType) /\ failures' \in Nat /\ round'.numGames \in Nat
  BY TournamentAssumption DEF TypeOK, RoundType
<1>6. RoundsAreWhole'
  BY <1>5, WholeWhileCounted
<1>. QED  BY <1>2, <1>3, <1>4, <1>6 DEF IInv, EngineInStep

LEMMA DispatchIInv == ASSUME IInv, NEW k \in Slots, Dispatch(k) PROVE IInv'
<1> USE DEF Dispatch, tables
<1> DEFINE fresh == [FreeSlot EXCEPT !.pc = "selecting"]
<1>1. fresh \in SlotType /\ fresh.pc = "selecting"
  BY FreeSlotTypes DEF SlotType, SlotStates
<1> HIDE DEF fresh
<1>2. /\ slot' = [slot EXCEPT ![k] = fresh]
      /\ slot'[k] = fresh
      /\ \A j \in Slots \ {k} : slot'[j] = slot[j]
  BY DEF fresh, IInv, TypeOK
<1>3. round' = [round EXCEPT !.numGames = @ + 1]
  OBVIOUS
<1>4. /\ round' \in RoundType /\ UNCHANGED << round.id, round.entrant >>
      /\ round'.numGames = round.numGames + 1 /\ round.numGames \in Nat
  <2>1. round \in RoundType
    BY DEF IInv, TypeOK
  <2> HIDE DEF Dispatch
  <2>. QED  BY <1>3, <2>1 DEF RoundType
<1>5. TypeOK'
  BY <1>1, <1>2, <1>4 DEF IInv, TypeOK
<1>6. sem # k /\ ~ HasRow(k) /\ ~ HasRow(k)'
  BY <1>1, <1>2 DEF IInv, EngineInStep, TaskInStep, Over, HasRow
<1>7. ASSUME NEW j \in Slots
      PROVE  TaskInStep(j)'
  <2>1. CASE j = k
    BY <1>1, <1>2, <1>6, <2>1 DEF TaskInStep, Underway, HasRow
  <2>2. CASE j # k
    <3>1. UNCHANGED << roster, round.id >>
      BY <1>4
    <3>2. \A g \in DOMAIN game :
             /\ g \in DOMAIN game'
             /\ game'[g] = game[g] \/ (HasRow(k) /\ g = slot[k].id)
      OBVIOUS
    <3>3. \A i \in Slots \ {k} : slot'[i] = slot[i] /\ (sem' = i <=> sem = i)
      BY <1>2
    <3>4. HasRow(k)' => \/ HasRow(k) /\ slot'[k].id = slot[k].id
                        \/ slot'[k].id \notin DOMAIN game
      BY <1>6
    <3> HIDE DEF Dispatch
    <3>. QED  BY <2>2, <3>1, <3>2, <3>3, <3>4, OthersStay, Zenon
  <2>. QED  BY <2>1, <2>2
<1>8. PlayedGames(round.id)' = PlayedGames(round.id) /\ Quota' = Quota
  BY <1>4 DEF PlayedGames, Quota, GamesToRun, Entered
<1>9. GamesAreCounted'
  <2>1. Over(k) /\ ~ Over(k)'
    BY <1>1, <1>2 DEF Over
  <2>2. Cardinality(InHand') = Cardinality(InHand) + 1 /\ Cardinality(InHand) \in Nat
    BY <1>2, <2>1, HandMore, InHandFinite
  <2>3. Cardinality(PlayedGames(round.id)) \in Nat
    <3>1. game \in Seq(RowType)
      BY DEF IInv, TypeOK
    <3>. QED  BY <3>1, GamesFinite
  <2>4. failures \in Nat /\ Quota \in Nat
    BY TournamentAssumption, GamesToRunType DEF IInv, TypeOK, Quota
  <2>5. Entered(round.id)' = Entered(round.id)
    BY <1>4 DEF Entered
  <2>6. \E j \in Slots : slot'[j].pc \in {"selecting", "faulted"}
    BY <1>1, <1>2
  <2>. QED  BY <1>4, <1>8, <2>2, <2>3, <2>4, <2>5, <2>6
            DEF IInv, EngineInStep, GamesAreCounted
<1>10. /\ \A q : PlayedGames(q)' = PlayedGames(q)
       /\ \A g \in DOMAIN game : game[g].round \in started
  BY DEF PlayedGames, IInv, EngineInStep, RoundsInOrder
<1>11. failures <= failures'
  BY TournamentAssumption DEF IInv, TypeOK
<1>. QED  BY <1>4, <1>5, <1>7, <1>9, <1>10, <1>11, TaskIInv

-----------------------------------------------------------------------------
(* RunOneGame                                                              *)

LEMMA EnteredCount ==
    \A r : Entered(r) \subseteq Teams /\ Cardinality(Entered(r)) \in Nat
<1>1. \A r : Entered(r) \subseteq Teams
  BY DEF Entered
<1>. QED  BY <1>1, TournamentAssumption, FS_Subset, FS_CardinalityType

LEMMA PairOfEntrants ==
    ASSUME NEW r, NEW pair \in kSubset(2, Entered(r))
    PROVE  pair \in SUBSET Teams /\ Cardinality(Entered(r)) >= 2
<1>1. pair \subseteq Entered(r) /\ Cardinality(pair) = 2 /\ Entered(r) \subseteq Teams
  BY DEF kSubset, Entered
<1>2. IsFiniteSet(Entered(r))
  BY <1>1, TournamentAssumption, FS_Subset
<1>3. Cardinality(pair) <= Cardinality(Entered(r)) /\ Cardinality(Entered(r)) \in Nat
  BY <1>1, <1>2, FS_Subset, FS_CardinalityType
<1>. QED  BY <1>1, <1>3

(* Whom SelectPlayers may choose from.                                     *)
LEMMA CandidatesAreEntrants ==
    ASSUME round.entrant = roster[round.id]
    PROVE  /\ Candidates \subseteq Entered(round.id)
           /\ Cardinality(Candidates) < 2 => Cardinality(Entered(round.id)) < 2
<1> DEFINE entrants == {t \in Teams : round.entrant[t] # None}
           short == {t \in entrants : round.count[t] < Desired}
<1>1. entrants = Entered(round.id) /\ short \subseteq entrants
  BY DEF Entered
<1>2. Candidates = IF Cardinality(short) <= 1 THEN entrants ELSE short
  BY DEF Candidates
<1>3. Cardinality(short) \in Nat
  BY TournamentAssumption, FS_Subset, FS_CardinalityType
<1> HIDE DEF entrants, short
<1>. QED  BY <1>1, <1>2, <1>3

(* With players chosen there is more than one team.                        *)
LEMMA UnderwayNotLone ==
    ASSUME IInv, NEW k \in Slots, Underway(k)
    PROVE  ~ Lone
<1>1. Cardinality(Entered(round.id)) >= 2
  BY PairOfEntrants DEF IInv, EngineInStep, TaskInStep
<1>. QED  BY <1>1, EnteredCount DEF Lone

(* A step of a task that does not touch the table of games.                *)
LEMMA GamelessIInv ==
    ASSUME IInv, NEW k \in Slots, ~ Over(k), TypeOK', TaskInStep(k)',
           UNCHANGED << started, ended, binary, roster, elo, listed, game, pc,
                        plan, round.id, round.entrant, round.numGames >>,
           \A j \in Slots \ {k} : slot'[j] = slot[j] /\ (sem' = j <=> sem = j),
           HasRow(k)' => HasRow(k) /\ slot'[k].id = slot[k].id,
           failures <= failures',
           \/ ~ Over(k)' /\ (Lone => Lone')
           \/ Over(k)' /\ failures' = failures + 1 /\ (Lone => Lone')
           \/ Over(k)' /\ Lone'
    PROVE  IInv'
<1>1. pc = "running"
  BY AtWork
<1>2. \A g \in DOMAIN game :
         /\ g \in DOMAIN game'
         /\ game'[g] = game[g] \/ (HasRow(k) /\ g = slot[k].id)
  OBVIOUS
<1>3. HasRow(k)' => \/ HasRow(k) /\ slot'[k].id = slot[k].id
                    \/ slot'[k].id \notin DOMAIN game
  BY Zenon
<1>4. ASSUME NEW j \in Slots
      PROVE  TaskInStep(j)'
  <2>1. CASE j = k
    BY <2>1
  <2>2. CASE j # k
    <3>1. UNCHANGED << roster, round.id >>
      OBVIOUS
    <3>. QED  BY <1>2, <1>3, <2>2, <3>1, OthersStay, Zenon
  <2>. QED  BY <2>1, <2>2
<1>5. \A q : PlayedGames(q)' = PlayedGames(q)
  BY DEF PlayedGames
<1>6. PlayedGames(round.id)' = PlayedGames(round.id)
  BY DEF PlayedGames
<1>7. GamesAreCounted'
  <2>1. /\ game \in Seq(RowType) /\ game' \in Seq(RowType)
        /\ failures \in Nat /\ failures' \in Nat
    BY TournamentAssumption DEF IInv, TypeOK
  <2>2. Cardinality(PlayedGames(round.id)) \in Nat /\ Cardinality(InHand) \in Nat
    BY <2>1, GamesFinite, InHandFinite
  <2>3. UNCHANGED << pc, roster, round.id, round.numGames >>
    OBVIOUS
  <2> DEFINE played == Cardinality(PlayedGames(round.id)')
             inHand == Cardinality(InHand')
             known == Cardinality(PlayedGames(round.id)) + Cardinality(InHand)
  <2>4. played = Cardinality(PlayedGames(round.id)) /\ played \in Nat /\ known \in Nat
    BY <1>6, <2>2
  <2>5. CASE ~ Over(k)'
    <3>1. InHand' = InHand
      BY <2>5, HandStays
    <3>2. inHand = Cardinality(InHand) /\ inHand \in Nat
      BY <3>1, <2>2
    <3>3. played + inHand <= known /\ known + failures <= played + inHand + failures'
      BY <2>1, <2>2, <2>4, <3>2
    <3>4. Lone => Lone'
      BY <2>5, Zenon
    <3> HIDE DEF played, inHand, known
    <3>. QED  BY <1>1, <2>1, <2>3, <2>4, <3>2, <3>3, <3>4, CountStays
              DEF played, inHand, known
  <2>6. CASE Over(k)'
    <3>1. inHand = Cardinality(InHand) - 1 /\ inHand \in Nat
      BY <2>6, HandLess
    <3>2. played + inHand <= known
      BY <2>2, <2>4, <3>1
    <3>3. \/ failures' = failures + 1 /\ (Lone => Lone')
          \/ Lone'
      BY <2>6, Zenon
    <3>4. CASE failures' = failures + 1 /\ (Lone => Lone')
      <4>1. known + failures <= played + inHand + failures'
        BY <2>1, <2>2, <2>4, <3>1, <3>4
      <4> HIDE DEF played, inHand, known
      <4>. QED  BY <1>1, <2>1, <2>3, <2>4, <3>1, <3>2, <3>4, <4>1, CountStays
                DEF played, inHand, known
    <3>5. CASE Lone'
      <4> HIDE DEF played, inHand, known
      <4>. QED  BY <1>1, <2>1, <2>3, <2>4, <3>1, <3>2, <3>5, CountStays
                DEF played, inHand, known
    <3>. QED  BY <3>3, <3>4, <3>5
  <2>. QED  BY <2>5, <2>6
<1>8. \A g \in DOMAIN game : game[g].round \in started
  BY DEF IInv, EngineInStep, RoundsInOrder
<1>. QED  BY <1>1, <1>4, <1>5, <1>7, <1>8, TaskIInv

LEMMA SelectPlayersIInv ==
    ASSUME IInv, NEW k \in Slots, SelectPlayers(k)
    PROVE  IInv'
<1> USE DEF SelectPlayers, tables
<1>1. slot[k].pc = "selecting" /\ sem = None /\ sem' = k
  BY DEF At, SemFree
<1>2. ~ Over(k) /\ ~ HasRow(k)
  BY <1>1 DEF Over, HasRow
<1>3. PICK pair \in kSubset(2, Candidates) :
        slot' = [slot EXCEPT ![k] = [@ EXCEPT !.pc = "inserting", !.teams = pair]]
  OBVIOUS
<1>4. pair \in kSubset(2, Entered(round.id))
  BY <1>2, AtWork, CandidatesAreEntrants DEF kSubset
<1>5. pair \in SUBSET Teams /\ ~ Lone
  <2>1. pair \in SUBSET Teams /\ Cardinality(Entered(round.id)) >= 2
    BY <1>4, PairOfEntrants
  <2>2. ~ (Cardinality(Entered(round.id)) < 2)
    BY <2>1, EnteredCount
  <2>. QED  BY <2>1, <2>2 DEF Lone
<1> DEFINE chosen == [slot[k] EXCEPT !.pc = "inserting", !.teams = pair]
<1>6. chosen \in SlotType /\ chosen.pc = "inserting" /\ chosen.teams = pair
  BY <1>2, <1>5, AtWork DEF SlotType, SlotStates
<1>7. /\ slot' = [slot EXCEPT ![k] = chosen]
      /\ slot'[k] = chosen
      /\ \A j \in Slots \ {k} : slot'[j] = slot[j]
  BY <1>3, <1>2, AtWork
<1> HIDE DEF chosen
<1>8. TypeOK'
  BY <1>6, <1>7 DEF IInv, TypeOK
<1>9. ~ Over(k)' /\ ~ HasRow(k)'
  BY <1>6, <1>7 DEF Over, HasRow
<1>10. TaskInStep(k)'
  BY <1>1, <1>4, <1>6, <1>7, <1>9 DEF TaskInStep, Entered
<1>11. \A j \in Slots \ {k} : slot'[j] = slot[j] /\ (sem' = j <=> sem = j)
  BY <1>1, <1>7, ConstantTypes
<1>12. failures <= failures'
  BY TournamentAssumption DEF IInv, TypeOK
<1> HIDE DEF SelectPlayers
<1>13. UNCHANGED << started, ended, binary, roster, elo, listed, game, pc, plan,
                    round.id, round.entrant, round.numGames >>
  BY DEF SelectPlayers
<1>. QED  BY <1>2, <1>5, <1>8, <1>9, <1>10, <1>11, <1>12, <1>13, GamelessIInv

LEMMA SelectThrowsIInv ==
    ASSUME IInv, NEW k \in Slots, SelectThrows(k)
    PROVE  IInv'
<1> USE DEF SelectThrows, Fault, tables
<1>1. slot[k].pc = "selecting" /\ sem = None /\ sem' = None
  BY ConstantTypes DEF At, SemFree
<1>2. ~ Over(k)
  BY <1>1 DEF Over
<1>3. /\ slot' = [slot EXCEPT ![k] = FaultedSlot]
      /\ slot'[k] = FaultedSlot
      /\ \A j \in Slots \ {k} : slot'[j] = slot[j]
  BY <1>2, AtWork
<1>4. slot'[k].pc = "faulted"
  BY <1>3, FreeSlotTypes
<1>5. TypeOK'
  BY <1>1, <1>3, FreeSlotTypes DEF IInv, TypeOK
<1>6. Over(k)' /\ ~ HasRow(k)'
  BY <1>4 DEF Over, HasRow
<1>7. TaskInStep(k)'
  BY <1>1, <1>4, ConstantTypes DEF TaskInStep, Underway, HasRow
<1>8. Lone'
  <2>1. Cardinality(Entered(round.id)) < 2
    BY <1>2, AtWork, CandidatesAreEntrants
  <2>2. Entered(round.id)' = Entered(round.id)
    BY DEF Entered
  <2>. QED  BY <1>4, <2>1, <2>2 DEF Lone
<1>9. \A j \in Slots \ {k} : slot'[j] = slot[j] /\ (sem' = j <=> sem = j)
  BY <1>1, <1>3
<1>10. failures <= failures'
  BY TournamentAssumption DEF IInv, TypeOK
<1>11. UNCHANGED << started, ended, binary, roster, elo, listed, game, pc, plan,
                    round.id, round.entrant, round.numGames >>
  OBVIOUS
<1> HIDE DEF SelectThrows
<1>. QED  BY <1>2, <1>5, <1>6, <1>7, <1>8, <1>9, <1>10, <1>11, GamelessIInv

LEMMA EloDeltasType ==
    ASSUME NEW teams, NEW w, NEW d \in Gains
    PROVE  EloDeltas(teams, w, d) \in GainType
BY TournamentAssumption DEF EloDeltas, GainType

LEMMA GameEndsIInv == ASSUME IInv, NEW k \in Slots, GameEnds(k) PROVE IInv'
<1> USE DEF GameEnds, tables
<1>1. slot[k].pc = "playing"
  BY DEF At
<1>2. ~ Over(k) /\ HasRow(k) /\ Underway(k)
  BY <1>1 DEF Over, HasRow, Underway
<1>3. PICK w \in slot[k].teams, d \in Gains :
        slot' = [slot EXCEPT ![k] =
                   [@ EXCEPT !.pc = "rating", !.gain = EloDeltas(slot[k].teams, w, d)]]
  OBVIOUS
<1> DEFINE ended1 == [slot[k] EXCEPT !.pc = "rating",
                                     !.gain = EloDeltas(slot[k].teams, w, d)]
<1>4. /\ ended1 \in SlotType /\ ended1.pc = "rating"
      /\ ended1.teams = slot[k].teams /\ ended1.id = slot[k].id
      /\ ended1.gain = EloDeltas(slot[k].teams, w, d)
  BY <1>2, AtWork, EloDeltasType DEF SlotType, SlotStates
<1>5. /\ slot' = [slot EXCEPT ![k] = ended1]
      /\ slot'[k] = ended1
      /\ \A j \in Slots \ {k} : slot'[j] = slot[j]
  BY <1>2, <1>3, AtWork
<1> HIDE DEF ended1
<1>6. TypeOK'
  BY <1>4, <1>5 DEF IInv, TypeOK
<1>7. ~ Over(k)' /\ HasRow(k)' /\ Underway(k)'
  BY <1>4, <1>5 DEF Over, HasRow, Underway
<1>8. TaskInStep(k)
  BY <1>2, AtWork
<1>9. \A j \in Slots : HasRow(j)' /\ j # k => slot'[j].id # slot'[k].id
  <2>1. \A j \in Slots \ {k} : HasRow(j)' <=> HasRow(j)
    BY <1>5 DEF HasRow
  <2>. QED  BY <1>2, <1>4, <1>5, <1>8, <2>1 DEF TaskInStep
<1>10. Entered(round.id)' = Entered(round.id)
  BY DEF Entered
<1>11. TaskInStep(k)'
  <2>1. sem' = k <=> slot'[k].pc \in {"inserting", "saving"}
    BY <1>1, <1>4, <1>5, <1>8 DEF TaskInStep
  <2>2. /\ slot'[k].id \in DOMAIN game' /\ ~ game'[slot'[k].id].done
        /\ game'[slot'[k].id].round = round'.id
        /\ game'[slot'[k].id].teams = slot'[k].teams
    BY <1>2, <1>4, <1>5, <1>8 DEF TaskInStep
  <2>3. slot'[k].teams \in kSubset(2, Entered(round.id)')
    BY <1>2, <1>4, <1>5, <1>8, <1>10 DEF TaskInStep
  <2>4. \E x \in slot'[k].teams, y \in Gains :
           slot'[k].gain = EloDeltas(slot'[k].teams, x, y)
    BY <1>4, <1>5
  <2>. QED  BY <1>9, <2>1, <2>2, <2>3, <2>4 DEF TaskInStep, EloDeltas
<1>12. Lone => Lone'
  BY <1>2, UnderwayNotLone
<1>13. failures <= failures'
  BY TournamentAssumption DEF IInv, TypeOK
<1>14. \A j \in Slots \ {k} : slot'[j] = slot[j] /\ (sem' = j <=> sem = j)
  BY <1>5
<1>15. UNCHANGED << started, ended, binary, roster, elo, listed, game, pc, plan,
                    round.id, round.entrant, round.numGames >>
  OBVIOUS
<1>16. slot'[k].id = slot[k].id
  BY <1>4, <1>5
<1> HIDE DEF GameEnds
<1>. QED  BY <1>2, <1>6, <1>7, <1>11, <1>12, <1>13, <1>14, <1>15, <1>16,
             GamelessIInv

LEMMA UpdateRatingsIInv ==
    ASSUME IInv, NEW k \in Slots, UpdateRatings(k)
    PROVE  IInv'
<1> USE DEF UpdateRatings, tables
<1>1. slot[k].pc = "rating" /\ sem = None /\ sem' = k
  BY DEF At, SemFree
<1>2. ~ Over(k) /\ HasRow(k) /\ Underway(k)
  BY <1>1 DEF Over, HasRow, Underway
<1> DEFINE saving == [slot[k] EXCEPT !.pc = "saving"]
<1>3. /\ saving \in SlotType /\ saving.pc = "saving"
      /\ saving.teams = slot[k].teams /\ saving.id = slot[k].id
      /\ saving.gain = slot[k].gain
  BY <1>2, AtWork DEF SlotType, SlotStates
<1>4. /\ slot' = [slot EXCEPT ![k] = saving]
      /\ slot'[k] = saving
      /\ \A j \in Slots \ {k} : slot'[j] = slot[j]
  BY <1>2, AtWork
<1> HIDE DEF saving
<1>5. /\ round' \in RoundType
      /\ UNCHANGED << round.id, round.entrant, round.numGames >>
  <2> DEFINE count == [t \in Teams |-> IF t \in slot[k].teams THEN round.count[t] + 1
                                                              ELSE round.count[t]]
  <2>1. round \in RoundType
    BY DEF IInv, TypeOK
  <2>2. count \in [Teams -> Nat]
    BY <2>1 DEF RoundType
  <2>3. round' = [round EXCEPT !.count = count]
    OBVIOUS
  <2> HIDE DEF count, UpdateRatings
  <2>. QED  BY <2>1, <2>2, <2>3 DEF RoundType
<1>6. TypeOK'
  BY <1>3, <1>4, <1>5 DEF IInv, TypeOK
<1>7. ~ Over(k)' /\ HasRow(k)' /\ Underway(k)'
  BY <1>3, <1>4 DEF Over, HasRow, Underway
<1>8. TaskInStep(k)
  BY <1>2, AtWork
<1>9. \A j \in Slots : HasRow(j)' /\ j # k => slot'[j].id # slot'[k].id
  <2>1. \A j \in Slots \ {k} : HasRow(j)' <=> HasRow(j)
    BY <1>4 DEF HasRow
  <2>. QED  BY <1>2, <1>3, <1>4, <1>8, <2>1 DEF TaskInStep
<1>10. Entered(round.id)' = Entered(round.id)
  BY <1>5 DEF Entered
<1>11. TaskInStep(k)'
  <2>1. sem' = k <=> slot'[k].pc \in {"inserting", "saving"}
    BY <1>1, <1>3, <1>4
  <2>2. /\ slot'[k].id \in DOMAIN game' /\ ~ game'[slot'[k].id].done
        /\ game'[slot'[k].id].round = round'.id
        /\ game'[slot'[k].id].teams = slot'[k].teams
    BY <1>2, <1>3, <1>4, <1>5, <1>8 DEF TaskInStep
  <2>3. slot'[k].teams \in kSubset(2, Entered(round.id)')
    BY <1>2, <1>3, <1>4, <1>8, <1>10 DEF TaskInStep
  <2>4. \E x \in slot'[k].teams, y \in Gains :
           slot'[k].gain = EloDeltas(slot'[k].teams, x, y)
    BY <1>1, <1>3, <1>4, <1>8 DEF TaskInStep
  <2>. QED  BY <1>9, <2>1, <2>2, <2>3, <2>4 DEF TaskInStep, EloDeltas
<1>12. Lone => Lone'
  BY <1>2, UnderwayNotLone
<1>13. failures <= failures'
  BY TournamentAssumption DEF IInv, TypeOK
<1>14. \A j \in Slots \ {k} : slot'[j] = slot[j] /\ (sem' = j <=> sem = j)
  BY <1>1, <1>4, ConstantTypes
<1>15. UNCHANGED << started, ended, binary, roster, elo, listed, game, pc, plan,
                    round.id, round.entrant, round.numGames >>
  BY <1>5
<1>16. slot'[k].id = slot[k].id
  BY <1>3, <1>4
<1> HIDE DEF UpdateRatings
<1>. QED  BY <1>2, <1>6, <1>7, <1>11, <1>12, <1>13, <1>14, <1>15, <1>16,
             GamelessIInv

(* A task that faults gives the semaphore back.                            *)
LEMMA FaultedTask ==
    ASSUME IInv, NEW k \in Slots, Underway(k), Fault(k)
    PROVE  /\ slot' \in [Slots -> SlotType] /\ sem' \in Slots \cup {None}
           /\ slot'[k].pc = "faulted"
           /\ Over(k)' /\ ~ HasRow(k)' /\ ~ Underway(k)'
           /\ \A j \in Slots \ {k} : slot'[j] = slot[j] /\ (sem' = j <=> sem = j)
           /\ TaskInStep(k)'
<1> USE DEF Fault
<1>1. ~ Over(k)
  BY DEF Underway, Over
<1>2. /\ slot' = [slot EXCEPT ![k] = FaultedSlot]
      /\ slot'[k] = FaultedSlot
      /\ \A j \in Slots \ {k} : slot'[j] = slot[j]
  BY <1>1, AtWork
<1>3. slot'[k].pc = "faulted" /\ slot' \in [Slots -> SlotType]
  BY <1>1, <1>2, AtWork, FreeSlotTypes
<1>4. Over(k)' /\ ~ HasRow(k)' /\ ~ Underway(k)'
  BY <1>3 DEF Over, HasRow, Underway
<1>5. sem' # k /\ sem' \in Slots \cup {None}
  BY ConstantTypes DEF IInv, TypeOK
<1>6. \A j \in Slots \ {k} : sem' = j <=> sem = j
  BY ConstantTypes
<1>7. TaskInStep(k)'
  BY <1>3, <1>4, <1>5 DEF TaskInStep, Underway, HasRow
<1>. QED  BY <1>2, <1>3, <1>4, <1>5, <1>6, <1>7

(* What is left of GameFails when the database does not act.               *)
LEMMA GameLostIInv ==
    ASSUME IInv, NEW k \in Slots, Underway(k), MayFail, Fault(k),
           UNCHANGED << due, started, ended, binary, roster, elo, listed, game,
                        pc, plan, round >>
    PROVE  IInv'
<1>1. ~ Over(k)
  BY DEF Underway, Over
<1>2. TypeOK'
  BY FaultedTask, FailureBound DEF IInv, TypeOK
<1>3. failures' = failures + 1 /\ failures <= failures'
  BY FailureBound DEF MayFail
<1>4. Lone => Lone'
  BY UnderwayNotLone
<1>5. UNCHANGED << started, ended, binary, roster, elo, listed, game, pc, plan,
                    round.id, round.entrant, round.numGames >>
  OBVIOUS
<1>. QED  BY <1>1, <1>2, <1>3, <1>4, <1>5, FaultedTask, GamelessIInv

LEMMA AppendRow ==
    ASSUME NEW rows \in Seq(RowType), NEW row \in RowType
    PROVE  /\ Append(rows, row) \in Seq(RowType)
           /\ Len(rows) \in Nat
           /\ DOMAIN Append(rows, row) = DOMAIN rows \cup {Len(rows) + 1}
           /\ Len(rows) + 1 \notin DOMAIN rows
           /\ Append(rows, row)[Len(rows) + 1] = row
           /\ \A g \in DOMAIN rows : Append(rows, row)[g] = rows[g]
OBVIOUS

LEMMA InsertGameIInv ==
    ASSUME IInv, NEW k \in Slots, InsertGame(k)
    PROVE  IInv'
<1> USE DEF InsertGame
<1>1. slot[k].pc = "inserting" /\ sem' = None
  BY DEF At
<1>2. ~ Over(k) /\ ~ HasRow(k) /\ Underway(k)
  BY <1>1 DEF Over, HasRow, Underway
<1>3. TaskInStep(k) /\ sem = k
  BY <1>1, <1>2, AtWork DEF TaskInStep
<1> DEFINE new == Len(game) + 1
           row == [round |-> round.id, teams |-> slot[k].teams,
                   done |-> FALSE, gain |-> NoTeams]
<1>4. row \in RowType /\ ~ row.done /\ row.round = round.id
      /\ row.teams = slot[k].teams
  BY <1>2, AtWork, ConstantTypes DEF RowType, SlotType
<1>5. game \in Seq(RowType) /\ game' = Append(game, row)
  BY DEF IInv, TypeOK
<1> HIDE DEF row
<1>6. /\ game' \in Seq(RowType) /\ new \in Nat
      /\ DOMAIN game' = DOMAIN game \cup {new} /\ new \notin DOMAIN game
      /\ game'[new] = row
      /\ \A g \in DOMAIN game : game'[g] = game[g]
  BY <1>4, <1>5, AppendRow
<1> DEFINE playing == [slot[k] EXCEPT !.pc = "playing", !.id = new]
<1>7. /\ playing \in SlotType /\ playing.pc = "playing"
      /\ playing.teams = slot[k].teams /\ playing.id = new
  BY <1>2, <1>6, AtWork DEF SlotType, SlotStates
<1>8. /\ slot' = [slot EXCEPT ![k] = playing]
      /\ slot'[k] = playing
      /\ \A j \in Slots \ {k} : slot'[j] = slot[j]
  BY <1>2, AtWork
<1> HIDE DEF playing, new
<1>9. TypeOK'
  <2>1. listed \in [Rounds -> [Teams -> SUBSET (DOMAIN game')]]
    BY <1>6 DEF IInv, TypeOK
  <2>. QED  BY <1>1, <1>6, <1>7, <1>8, <2>1 DEF IInv, TypeOK
<1>10. ~ Over(k)' /\ HasRow(k)' /\ Underway(k)'
  BY <1>7, <1>8 DEF Over, HasRow, Underway
<1>11. \A g \in DOMAIN game :
          /\ g \in DOMAIN game'
          /\ game'[g] = game[g] \/ (HasRow(k) /\ g = slot[k].id)
  BY <1>6
<1>12. HasRow(k)' => \/ HasRow(k) /\ slot'[k].id = slot[k].id
                     \/ slot'[k].id \notin DOMAIN game
  BY <1>6, <1>7, <1>8
<1>13. ASSUME NEW j \in Slots
       PROVE  TaskInStep(j)'
  <2>1. CASE j = k
    <3>1. ~ (sem' = k) /\ slot'[k].pc = "playing"
      BY <1>1, <1>7, <1>8, ConstantTypes
    <3>2. Entered(round.id)' = Entered(round.id)
      BY DEF Entered
    <3>3. slot'[k].teams \in kSubset(2, Entered(round.id)')
      BY <1>2, <1>3, <1>7, <1>8, <3>2 DEF TaskInStep
    <3>4. /\ slot'[k].id \in DOMAIN game' /\ ~ game'[slot'[k].id].done
          /\ game'[slot'[k].id].round = round'.id
          /\ game'[slot'[k].id].teams = slot'[k].teams
      BY <1>4, <1>6, <1>7, <1>8
    <3>5. ASSUME NEW i \in Slots, HasRow(i)', i # k
          PROVE  slot'[i].id # slot'[k].id
      <4>1. HasRow(i) /\ slot'[i].id = slot[i].id
        BY <1>8, <3>5 DEF HasRow
      <4>2. slot[i].id \in DOMAIN game
        BY <1>2, <4>1, AtWork DEF TaskInStep
      <4>. QED  BY <1>6, <1>7, <1>8, <4>1, <4>2
    <3>. QED  BY <2>1, <3>1, <3>3, <3>4, <3>5 DEF TaskInStep
  <2>2. CASE j # k
    <3>1. UNCHANGED << roster, round.id >>
      OBVIOUS
    <3>2. \A i \in Slots \ {k} : slot'[i] = slot[i] /\ (sem' = i <=> sem = i)
      BY <1>1, <1>3, <1>8, ConstantTypes
    <3> HIDE DEF InsertGame
    <3>. QED  BY <1>11, <1>12, <2>2, <3>1, <3>2, OthersStay, Zenon
  <2>. QED  BY <2>1, <2>2
<1>14. \A q : PlayedGames(q)' = PlayedGames(q)
  BY <1>4, <1>6 DEF PlayedGames
<1>15. PlayedGames(round.id)' = PlayedGames(round.id)
  BY <1>4, <1>6 DEF PlayedGames
<1>16. GamesAreCounted'
  <2>1. failures' \in Nat
    BY TournamentAssumption DEF IInv, TypeOK
  <2>2. InHand' = InHand
    BY <1>2, <1>8, <1>10, HandStays
  <2>3. Cardinality(PlayedGames(round.id)) \in Nat /\ Cardinality(InHand) \in Nat
    BY <1>5, GamesFinite, InHandFinite
  <2>4. UNCHANGED << pc, roster, round.id, round.numGames >> /\ pc = "running"
    BY <1>2, AtWork
  <2>5. Lone => Lone'
    BY <1>2, UnderwayNotLone
  <2> DEFINE played == Cardinality(PlayedGames(round.id)')
             inHand == Cardinality(InHand')
             known == Cardinality(PlayedGames(round.id)) + Cardinality(InHand)
  <2>6. /\ played \in Nat /\ inHand \in Nat /\ known \in Nat
        /\ played + inHand <= known /\ known + failures <= played + inHand + failures'
    BY <1>15, <2>1, <2>2, <2>3
  <2> HIDE DEF played, inHand, known, InsertGame
  <2>. QED  BY <1>6, <2>1, <2>4, <2>5, <2>6, CountStays DEF played, inHand, known
<1>17. \A g \in DOMAIN game' : game'[g].round \in started
  BY <1>2, <1>4, <1>6, AtWork DEF IInv, EngineInStep, RoundsInOrder
<1>18. \A q \in ended : \A g \in PlayedGames(q) : game'[g] = game[g]
  BY <1>6 DEF PlayedGames
<1>19. /\ UNCHANGED << started, ended, binary, roster, elo, listed, pc, plan,
                       round.id, round.entrant >>
       /\ failures <= failures' /\ pc = "running"
  BY <1>2, AtWork, TournamentAssumption DEF IInv, TypeOK
<1> HIDE DEF InsertGame
<1>. QED  BY <1>9, <1>13, <1>14, <1>16, <1>17, <1>18, <1>19, TaskIInv

(* The database has taken the result, whatever the task hears of it.       *)
LEMMA SavedIInv ==
    ASSUME IInv, NEW k \in Slots, At(k, "saving"), SaveRow(k),
           slot' \in [Slots -> SlotType], sem' \in Slots \cup {None},
           Over(k)', TaskInStep(k)',
           \A j \in Slots \ {k} : slot'[j] = slot[j] /\ (sem' = j <=> sem = j),
           failures' \in 0 .. MaxFailures, failures <= failures',
           UNCHANGED << due, started, ended, binary, roster, elo, listed, pc,
                        plan, round >>
    PROVE  IInv'
<1>1. slot[k].pc = "saving" /\ ~ Over(k) /\ HasRow(k) /\ Underway(k)
  BY DEF At, Over, HasRow, Underway
<1> DEFINE id == slot[k].id
           row == [game[id] EXCEPT !.done = TRUE, !.gain = slot[k].gain]
<1>2. /\ id \in DOMAIN game /\ ~ game[id].done /\ game[id].round = round.id
      /\ \A j \in Slots : HasRow(j) /\ j # k => slot[j].id # id
  BY <1>1, AtWork DEF TaskInStep
<1>3. game \in Seq(RowType) /\ game[id] \in RowType
  BY <1>2 DEF IInv, TypeOK
<1>4. row \in RowType /\ row.done /\ row.round = round.id
  BY <1>1, <1>2, <1>3, AtWork DEF RowType, SlotType
<1>5. game' = [game EXCEPT ![id] = row]
  BY DEF SaveRow
<1> HIDE DEF row
<1>6. /\ game' \in Seq(RowType) /\ DOMAIN game' = DOMAIN game
      /\ game'[id] = row
      /\ \A g \in DOMAIN game \ {id} : game'[g] = game[g]
  BY <1>2, <1>3, <1>4, <1>5
<1>7. TypeOK'
  BY <1>6 DEF IInv, TypeOK
<1>8. \A g \in DOMAIN game :
         /\ g \in DOMAIN game'
         /\ game'[g] = game[g] \/ (HasRow(k) /\ g = slot[k].id)
  BY <1>1, <1>6
<1>9. ~ HasRow(k)'
  BY DEF Over, HasRow
<1>10. ASSUME NEW j \in Slots
       PROVE  TaskInStep(j)'
  <2>1. CASE j = k
    BY <2>1
  <2>2. CASE j # k
    <3>1. UNCHANGED << roster, round.id >>
      OBVIOUS
    <3>2. HasRow(k)' => \/ HasRow(k) /\ slot'[k].id = slot[k].id
                        \/ slot'[k].id \notin DOMAIN game
      BY <1>9, Zenon
    <3>. QED  BY <1>8, <2>2, <3>1, <3>2, OthersStay, Zenon
  <2>. QED  BY <2>1, <2>2
<1>11. \A q : q # round.id => PlayedGames(q)' = PlayedGames(q)
  BY <1>2, <1>4, <1>6 DEF PlayedGames
<1>12. /\ PlayedGames(round.id)' = PlayedGames(round.id) \cup {id}
       /\ id \notin PlayedGames(round.id)
  BY <1>2, <1>4, <1>6 DEF PlayedGames
<1>13. GamesAreCounted'
  <2>1. failures \in Nat /\ failures' \in Nat
    BY TournamentAssumption DEF IInv, TypeOK
  <2>2. /\ Cardinality(InHand) \in Nat \ {0}
        /\ Cardinality(InHand') = Cardinality(InHand) - 1
    BY <1>1, HandLess
  <2>3. IsFiniteSet(PlayedGames(round.id)) /\ Cardinality(PlayedGames(round.id)) \in Nat
    BY <1>3, GamesFinite
  <2>4. Cardinality(PlayedGames(round.id)') = Cardinality(PlayedGames(round.id)) + 1
    BY <1>12, <2>3, FS_AddElement
  <2>5. UNCHANGED << pc, roster, round.id, round.numGames >> /\ pc = "running"
    BY <1>1, AtWork
  <2>6. Lone => Lone'
    BY <1>1, UnderwayNotLone
  <2> DEFINE played == Cardinality(PlayedGames(round.id)')
             inHand == Cardinality(InHand')
             known == Cardinality(PlayedGames(round.id)) + Cardinality(InHand)
  <2>7. /\ played \in Nat /\ inHand \in Nat /\ known \in Nat
        /\ played + inHand <= known /\ known + failures <= played + inHand + failures'
    BY <2>1, <2>2, <2>3, <2>4
  <2> HIDE DEF played, inHand, known
  <2>. QED  BY <1>6, <2>1, <2>5, <2>6, <2>7, CountStays DEF played, inHand, known
<1>14. \A g \in DOMAIN game' : game'[g].round \in started
  BY <1>1, <1>2, <1>4, <1>6, AtWork DEF IInv, EngineInStep, RoundsInOrder
<1>15. \A q \in ended : \A g \in PlayedGames(q) : game'[g] = game[g]
  BY <1>2, <1>6 DEF PlayedGames
<1>16. /\ UNCHANGED << started, ended, binary, roster, elo, listed, pc, plan,
                       round.id, round.entrant >>
       /\ pc = "running"
  BY <1>1, AtWork
<1>. QED  BY <1>7, <1>10, <1>11, <1>13, <1>14, <1>15, <1>16, TaskIInv

LEMMA SaveGameIInv == ASSUME IInv, NEW k \in Slots, SaveGame(k) PROVE IInv'
<1> USE DEF SaveGame
<1>1. slot[k].pc = "saving" /\ ~ Over(k) /\ sem' = None
  BY DEF At, Over
<1>2. TaskInStep(k) /\ sem = k
  BY <1>1, AtWork DEF TaskInStep
<1>3. /\ slot' = [slot EXCEPT ![k] = FreeSlot]
      /\ slot'[k] = FreeSlot
      /\ \A j \in Slots \ {k} : slot'[j] = slot[j]
  BY <1>1, AtWork
<1>4. slot' \in [Slots -> SlotType] /\ slot'[k].pc = "completed"
  BY <1>1, <1>3, AtWork, FreeSlotTypes
<1>5. \A j \in Slots \ {k} : slot'[j] = slot[j] /\ (sem' = j <=> sem = j)
  BY <1>1, <1>2, <1>3, ConstantTypes
<1>6. Over(k)' /\ TaskInStep(k)'
  BY <1>1, <1>4, ConstantTypes DEF Over, TaskInStep, Underway, HasRow
<1>7. failures' \in 0 .. MaxFailures /\ failures <= failures'
  BY TournamentAssumption DEF IInv, TypeOK
<1>8. /\ UNCHANGED << due, started, ended, binary, roster, elo, listed, pc,
                      plan, round >>
      /\ At(k, "saving") /\ SaveRow(k) /\ sem' \in Slots \cup {None}
  BY <1>1
<1> HIDE DEF SaveGame
<1>. QED  BY <1>4, <1>5, <1>6, <1>7, <1>8, SavedIInv

LEMMA GameFailsIInv == ASSUME IInv, NEW k \in Slots, GameFails(k) PROVE IInv'
<1> USE DEF GameFails
<1>1. /\ MayFail /\ Fault(k)
      /\ UNCHANGED << due, started, ended, binary, roster, elo, listed, pc,
                      plan, round >>
      /\ Underway(k)
  BY DEF At, Underway
<1>2. CASE UNCHANGED game
  BY <1>1, <1>2, GameLostIInv
<1>3. CASE At(k, "saving") /\ SaveRow(k)
  <2> HIDE DEF GameFails
  <2>. QED  BY <1>1, <1>3, FaultedTask, FailureBound, SavedIInv
<1>. QED  BY <1>2, <1>3

-----------------------------------------------------------------------------
(* The theorems                                                            *)

LEMMA NextIInv == IInv /\ [Next]_vars => IInv'
<1> SUFFICES ASSUME IInv, [Next]_vars PROVE IInv'
  OBVIOUS
<1>1. CASE UNCHANGED vars
  <2> USE <1>1 DEF vars, tables
  <2>1. TypeOK'
    BY DEF IInv, TypeOK
  <2>2. LoopInStep'
    BY DEF IInv, EngineInStep, LoopInStep, Active, AllOver, Over, At, Quota,
           GamesToRun, Entered
  <2>3. failures <= failures'
    BY TournamentAssumption DEF IInv, TypeOK
  <2>. QED  BY <2>1, <2>2, <2>3, QuietIInv
<1>2. CASE Main
  BY <1>2, ConnectIInv, ResumeRoundIInv, PlanRoundIInv, StartRoundIInv, RecoverIInv,
     AwaitGamesIInv, FinishRoundIInv, DispatchIInv DEF Main
<1>3. ASSUME NEW k \in Slots, Game(k)
      PROVE  IInv'
  BY <1>3, SelectPlayersIInv, SelectThrowsIInv, InsertGameIInv, GameEndsIInv,
     UpdateRatingsIInv, SaveGameIInv DEF Game
<1>4. CASE Failure
  BY <1>4, DatabaseFailsIInv, CrashIInv, GameFailsIInv DEF Failure
<1>5. CASE Outside
  BY <1>5, ScheduleReachedIInv, BinaryValidatedIInv DEF Outside
<1>. QED  BY <1>1, <1>2, <1>3, <1>4, <1>5 DEF Next

(* Memory and tables agree at every step of every tournament, whatever     *)
(* fails, crashes or is tried again.                                       *)
THEOREM EngineStaysInStep == Spec => []IInv
BY InitIInv, NextIInv, PTL DEF Spec

(* The state is always of its type, and the one connection of the engine   *)
(* is never used for two commands at once, since the semaphore is held by  *)
(* at most one task and the loop waits for all tasks (Program.cs:51).      *)
THEOREM ConnectionIsNotShared == Spec => []EngineConsistent
<1>1. IInv => EngineConsistent
  <2> SUFFICES ASSUME IInv PROVE EngineConsistent
    OBVIOUS
  <2> DEFINE busy == {k \in Slots : slot[k].pc \in {"inserting", "saving"}}
  <2>1. busy \subseteq {sem}
    BY DEF IInv, EngineInStep, TaskInStep
  <2>2. Cardinality(busy) <= 1
    <3>1. IsFiniteSet({sem}) /\ Cardinality({sem}) = 1
      BY FS_Singleton
    <3> HIDE DEF busy
    <3>2. Cardinality(busy) <= Cardinality({sem})
      BY <2>1, <3>1, FS_Subset
    <3>. QED  BY <3>1, <3>2
  <2>3. pc # "running" => busy = {}
    BY DEF IInv, EngineInStep, LoopInStep, AllOver, Over
  <2>. QED  BY <2>2, <2>3 DEF EngineConsistent, OneCommandAtATime, IInv
<1>. QED  BY <1>1, EngineStaysInStep, PTL

(* The results of every round that ended account for exactly the games     *)
(* recorded as played in it (FinishRound, Tournament.cs:30-82).            *)
THEOREM ResultsAreComplete == Spec => []ResultsAccountForGames
<1>1. IInv => ResultsAccountForGames
  BY DEF IInv
<1>. QED  BY <1>1, EngineStaysInStep, PTL

(* No round records more games than it is meant to have, and it ends with  *)
(* at most one missing per failure (RunRoundLoop, Tournament.cs:202-263).  *)
THEOREM NoGamesLost == Spec => []RoundsAreWhole
<1>1. IInv => RoundsAreWhole
  BY DEF IInv
<1>. QED  BY <1>1, EngineStaysInStep, PTL

(* The binaries a round is played with are those its teams entered with    *)
(* (RecoverRoundData, Tournament.cs:182-197).                              *)
THEOREM RoundsArePlayedAsEntered == Spec => []BinariesAreFrozen
<1>1. IInv => BinariesAreFrozen
  BY DEF IInv, EngineInStep, LoopInStep, BinariesAreFrozen
<1>. QED  BY <1>1, EngineStaysInStep, PTL

-----------------------------------------------------------------------------
(* The engine implements RoundTables                                       *)

LEMMA SameSum == ASSUME NEW f PROVE Books!SumFunction(f) = SumFunction(f)
BY DEF SumFunction, Books!SumFunction, SumFunctionOnSet, Books!SumFunctionOnSet,
       FoldFunctionOnSet, Books!FoldFunctionOnSet, MapThenFoldSet,
       Books!MapThenFoldSet

LEMMA SameWords ==
    /\ Books!Rounds = Rounds /\ Books!Active = Active
    /\ \A r : Books!Entered(r) = Entered(r) /\ Books!Played(r) = PlayedGames(r)
    /\ \A r, t : Books!GamesOf(r, t) = GamesOf(r, t)
    /\ \A r \in Rounds : \A t : Books!StartingElo(r, t) = StartingElo(r, t)
    /\ \A S : Books!kSubset(2, S) = kSubset(2, S)
    /\ \A T, w, d : [t \in Teams |-> IF t \notin T THEN 0
                                     ELSE IF t = w THEN d ELSE -d]
                      = EloDeltas(T, w, d)
<1>1. /\ Books!Rounds = Rounds /\ Books!Active = Active
      /\ \A r : Books!Entered(r) = Entered(r) /\ Books!Played(r) = PlayedGames(r)
  BY DEF Books!Rounds, Rounds, Books!Active, Active, Books!Entered, Entered,
         Books!Played, PlayedGames, None
<1>2. \A r, t : Books!GamesOf(r, t) = GamesOf(r, t)
  BY <1>1 DEF Books!GamesOf, GamesOf
<1>3. \A r \in Rounds : \A t : Books!StartingElo(r, t) = StartingElo(r, t)
  BY <1>1, TournamentAssumption DEF Books!StartingElo, StartingElo, Rounds
<1>4. \A S : Books!kSubset(2, S) = kSubset(2, S)
  BY DEF Books!kSubset, kSubset, Books!Cardinality, Cardinality
<1>5. \A T, w, d : [t \in Teams |-> IF t \notin T THEN 0
                                    ELSE IF t = w THEN d ELSE -d]
                      = EloDeltas(T, w, d)
  BY DEF EloDeltas
<1>. QED  BY <1>1, <1>2, <1>3, <1>4, <1>5

LEMMA InitBooks == Init => Books!Init
BY TournamentAssumption DEF Init, Books!Init, Books!Rounds, Rounds, NoTeams, None

LEMMA StartRoundBooks ==
    ASSUME IInv, StartRound
    PROVE  \E r \in Rounds : Books!StartRound(r)
<1> USE DEF StartRound
<1>1. PICK r \in NextUnstarted : /\ roster' = [roster EXCEPT ![r] = plan]
                                 /\ started' = started \cup {r}
  OBVIOUS
<1>2. /\ r \in Rounds \ started
      /\ \A q \in Rounds \ started : r <= q
      /\ started = ended
  BY DEF NextUnstarted, IInv, EngineInStep, LoopInStep, Active, TypeOK
<1>3. 1 .. r - 1 \subseteq ended
  BY <1>2, TournamentAssumption DEF Rounds
<1>4. plan \in {f \in [Teams -> 0 .. MaxUploads] : \A t \in Teams : f[t] <= binary[t]}
  BY DEF IInv, TypeOK, EngineInStep, LoopInStep
<1>. QED  BY <1>1, <1>2, <1>3, <1>4, SameWords DEF Books!StartRound

LEMMA InsertGameBooks ==
    ASSUME IInv, NEW k \in Slots, InsertGame(k)
    PROVE  \E r \in Rounds : Books!InsertGame(r)
<1> USE DEF InsertGame
<1>1. ~ Over(k) /\ Underway(k)
  BY DEF At, Over, Underway
<1>2. /\ round.id \in Rounds /\ round.id \in Active
      /\ slot[k].teams \in kSubset(2, Entered(round.id))
  BY <1>1, AtWork DEF TaskInStep, Active
<1>. QED  BY <1>2, SameWords DEF Books!InsertGame, NoTeams, None

LEMMA SaveRowBooks ==
    ASSUME IInv, NEW k \in Slots, At(k, "saving"), SaveRow(k),
           UNCHANGED << started, ended, binary, roster, elo >>
    PROVE  \E g \in DOMAIN game : Books!SaveGame(g)
<1>1. ~ Over(k) /\ HasRow(k) /\ slot[k].pc = "saving"
  BY DEF At, Over, HasRow
<1> DEFINE id == slot[k].id
<1>2. /\ id \in DOMAIN game /\ ~ game[id].done /\ game[id].round = round.id
      /\ game[id].teams = slot[k].teams /\ round.id \in Active
  BY <1>1, AtWork DEF TaskInStep, Active
<1>3. PICK w \in game[id].teams, d \in Gains :
        slot[k].gain = EloDeltas(game[id].teams, w, d)
  BY <1>1, <1>2, AtWork DEF TaskInStep
<1>4. game[id] \in RowType
  BY <1>2 DEF IInv, TypeOK
<1>5. game' = [game EXCEPT ![id].done = TRUE,
                           ![id].gain = EloDeltas(game[id].teams, w, d)]
  BY <1>2, <1>3, <1>4 DEF SaveRow, RowType, IInv, TypeOK
<1>6. EloDeltas(game[id].teams, w, d)
        = [t \in Teams |-> IF t \notin game[id].teams THEN 0
                           ELSE IF t = w THEN d ELSE -d]
  BY DEF EloDeltas
<1>7. Books!SaveGame(id)
  BY <1>2, <1>3, <1>5, <1>6, SameWords DEF Books!SaveGame
<1>. QED  BY <1>2, <1>7

LEMMA FinishRoundBooks ==
    ASSUME IInv, FinishRound
    PROVE  \E r \in Rounds : Books!FinishRound(r)
<1> USE DEF FinishRound
<1>1. PICK r \in Active :
        /\ elo' = [elo EXCEPT ![r] = [t \in Teams |->
                     IF t \in Entered(r) THEN RecoveredElo(r, t) ELSE NoElo]]
        /\ ended' = ended \cup {r}
  OBVIOUS
<1>2. r \in Rounds
  BY DEF Active, IInv, TypeOK
<1>3. ASSUME NEW t \in Teams
      PROVE  RecoveredElo(r, t)
               = Books!StartingElo(r, t)
                   + Books!SumFunction([g \in Books!GamesOf(r, t) |-> game[g].gain[t]])
  BY <1>2, SameWords, SameSum DEF RecoveredElo
<1>4. [t \in Teams |-> IF t \in Entered(r) THEN RecoveredElo(r, t) ELSE NoElo]
        = [t \in Teams |->
             IF t \in Books!Entered(r)
             THEN Books!StartingElo(r, t)
                    + Books!SumFunction([g \in Books!GamesOf(r, t) |-> game[g].gain[t]])
             ELSE NoElo]
  BY <1>3, SameWords
<1>5. Books!FinishRound(r)
  BY <1>1, <1>4, SameWords DEF Books!FinishRound
<1>. QED  BY <1>2, <1>5

LEMMA NextBooks == IInv /\ [Next]_vars => [Books!Next]_(Books!tables)
<1> SUFFICES ASSUME IInv, [Next]_vars, ~ UNCHANGED Books!tables
             PROVE  Books!Next
  OBVIOUS
<1> USE DEF Books!tables
<1>1. CASE UNCHANGED vars
  BY <1>1 DEF vars, tables
<1>2. CASE Connect \/ ResumeRound \/ PlanRound \/ Recover \/ AwaitGames
  BY <1>2 DEF Connect, ResumeRound, PlanRound, Recover, AwaitGames, tables
<1>3. CASE StartRound
  BY <1>3, StartRoundBooks, SameWords DEF Books!Next
<1>4. CASE FinishRound
  BY <1>4, FinishRoundBooks, SameWords DEF Books!Next
<1>5. ASSUME NEW k \in Slots,
             \/ Dispatch(k) \/ SelectPlayers(k) \/ SelectThrows(k)
             \/ GameEnds(k) \/ UpdateRatings(k)
      PROVE  FALSE
  BY <1>5 DEF Dispatch, SelectPlayers, SelectThrows, GameEnds, UpdateRatings, tables
<1>6. ASSUME NEW k \in Slots, InsertGame(k)
      PROVE  Books!Next
  BY <1>6, InsertGameBooks, SameWords DEF Books!Next
<1>7. ASSUME NEW k \in Slots, SaveGame(k)
      PROVE  Books!Next
  BY <1>7, SaveRowBooks DEF SaveGame, Books!Next
<1>8. ASSUME NEW k \in Slots, GameFails(k)
      PROVE  Books!Next
  BY <1>8, SaveRowBooks DEF GameFails, Books!Next
<1>9. CASE DatabaseFails \/ Crash
  BY <1>9 DEF DatabaseFails, Crash, tables
<1>10. ASSUME NEW r \in Rounds, ScheduleReached(r)
       PROVE  FALSE
  BY <1>10 DEF ScheduleReached
<1>11. ASSUME NEW t \in Teams, BinaryValidated(t)
       PROVE  Books!Next
  BY <1>11 DEF BinaryValidated, Books!Next, Books!Validate
<1>. QED  BY <1>1, <1>2, <1>3, <1>4, <1>5, <1>6, <1>7, <1>8, <1>9, <1>10, <1>11
          DEF Next, Main, Game, Failure, Outside

(* However often the engine fails and starts over, the tables go from      *)
(* round to round as RoundTables says: each round after the one before,    *)
(* games between its teams only while it is on, each with one result, and  *)
(* final ratings that sum them up.                                         *)
THEOREM EngineImplementsBooks == Spec => BooksAreKept
BY InitBooks, NextBooks, EngineStaysInStep, PTL DEF Spec, BooksAreKept, Books!Spec

=============================================================================
