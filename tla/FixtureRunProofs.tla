-------------------------- MODULE FixtureRunProofs --------------------------
(***************************************************************************)
(* For every set of tokens, keys, gaps and capacities: an overflow of the  *)
(* canonical bus blocks the rest of its scenario, no other gap blocks what *)
(* it did not name, a replay of the records takes every trade through the  *)
(* gate as the run did, a scenario leaves nothing behind, and a run uses   *)
(* the reconciler only as ShredReconciler allows.                          *)
(*                                                                         *)
(* The first needs no more than what raises and clears a gap.  The others  *)
(* rest on one invariant, RunInv: the active gaps are those that a replay  *)
(* of the records has reached, and what was published is recorded or waits.*)
(***************************************************************************)
EXTENDS FixtureRun, FoldLemmas, TLAPS

(* The gap that an overflow raised is active. *)
RaisedStays == dropped \in Nat /\ (dropped > 0 => Raised \subseteq gaps)

LEMMA RaisedGap == Raised = {[scope |-> "Global", token |-> AnyToken]}
PROOF
<1>1. Raised = [scope : {"Global"}, token : {AnyToken}]
  BY DEF Raised, ScopedGaps
<1>2. ASSUME NEW x \in [scope : {"Global"}, token : {AnyToken}]
      PROVE  x = [scope |-> "Global", token |-> AnyToken]
  OBVIOUS
<1>3. [scope |-> "Global", token |-> AnyToken] \in [scope : {"Global"}, token : {AnyToken}]
  OBVIOUS
<1> QED BY <1>1, <1>2, <1>3, Zenon

(* No gap event of a scenario clears it. *)
LEMMA UpdatesKeepRaised ==
  ASSUME NEW g, NEW e, Raised \subseteq g
  PROVE  Raised \subseteq UpdatedGaps(g, e)
PROOF
<1>1. [scope |-> "Global", token |-> AnyToken] \notin ScopedGaps(e.tokens, FALSE)
  BY DEF ScopedGaps
<1> QED BY <1>1, RaisedGap DEF UpdatedGaps

(* While it is active no token may be traded. *)
LEMMA RaisedBlocks ==
  ASSUME Raised \subseteq gaps, NEW m
  PROVE  ~Allowed(gaps, m)
  BY RaisedGap DEF Allowed

-----------------------------------------------------------------------------
THEOREM RaisedAlwaysStays == Spec => []RaisedStays
PROOF
<1>1. Init => RaisedStays
  BY DEF Init, RaisedStays
<1>2. RaisedStays /\ [Next]_vars => RaisedStays'
  <2> SUFFICES ASSUME RaisedStays, [Next]_vars PROVE RaisedStays'
    OBVIOUS
  <2>0. dropped \in Nat /\ (dropped > 0 => Raised \subseteq gaps)
    BY DEF RaisedStays
  <2>1. CASE UNCHANGED <<gaps, dropped>>
    BY <2>0, <2>1 DEF RaisedStays, Raised, ScopedGaps
  <2>2. ASSUME NEW e \in Trades \cup Gaps, Publish(e) PROVE RaisedStays'
    <3>1. \/ UNCHANGED <<gaps, dropped>>
          \/ dropped' = dropped + 1 /\ gaps' = gaps \cup Raised
      BY <2>2 DEF Publish, PublishCanonical
    <3> QED BY <2>0, <2>1, <3>1 DEF RaisedStays, Raised, ScopedGaps
  <2>3. CASE HandleCanonical
    <3>1. /\ dropped' = dropped
          /\ gaps' = gaps \/ gaps' = UpdatedGaps(gaps, Head(canonical))
      BY <2>3 DEF HandleCanonical
    <3>2. dropped > 0 => Raised \subseteq gaps'
      BY <2>0, <3>1, UpdatesKeepRaised
    <3> QED BY <2>0, <3>1, <3>2 DEF RaisedStays, Raised, ScopedGaps
  <2>4. CASE NextScenario
    BY <2>4 DEF NextScenario, RaisedStays
  <2>5. ASSUME NEW t \in Trades, IngestShred(t) \/ PublishGuess(t) PROVE RaisedStays'
    BY <2>1, <2>5 DEF IngestShred, PublishGuess
  <2>6. CASE EndBatch \/ HandleTentative \/ DrainEnds
    BY <2>1, <2>6 DEF EndBatch, HandleTentative, DrainEnds
  <2>7. CASE UNCHANGED vars
    BY <2>1, <2>7 DEF vars, runVars
  <2> QED BY <2>2, <2>3, <2>4, <2>5, <2>6, <2>7 DEF Next
<1> QED BY <1>1, <1>2, PTL DEF Spec

(* Once a canonical event was dropped, no trade of the scenario passes. *)
THEOREM OverflowsBlock == Spec => []OverflowBlocks
PROOF
<1>1. RaisedStays => OverflowBlocks
  BY RaisedBlocks DEF RaisedStays, OverflowBlocks
<1> QED BY <1>1, RaisedAlwaysStays, PTL

-----------------------------------------------------------------------------
(* Every step of a run is a step of the reconciler or leaves it alone. *)
THEOREM RunRefinesReconciler == Spec => ReconcilerBehaves
PROOF
<1>1. Init => R!ReconcilerInit
  BY DEF Init
<1>2. [Next]_vars => [R!ReconcilerNext]_(R!reconcilerVars)
  <2> SUFFICES ASSUME [Next]_vars
               PROVE  R!ReconcilerNext \/ UNCHANGED R!reconcilerVars
    OBVIOUS
  <2>0. CASE UNCHANGED reconcilerVars
    BY <2>0 DEF reconcilerVars, R!reconcilerVars
  <2>1. ASSUME NEW t \in Trades, IngestShred(t) PROVE R!ReconcilerNext
    <3>1. t.key \in Keys /\ 1 \in 0 .. 1 /\ R!RecordTentative(t.key, 1)
      BY <2>1, FixtureAssumption DEF FixtureAssumption, IngestShred
    <3> QED BY <3>1 DEF R!ReconcilerNext
  <2>2. CASE HandleCanonical
    <3>1. CASE Head(canonical) \in Trades
      <4>1. R!ReconcileCanonical(Head(canonical).key)
        BY <2>2, <3>1 DEF HandleCanonical
      <4>2. Head(canonical).key \in Keys
        BY <3>1, FixtureAssumption DEF FixtureAssumption
      <4> QED BY <4>1, <4>2 DEF R!ReconcilerNext
    <3>2. CASE Head(canonical) \notin Trades
      BY <2>0, <2>2, <3>2 DEF HandleCanonical
    <3> QED BY <3>1, <3>2
  <2>3. CASE DrainEnds
    BY <2>3 DEF DrainEnds, R!ReconcilerNext
  <2>4. ASSUME NEW t \in Trades, PublishGuess(t) PROVE UNCHANGED reconcilerVars
    BY <2>4 DEF PublishGuess
  <2>5. ASSUME NEW e \in Trades \cup Gaps, Publish(e) PROVE UNCHANGED reconcilerVars
    BY <2>5 DEF Publish
  <2>6. CASE EndBatch \/ HandleTentative \/ NextScenario
    BY <2>0, <2>6 DEF EndBatch, HandleTentative, NextScenario
  <2>7. CASE UNCHANGED vars
    BY <2>0, <2>7 DEF vars
  <2> QED BY <2>0, <2>1, <2>2, <2>3, <2>4, <2>5, <2>6, <2>7 DEF Next
<1> QED BY <1>1, <1>2, PTL DEF Spec, ReconcilerBehaves, R!ReconcilerSpec

-----------------------------------------------------------------------------
(* The records of a run. *)

Records == [scenario : Nat, event : Trades \cup Gaps, tentative : BOOLEAN,
            overflow : BOOLEAN, allowed : BOOLEAN]
ActiveGaps == SUBSET [scope : Scopes, token : Mints \cup {AnyToken}]

(* What the buses, the records and the reconciler hold. *)
RunTypeOK ==
  /\ scenario \in Nat /\ published \in Nat
  /\ canonical \in Seq(Trades \cup Gaps) /\ waiting \in Seq(Trades)
  /\ log \in Seq(Records) /\ gaps \in ActiveGaps
  /\ pending \in SUBSET Keys /\ age \in [Keys -> 0 .. 1] /\ order \in Seq(Keys)

(* No record is of a scenario to come. *)
RecordsAreDue == \A i \in DOMAIN log : log[i].scenario <= scenario

(* The record r blocks m for the rest of scenario n. *)
Blocks(r, m, n) ==
  /\ r.scenario = n
  /\ \/ r.overflow
     \/ /\ r.event \in Gaps /\ ~r.event.resume
        /\ r.event.tokens = {} \/ m \in r.event.tokens

(* A token is blocked by a record of the scenario. *)
BlockedByRecord ==
  \A m \in Mints : ~Allowed(gaps, m) => \E j \in DOMAIN log : Blocks(log[j], m, scenario)

(* A replay that has come as far has the same gaps, and none of a scenario  *)
(* to come.                                                                 *)
ReplayFollows ==
  /\ gaps = ReplayGaps(scenario, log)
  /\ \A n \in Nat : n > scenario => ReplayGaps(n, log) = {}

(* The canonical records of scenario n. *)
Recorded(L, n) == {i \in DOMAIN L : L[i].scenario = n /\ ~L[i].tentative}

(* What was published is recorded or waits. *)
NothingLost == published = Len(canonical) + Cardinality(Recorded(log, scenario))

(* What waits in the reconciler has outlived its time, and can be reached. *)
WaitsToExpire ==
  \A k \in pending : age[k] = 1 /\ \E i \in DOMAIN order : order[i] = k

(* A scenario is over when nothing waits. *)
OverIsEmpty ==
  stage = "over" /\ ~draining => canonical = <<>> /\ waiting = <<>> /\ pending = {}

-----------------------------------------------------------------------------
(* The replay, a record at a time. *)

ReplayStep(n) == [p \in ActiveGaps \X Records |-> Replayed(n, p[1], p[2])]

(* A record raises and clears gaps of the known scopes. *)
LEMMA ReplayedType ==
  ASSUME NEW n, NEW g \in ActiveGaps, NEW r \in Records
  PROVE  Replayed(n, g, r) \in ActiveGaps
PROOF
<1>1. ASSUME NEW T \in SUBSET Mints, NEW b \in BOOLEAN
      PROVE  ScopedGaps(T, b) \in ActiveGaps
  BY DEF ScopedGaps, ActiveGaps, Scopes
<1>2. Raised \in ActiveGaps
  BY <1>1 DEF Raised
<1>3. r.event \in Gaps => r.event.tokens \in SUBSET Mints
  BY FixtureAssumption DEF FixtureAssumption
<1>4. r.event \in Gaps => UpdatedGaps(g, r.event) \in ActiveGaps
  <2> SUFFICES ASSUME r.event \in Gaps PROVE UpdatedGaps(g, r.event) \in ActiveGaps
    OBVIOUS
  <2>1. ScopedGaps(r.event.tokens, FALSE) \in ActiveGaps
    BY <1>1, <1>3
  <2> QED
    BY <2>1 DEF UpdatedGaps, ActiveGaps
<1>5. g \cup Raised \in ActiveGaps
  BY <1>2 DEF ActiveGaps
<1> QED
  BY <1>4, <1>5 DEF Replayed

LEMMA ReplayStepType ==
  ASSUME NEW n
  PROVE  /\ ReplayStep(n) \in [ActiveGaps \X Records -> ActiveGaps]
         /\ \A g \in ActiveGaps, r \in Records : ReplayStep(n)[<<g, r>>] = Replayed(n, g, r)
         /\ {} \in ActiveGaps
PROOF
<1>1. {} \in ActiveGaps
  BY DEF ActiveGaps
<1>2. \A p \in ActiveGaps \X Records : Replayed(n, p[1], p[2]) \in ActiveGaps
  BY ReplayedType
<1>3. ReplayStep(n) \in [ActiveGaps \X Records -> ActiveGaps]
  BY <1>2 DEF ReplayStep
<1>4. \A g \in ActiveGaps, r \in Records : ReplayStep(n)[<<g, r>>] = Replayed(n, g, r)
  BY DEF ReplayStep
<1> QED
  BY <1>1, <1>3, <1>4

(* The gaps of a replay are a fold of its records. *)
LEMMA ReplayIsFold ==
  ASSUME NEW n, NEW L \in Seq(Records)
  PROVE  ReplayGaps(n, L) = SeqFold({}, ReplayStep(n), L)
PROOF
<1> DEFINE S == DOMAIN L
           iter[s \in SUBSET S] ==
             IF s = {} THEN {} ELSE Replayed(n, iter[s \ {Max(s)}], L[Max(s)])
           Eqn(f) == f = [s \in SUBSET S |->
             IF s = {} THEN {} ELSE Replayed(n, f[s \ {Max(s)}], L[Max(s)])]
<1>1. ReplayGaps(n, L) = iter[S]
  BY DEF ReplayGaps, FoldLeft, MapThenFoldSet
<1>2. iter = CHOOSE f : Eqn(f)
  OBVIOUS
<1> HIDE DEF iter
<1>3. PICK g \in [SUBSET DOMAIN L -> ActiveGaps] : FoldsLeft(g, {}, ReplayStep(n), L)
  BY ReplayStepType, FoldLeftExists
<1>4. ASSUME NEW s \in SUBSET S, s # {}
      PROVE  Max(s) \in s /\ L[Max(s)] \in Records
  BY <1>4, LastOfPlaces
<1>5. ASSUME NEW s \in SUBSET S
      PROVE  g[s] = IF s = {} THEN {} ELSE Replayed(n, g[s \ {Max(s)}], L[Max(s)])
  <2>1. g[s] = IF s = {} THEN {} ELSE ReplayStep(n)[<<g[s \ {Max(s)}], L[Max(s)]>>]
    BY <1>3 DEF FoldsLeft
  <2>2. CASE s = {}
    BY <2>1, <2>2
  <2>3. CASE s # {}
    <3>1. g[s \ {Max(s)}] \in ActiveGaps /\ L[Max(s)] \in Records
      BY <1>3, <1>4, <2>3
    <3> QED
      BY <2>1, <2>3, <3>1, ReplayStepType
  <2> QED
    BY <2>2, <2>3
<1>6. Eqn(g)
  <2>1. g = [s \in SUBSET S |-> g[s]]
    BY <1>3
  <2> QED
    BY <1>5, <2>1
<1>7. Eqn(iter)
  <2> HIDE DEF Eqn
  <2> QED BY <1>2, <1>6
<1>8. \A s \in SUBSET S :
        iter[s] = IF s = {} THEN {} ELSE Replayed(n, iter[s \ {Max(s)}], L[Max(s)])
  BY <1>7
<1> HIDE DEF Eqn
<1>9. iter[S] = g[S]
  <2> DEFINE B == {s \in SUBSET S : iter[s] # g[s]}
  <2>1. SUFFICES ASSUME B # {} PROVE FALSE
    OBVIOUS
  <2>2. IsFiniteSet(S) /\ B \in SUBSET (SUBSET S)
    <3>1. S = 1 .. Len(L) /\ Len(L) \in Nat
      OBVIOUS
    <3> QED
      BY <3>1, FS_Interval
  <2>3. PICK T \in B : \A U \in SUBSET T : U # T => U \notin B
    <3> HIDE DEF B, S
    <3> QED BY <2>1, <2>2, MinimalSet
  <2>4. T \in SUBSET S /\ iter[T] # g[T]
    BY <2>3
  <2>5. T # {}
    BY <1>5, <1>8, <2>4
  <2>6. iter[T \ {Max(T)}] = g[T \ {Max(T)}]
    BY <1>4, <2>3, <2>4, <2>5
  <2>7. /\ iter[T] = Replayed(n, iter[T \ {Max(T)}], L[Max(T)])
        /\ g[T] = Replayed(n, g[T \ {Max(T)}], L[Max(T)])
    BY <1>5, <1>8, <2>4, <2>5
  <2> QED
    BY <2>4, <2>6, <2>7
<1>10. SeqFold({}, ReplayStep(n), L) = g[S]
  BY <1>3, SeqFoldIs
<1> QED
  BY <1>1, <1>9, <1>10

(* One record more is one step more, and before the first there is no gap. *)
LEMMA ReplayAppends ==
  ASSUME NEW n, NEW L \in Seq(Records), NEW r \in Records
  PROVE  /\ ReplayGaps(n, Append(L, r)) = Replayed(n, ReplayGaps(n, L), r)
         /\ ReplayGaps(n, L) \in ActiveGaps
PROOF
<1>1. Append(L, r) \in Seq(Records)
  OBVIOUS
<1>2. /\ ReplayGaps(n, L) = SeqFold({}, ReplayStep(n), L)
      /\ ReplayGaps(n, Append(L, r)) = SeqFold({}, ReplayStep(n), Append(L, r))
  BY <1>1, ReplayIsFold
<1>3. /\ SeqFold({}, ReplayStep(n), Append(L, r))
           = ReplayStep(n)[<<SeqFold({}, ReplayStep(n), L), r>>]
      /\ SeqFold({}, ReplayStep(n), L) \in ActiveGaps
  BY ReplayStepType, SeqFoldAppends
<1> QED
  BY <1>2, <1>3, ReplayStepType

LEMMA ReplayBegins == ASSUME NEW n PROVE ReplayGaps(n, <<>>) = {}
PROOF
<1>1. <<>> \in Seq(Records)
  OBVIOUS
<1> QED
  BY <1>1, ReplayIsFold, ReplayStepType, SeqFoldEmpty

-----------------------------------------------------------------------------
(* Types. *)

(* The events of the buses are recorded as what they are. *)
LEMMA RecordTypes ==
  ASSUME scenario \in Nat, NEW e \in Trades \cup Gaps, NEW b \in BOOLEAN
  PROVE  /\ Handled(e, b) \in Records /\ OverflowRecord(e) \in Records
         /\ Handled(e, b).scenario = scenario /\ OverflowRecord(e).scenario = scenario
         /\ Handled(e, b).event = e /\ OverflowRecord(e).event = e
         /\ Handled(e, b).tentative = b /\ ~OverflowRecord(e).tentative
         /\ ~Handled(e, b).overflow /\ OverflowRecord(e).overflow
         /\ e \in Trades => Handled(e, b).allowed = Allowed(gaps, e.mint)
PROOF
<1>1. \A g, m : Allowed(g, m) \in BOOLEAN
  BY DEF Allowed
<1>2. (IF e \in Trades THEN Allowed(gaps, e.mint) ELSE FALSE) \in BOOLEAN
  BY <1>1
<1> QED
  BY <1>2 DEF Handled, OverflowRecord, Records

LEMMA FixtureEvents ==
  /\ \A t \in Trades : t.key \in Keys /\ t.mint \in Mints /\ t \notin Gaps
  /\ \A e \in Gaps : e.tokens \in SUBSET Mints
  BY FixtureAssumption DEF FixtureAssumption

(***************************************************************************)
(* What a step does to the records: nothing, or it adds one of the present *)
(* scenario and takes the gaps along, or it begins the next scenario.      *)
(***************************************************************************)
Adds(r) ==
  /\ r \in Records /\ r.scenario = scenario
  /\ log' = Append(log, r) /\ scenario' = scenario
  /\ gaps' = Replayed(scenario, gaps, r)
  /\ r.event \in Trades /\ ~r.overflow => r.allowed = Allowed(gaps, r.event.mint)

LEMMA PublishAdds ==
  ASSUME RunTypeOK, NEW e \in Trades \cup Gaps, Publish(e)
  PROVE  \/ UNCHANGED <<log, gaps, scenario>>
         \/ Adds(OverflowRecord(e))
PROOF
<1>1. scenario' = scenario
  BY DEF Publish
<1>2. CASE UNCHANGED <<log, gaps>>
  BY <1>1, <1>2
<1>3. CASE log' = Append(log, OverflowRecord(e)) /\ gaps' = gaps \cup Raised
  <2>1. scenario \in Nat
    BY DEF RunTypeOK
  <2> QED
    BY <1>1, <1>3, <2>1, RecordTypes DEF Adds, Replayed
<1> QED
  BY <1>2, <1>3 DEF Publish, PublishCanonical

LEMMA HandledAdds ==
  ASSUME RunTypeOK, NEW e \in Trades \cup Gaps, NEW b \in BOOLEAN,
         log' = Append(log, Handled(e, b)), scenario' = scenario,
         gaps' = IF e \in Trades THEN gaps ELSE UpdatedGaps(gaps, e)
  PROVE  Adds(Handled(e, b))
PROOF
<1> DEFINE r == Handled(e, b)
<1>1. scenario \in Nat
  BY DEF RunTypeOK
<1>2. /\ r \in Records /\ r.scenario = scenario /\ r.event = e /\ ~r.overflow
      /\ e \in Trades => r.allowed = Allowed(gaps, e.mint)
  BY <1>1, RecordTypes
<1>3. log' = Append(log, r)
  OBVIOUS
<1> HIDE DEF r
<1>4. CASE e \in Trades
  <2>1. e \notin Gaps
    BY <1>4, FixtureEvents
  <2>2. gaps' = Replayed(scenario, gaps, r)
    BY <1>2, <1>4, <2>1 DEF Replayed
  <2> QED
    BY <1>2, <1>3, <2>2 DEF Adds, r
<1>5. CASE e \notin Trades
  <2>1. gaps' = Replayed(scenario, gaps, r)
    BY <1>2, <1>5 DEF Replayed
  <2> QED
    BY <1>2, <1>3, <1>5, <2>1 DEF Adds, r
<1> QED
  BY <1>4, <1>5

LEMMA HandleCanonicalAdds ==
  ASSUME RunTypeOK, HandleCanonical
  PROVE  /\ Head(canonical) \in Trades \cup Gaps
         /\ Adds(Handled(Head(canonical), FALSE))
PROOF
<1>1. Head(canonical) \in Trades \cup Gaps
  <2>1. canonical \in Seq(Trades \cup Gaps) /\ canonical # <<>>
    BY DEF RunTypeOK, HandleCanonical
  <2> QED
    BY <2>1
<1>2. /\ log' = Append(log, Handled(Head(canonical), FALSE)) /\ scenario' = scenario
      /\ gaps' = IF Head(canonical) \in Trades THEN gaps ELSE UpdatedGaps(gaps, Head(canonical))
  BY DEF HandleCanonical
<1> QED
  BY <1>1, <1>2, HandledAdds

LEMMA HandleTentativeAdds ==
  ASSUME RunTypeOK, HandleTentative
  PROVE  Head(waiting) \in Trades /\ Adds(Handled(Head(waiting), TRUE))
PROOF
<1>1. Head(waiting) \in Trades
  <2>1. waiting \in Seq(Trades) /\ waiting # <<>>
    BY DEF RunTypeOK, HandleTentative
  <2> QED
    BY <2>1
<1>2. log' = Append(log, Handled(Head(waiting), TRUE)) /\ scenario' = scenario /\ gaps' = gaps
  BY DEF HandleTentative
<1> QED
  BY <1>1, <1>2, HandledAdds

LEMMA RecordSteps ==
  ASSUME RunTypeOK, [Next]_vars
  PROVE  \/ UNCHANGED <<log, gaps, scenario>>
         \/ \E r \in Records : Adds(r)
         \/ scenario' = scenario + 1 /\ gaps' = {} /\ log' = log
PROOF
<1>1. ASSUME NEW r, Adds(r) PROVE \E x \in Records : Adds(x)
  BY <1>1 DEF Adds
<1>2. ASSUME NEW e \in Trades \cup Gaps, Publish(e)
      PROVE  UNCHANGED <<log, gaps, scenario>> \/ \E r \in Records : Adds(r)
  BY <1>1, <1>2, PublishAdds
<1>3. CASE HandleCanonical
  BY <1>1, <1>3, HandleCanonicalAdds
<1>4. CASE HandleTentative
  BY <1>1, <1>4, HandleTentativeAdds
<1>5. CASE NextScenario
  BY <1>5 DEF NextScenario
<1>6. ASSUME NEW t \in Trades, IngestShred(t) \/ PublishGuess(t)
      PROVE  UNCHANGED <<log, gaps, scenario>>
  BY <1>6 DEF IngestShred, PublishGuess
<1>7. CASE EndBatch \/ DrainEnds
  BY <1>7 DEF EndBatch, DrainEnds
<1>8. CASE UNCHANGED vars
  BY <1>8 DEF vars, runVars
<1> QED
  BY <1>2, <1>3, <1>4, <1>5, <1>6, <1>7, <1>8 DEF Next

(* The reconciler keeps the types of its variables. *)
LEMMA ReconcilerTypesKept ==
  ASSUME pending \in SUBSET Keys, age \in [Keys -> 0 .. 1], order \in Seq(Keys), [Next]_vars
  PROVE  pending' \in SUBSET Keys /\ age' \in [Keys -> 0 .. 1] /\ order' \in Seq(Keys)
PROOF
<1>1. CASE UNCHANGED <<pending, age, order>>
  BY <1>1
<1>2. ASSUME NEW t \in Trades, IngestShred(t)
      PROVE  pending' \in SUBSET Keys /\ age' \in [Keys -> 0 .. 1] /\ order' \in Seq(Keys)
  <2>1. /\ t.key \in Keys /\ pending' = pending \cup {t.key}
        /\ age' = [age EXCEPT ![t.key] = 1] /\ order' = Append(order, t.key)
    BY <1>2, FixtureEvents DEF IngestShred, R!RecordTentative
  <2> QED
    BY <2>1
<1>3. CASE HandleCanonical
  <2>1. \/ UNCHANGED <<pending, age, order>>
        \/ \E k \in Keys : /\ pending' = pending \ {k} /\ order' = order
                           /\ age' = [age EXCEPT ![k] = 0]
    <3>1. CASE Head(canonical) \in Trades
      BY <1>3, <3>1, FixtureEvents DEF HandleCanonical, R!ReconcileCanonical
    <3>2. CASE Head(canonical) \notin Trades
      BY <1>3, <3>2 DEF HandleCanonical, reconcilerVars
    <3> QED
      BY <3>1, <3>2
  <2>2. ASSUME NEW k \in Keys, pending' = pending \ {k}, order' = order,
               age' = [age EXCEPT ![k] = 0]
        PROVE  pending' \in SUBSET Keys /\ age' \in [Keys -> 0 .. 1] /\ order' \in Seq(Keys)
    BY <2>2
  <2> QED
    BY <1>1, <2>1, <2>2
<1>4. CASE DrainEnds
  <2>1. PICK n \in 0 .. Len(order) : R!Expire(n)
    BY <1>4 DEF DrainEnds
  <2>2. /\ pending' = pending \ R!Passed(n)
        /\ order' = SubSeq(order, n + 1, Len(order))
        /\ age' = [k \in Keys |-> IF k \in R!Passed(n) THEN 0 ELSE age[k]]
    BY <2>1 DEF R!Expire
  <2>3. order' \in Seq(Keys)
    BY <2>2
  <2> QED
    BY <2>2, <2>3
<1>5. ASSUME NEW e \in Trades \cup Gaps, Publish(e) \/ (e \in Trades /\ PublishGuess(e))
      PROVE  UNCHANGED <<pending, age, order>>
  BY <1>5 DEF Publish, PublishGuess, reconcilerVars
<1>6. CASE EndBatch \/ HandleTentative \/ NextScenario
  <2>1. UNCHANGED reconcilerVars
    BY <1>6 DEF EndBatch, HandleTentative, NextScenario
  <2> QED
    BY <1>1, <2>1 DEF reconcilerVars
<1>7. CASE UNCHANGED vars
  BY <1>1, <1>7 DEF vars, reconcilerVars
<1> QED
  BY <1>1, <1>2, <1>3, <1>4, <1>5, <1>6, <1>7 DEF Next

(* What the buses and the counter of published events become. *)
LEMMA BusTypesKept ==
  ASSUME RunTypeOK, [Next]_vars
  PROVE  /\ canonical' \in Seq(Trades \cup Gaps) /\ waiting' \in Seq(Trades)
         /\ published' \in Nat
PROOF
<1>0. canonical \in Seq(Trades \cup Gaps) /\ waiting \in Seq(Trades) /\ published \in Nat
  BY DEF RunTypeOK
<1>1. CASE UNCHANGED <<canonical, waiting, published>>
  BY <1>0, <1>1
<1>2. ASSUME NEW t \in Trades, IngestShred(t) \/ PublishGuess(t)
      PROVE  waiting' \in Seq(Trades) /\ UNCHANGED <<canonical, published>>
  <2>1. UNCHANGED <<canonical, published>> /\ (waiting' = waiting \/ waiting' = Append(waiting, t))
    BY <1>2 DEF IngestShred, PublishGuess, PublishTentative
  <2> QED
    BY <1>0, <2>1
<1>3. ASSUME NEW e \in Trades \cup Gaps, Publish(e)
      PROVE  canonical' \in Seq(Trades \cup Gaps) /\ published' \in Nat /\ waiting' = waiting
  <2>1. /\ canonical' = canonical \/ canonical' = Append(canonical, e)
        /\ published' = published + 1 /\ waiting' = waiting
    BY <1>3 DEF Publish, PublishCanonical
  <2> QED
    BY <1>0, <2>1
<1>4. CASE HandleCanonical
  <2>1. /\ canonical # <<>> /\ canonical' = Tail(canonical)
        /\ waiting' = waiting /\ published' = published
    BY <1>4 DEF HandleCanonical
  <2> QED
    BY <1>0, <2>1
<1>5. CASE HandleTentative
  <2>1. /\ waiting # <<>> /\ waiting' = Tail(waiting)
        /\ canonical' = canonical /\ published' = published
    BY <1>5 DEF HandleTentative
  <2> QED
    BY <1>0, <2>1
<1>6. CASE NextScenario
  BY <1>0, <1>6 DEF NextScenario
<1>7. CASE EndBatch \/ DrainEnds
  BY <1>1, <1>7 DEF EndBatch, DrainEnds
<1>8. CASE UNCHANGED vars
  BY <1>1, <1>8 DEF vars, runVars
<1> QED
  BY <1>0, <1>2, <1>3, <1>4, <1>5, <1>6, <1>7, <1>8 DEF Next

LEMMA RunTypesNext ==
  ASSUME RunTypeOK, [Next]_vars
  PROVE  RunTypeOK'
PROOF
<1>0. /\ scenario \in Nat /\ log \in Seq(Records) /\ gaps \in ActiveGaps
      /\ pending \in SUBSET Keys /\ age \in [Keys -> 0 .. 1] /\ order \in Seq(Keys)
  BY DEF RunTypeOK
<1>1. scenario' \in Nat /\ log' \in Seq(Records) /\ gaps' \in ActiveGaps
  <2>1. CASE UNCHANGED <<log, gaps, scenario>>
    BY <1>0, <2>1
  <2>2. ASSUME NEW r \in Records, Adds(r)
        PROVE  scenario' \in Nat /\ log' \in Seq(Records) /\ gaps' \in ActiveGaps
    <3>1. log' = Append(log, r) /\ scenario' = scenario /\ gaps' = Replayed(scenario, gaps, r)
      BY <2>2 DEF Adds
    <3>2. gaps' \in ActiveGaps
      BY <1>0, <3>1, ReplayedType
    <3>3. log' \in Seq(Records)
      BY <1>0, <3>1
    <3> QED
      BY <1>0, <3>1, <3>2, <3>3
  <2>3. CASE scenario' = scenario + 1 /\ gaps' = {} /\ log' = log
    <3>1. {} \in ActiveGaps
      BY DEF ActiveGaps
    <3> QED
      BY <1>0, <2>3, <3>1
  <2> QED
    BY <2>1, <2>2, <2>3, RecordSteps
<1> QED
  BY <1>0, <1>1, BusTypesKept, ReconcilerTypesKept DEF RunTypeOK, ActiveGaps, Records

-----------------------------------------------------------------------------
(* The records, the gaps and the replay. *)

(* A new record takes the place after the last. *)
LEMMA NewRecord ==
  ASSUME NEW L \in Seq(Records), NEW r \in Records, NEW M, M = Append(L, r)
  PROVE  /\ DOMAIN M = DOMAIN L \cup {Len(L) + 1} /\ Len(L) + 1 \notin DOMAIN L
         /\ \A i \in DOMAIN L : M[i] = L[i]
         /\ M[Len(L) + 1] = r
         /\ DOMAIN L = 1 .. Len(L) /\ Len(L) \in Nat
  OBVIOUS

LEMMA DueNext ==
  ASSUME RunTypeOK, RecordsAreDue, [Next]_vars
  PROVE  RecordsAreDue'
PROOF
<1>0. scenario \in Nat /\ log \in Seq(Records)
  BY DEF RunTypeOK
<1>1. CASE UNCHANGED <<log, gaps, scenario>>
  BY <1>1 DEF RecordsAreDue
<1>2. ASSUME NEW r \in Records, Adds(r) PROVE RecordsAreDue'
  <2>1. log' = Append(log, r) /\ scenario' = scenario /\ r.scenario = scenario
    BY <1>2 DEF Adds
  <2>2. /\ DOMAIN log' = DOMAIN log \cup {Len(log) + 1}
        /\ \A i \in DOMAIN log : log'[i] = log[i]
        /\ log'[Len(log) + 1] = r
    BY <1>0, <2>1, NewRecord
  <2> QED
    BY <1>0, <2>1, <2>2 DEF RecordsAreDue
<1>3. CASE scenario' = scenario + 1 /\ gaps' = {} /\ log' = log
  <2>1. ASSUME NEW i \in DOMAIN log PROVE log[i].scenario \in Nat
    <3>1. log[i] \in Records
      BY <1>0
    <3> QED
      BY <3>1 DEF Records
  <2> QED
    BY <1>0, <1>3, <2>1 DEF RecordsAreDue
<1> QED
  BY <1>1, <1>2, <1>3, RecordSteps

(* A gap that the record r leaves active blocks what r names, or was there. *)
LEMMA ReplayedBlocks ==
  ASSUME NEW g, NEW n, NEW r \in Records, r.scenario = n,
         NEW m \in Mints, ~Allowed(Replayed(n, g, r), m)
  PROVE  ~Allowed(g, m) \/ Blocks(r, m, n)
PROOF
<1>1. CASE r.overflow
  BY <1>1 DEF Blocks
<1>2. CASE ~r.overflow /\ r.event \notin Gaps
  BY <1>2 DEF Replayed
<1>3. CASE ~r.overflow /\ r.event \in Gaps
  <2>1. Replayed(n, g, r) = UpdatedGaps(g, r.event)
    BY <1>3 DEF Replayed
  <2>2. CASE r.event.resume
    BY <2>1, <2>2 DEF UpdatedGaps, Allowed
  <2>3. CASE ~r.event.resume
    <3>1. Replayed(n, g, r) = g \cup ScopedGaps(r.event.tokens, FALSE)
      BY <2>1, <2>3 DEF UpdatedGaps
    <3>2. SUFFICES ASSUME Allowed(g, m), r.event.tokens # {}
                   PROVE  m \in r.event.tokens
      BY <1>3, <2>3 DEF Blocks
    <3>3. ScopedGaps(r.event.tokens, FALSE) = [scope : {"Token"}, token : r.event.tokens]
      BY <3>2 DEF ScopedGaps
    <3>4. PICK gap \in g \cup ScopedGaps(r.event.tokens, FALSE) :
            ~(gap.scope = "Token" /\ gap.token # m)
      BY <3>1 DEF Allowed
    <3>5. gap \in ScopedGaps(r.event.tokens, FALSE)
      BY <3>2, <3>4 DEF Allowed
    <3>6. gap \in [scope : {"Token"}, token : r.event.tokens]
      BY <3>3, <3>5, Zenon
    <3>7. gap.scope = "Token" /\ gap.token \in r.event.tokens
      BY ONLY <3>6
    <3> QED
      BY <3>4, <3>7
  <2> QED
    BY <2>2, <2>3
<1> QED
  BY <1>1, <1>2, <1>3

LEMMA BlockedNext ==
  ASSUME RunTypeOK, BlockedByRecord, [Next]_vars
  PROVE  BlockedByRecord'
PROOF
<1>0. scenario \in Nat /\ log \in Seq(Records)
  BY DEF RunTypeOK
<1>1. CASE UNCHANGED <<log, gaps, scenario>>
  BY <1>1 DEF BlockedByRecord, Blocks, Allowed
<1>2. ASSUME NEW r \in Records, Adds(r) PROVE BlockedByRecord'
  <2> SUFFICES ASSUME NEW m \in Mints, ~Allowed(gaps', m)
               PROVE  \E j \in DOMAIN log' : Blocks(log'[j], m, scenario')
    BY DEF BlockedByRecord, Allowed, Blocks
  <2>1. /\ log' = Append(log, r) /\ scenario' = scenario /\ r.scenario = scenario
        /\ gaps' = Replayed(scenario, gaps, r)
    BY <1>2 DEF Adds
  <2>2. /\ DOMAIN log' = DOMAIN log \cup {Len(log) + 1}
        /\ \A i \in DOMAIN log : log'[i] = log[i]
        /\ log'[Len(log) + 1] = r
    BY <1>0, <2>1, NewRecord
  <2>3. ~Allowed(gaps, m) \/ Blocks(r, m, scenario)
    BY <2>1, ReplayedBlocks
  <2>4. CASE ~Allowed(gaps, m)
    <3>1. PICK j \in DOMAIN log : Blocks(log[j], m, scenario)
      BY <2>4 DEF BlockedByRecord
    <3>2. j \in DOMAIN log' /\ log'[j] = log[j]
      BY <2>2
    <3> QED
      BY <2>1, <3>1, <3>2
  <2>5. CASE Blocks(r, m, scenario)
    BY <2>1, <2>2, <2>5
  <2> QED
    BY <2>3, <2>4, <2>5
<1>3. CASE scenario' = scenario + 1 /\ gaps' = {} /\ log' = log
  BY <1>3 DEF BlockedByRecord, Allowed
<1> QED
  BY <1>1, <1>2, <1>3, RecordSteps

LEMMA FollowsNext ==
  ASSUME RunTypeOK, ReplayFollows, [Next]_vars
  PROVE  ReplayFollows'
PROOF
<1>0. scenario \in Nat /\ log \in Seq(Records)
  BY DEF RunTypeOK
<1>1. CASE UNCHANGED <<log, gaps, scenario>>
  <2>1. \A n : ReplayGaps(n, log') = ReplayGaps(n, log)
    BY <1>1
  <2> QED
    BY <1>1, <2>1 DEF ReplayFollows
<1>2. ASSUME NEW r \in Records, Adds(r) PROVE ReplayFollows'
  <2>1. /\ log' = Append(log, r) /\ scenario' = scenario /\ r.scenario = scenario
        /\ gaps' = Replayed(scenario, gaps, r)
    BY <1>2 DEF Adds
  <2>2. \A n : ReplayGaps(n, log') = Replayed(n, ReplayGaps(n, log), r)
    BY <1>0, <2>1, ReplayAppends
  <2>3. gaps' = ReplayGaps(scenario', log')
    BY <2>1, <2>2 DEF ReplayFollows
  <2>4. ASSUME NEW n \in Nat, n > scenario PROVE ReplayGaps(n, log') = {}
    <3>1. r.scenario # n
      BY <1>0, <2>1, <2>4
    <3> QED
      BY <2>2, <2>4, <3>1 DEF ReplayFollows, Replayed
  <2> QED
    BY <2>1, <2>3, <2>4 DEF ReplayFollows
<1>3. CASE scenario' = scenario + 1 /\ gaps' = {} /\ log' = log
  <2>1. \A n : ReplayGaps(n, log') = ReplayGaps(n, log)
    BY <1>3
  <2>2. \A n \in Nat : n > scenario' => n > scenario
    BY <1>0, <1>3
  <2>3. scenario' \in Nat /\ scenario' > scenario
    BY <1>0, <1>3
  <2> QED
    BY <1>3, <2>1, <2>2, <2>3 DEF ReplayFollows
<1> QED
  BY <1>1, <1>2, <1>3, RecordSteps

-----------------------------------------------------------------------------
(* What was published is recorded or waits. *)

LEMMA CountType ==
  ASSUME NEW L \in Seq(Records), NEW n
  PROVE  IsFiniteSet(Recorded(L, n)) /\ Cardinality(Recorded(L, n)) \in Nat
PROOF
<1>1. DOMAIN L = 1 .. Len(L) /\ Len(L) \in Nat
  OBVIOUS
<1>2. IsFiniteSet(Recorded(L, n))
  <2>1. IsFiniteSet(DOMAIN L) /\ Recorded(L, n) \in SUBSET DOMAIN L
    BY <1>1, FS_Interval DEF Recorded
  <2> QED
    BY <2>1, FS_Subset
<1> QED
  BY <1>2, FS_CardinalityType

LEMMA CountAppends ==
  ASSUME NEW L \in Seq(Records), NEW r \in Records, NEW n, NEW M, M = Append(L, r)
  PROVE  /\ Cardinality(Recorded(L, n)) \in Nat
         /\ Cardinality(Recorded(M, n)) =
              Cardinality(Recorded(L, n)) + (IF r.scenario = n /\ ~r.tentative THEN 1 ELSE 0)
PROOF
<1> DEFINE k == Len(L) + 1
<1>1. /\ DOMAIN M = DOMAIN L \cup {k} /\ k \notin DOMAIN L
      /\ \A i \in DOMAIN L : M[i] = L[i]
      /\ M[k] = r
      /\ DOMAIN L = 1 .. Len(L) /\ Len(L) \in Nat
  BY NewRecord
<1>2. IsFiniteSet(Recorded(L, n))
  BY CountType
<1>3. Cardinality(Recorded(L, n)) \in Nat
  BY CountType
<1> HIDE DEF k
<1>4. CASE r.scenario = n /\ ~r.tentative
  <2>1. Recorded(M, n) = Recorded(L, n) \cup {k} /\ k \notin Recorded(L, n)
    BY <1>1, <1>4 DEF Recorded
  <2>2. Cardinality(Recorded(L, n) \cup {k}) = Cardinality(Recorded(L, n)) + 1
    BY <1>2, <2>1, FS_AddElement
  <2> QED
    BY <1>2, <1>3, <1>4, <2>1, <2>2
<1>5. CASE ~(r.scenario = n /\ ~r.tentative)
  <2>1. Recorded(M, n) = Recorded(L, n)
    BY <1>1, <1>5 DEF Recorded
  <2> QED
    BY <1>2, <1>3, <1>5, <2>1
<1> QED
  BY <1>4, <1>5

LEMMA NothingLostNext ==
  ASSUME RunTypeOK, RecordsAreDue, OverIsEmpty, NothingLost, [Next]_vars
  PROVE  NothingLost'
PROOF
<1> DEFINE count == Cardinality(Recorded(log, scenario))
<1>0. /\ scenario \in Nat /\ log \in Seq(Records) /\ published \in Nat
      /\ canonical \in Seq(Trades \cup Gaps) /\ Len(canonical) \in Nat
      /\ published = Len(canonical) + count
  BY DEF RunTypeOK, NothingLost
<1>1. CASE UNCHANGED <<published, canonical, log, scenario>>
  BY <1>0, <1>1 DEF NothingLost
<1>2. ASSUME NEW r \in Records, log' = Append(log, r), scenario' = scenario, r.scenario = scenario
      PROVE  /\ count \in Nat
             /\ Cardinality(Recorded(log', scenario')) = count + (IF r.tentative THEN 0 ELSE 1)
  <2>1. /\ Cardinality(Recorded(log, scenario)) \in Nat
        /\ Cardinality(Recorded(log', scenario)) =
              Cardinality(Recorded(log, scenario)) + (IF r.scenario = scenario /\ ~r.tentative THEN 1 ELSE 0)
    BY <1>0, <1>2, CountAppends
  <2> QED
    BY <1>2, <2>1
<1> HIDE DEF count
<1>3. ASSUME NEW e \in Trades \cup Gaps, Publish(e) PROVE NothingLost'
  <2>1. scenario' = scenario /\ published' = published + 1
    BY <1>3 DEF Publish, PublishCanonical
  <2>2. CASE canonical' = Append(canonical, e) /\ log' = log
    <3>1. Len(canonical') = Len(canonical) + 1
      BY <1>0, <2>2
    <3>2. Cardinality(Recorded(log', scenario')) = count
      BY <2>1, <2>2 DEF count
    <3>3. count \in Nat
      BY <1>0, CountType DEF count
    <3> QED
      BY <1>0, <2>1, <3>1, <3>2, <3>3 DEF NothingLost
  <2>3. CASE canonical' = canonical /\ log' = Append(log, OverflowRecord(e))
    <3>1. /\ OverflowRecord(e) \in Records /\ ~OverflowRecord(e).tentative
          /\ OverflowRecord(e).scenario = scenario
      BY <1>0, RecordTypes
    <3>2. count \in Nat /\ Cardinality(Recorded(log', scenario')) = count + 1
      BY <1>2, <2>1, <2>3, <3>1
    <3> QED
      BY <1>0, <2>1, <2>3, <3>2 DEF NothingLost
  <2> QED
    BY <1>3, <2>2, <2>3 DEF Publish, PublishCanonical
<1>4. CASE HandleCanonical
  <2> DEFINE r == Handled(Head(canonical), FALSE)
  <2>1. /\ r \in Records /\ log' = Append(log, r) /\ scenario' = scenario
        /\ r.scenario = scenario /\ r.tentative = FALSE
    BY <1>0, <1>4, HandleCanonicalAdds, RecordTypes DEF Adds
  <2> HIDE DEF r
  <2>2. count \in Nat /\ Cardinality(Recorded(log', scenario')) = count + 1
    BY <1>2, <2>1
  <2>3. published' = published /\ canonical # <<>> /\ canonical' = Tail(canonical)
    BY <1>4 DEF HandleCanonical
  <2>4. Len(canonical') = Len(canonical) - 1
    BY <1>0, <2>3
  <2> QED
    BY <1>0, <2>2, <2>3, <2>4 DEF NothingLost
<1>5. CASE HandleTentative
  <2> DEFINE r == Handled(Head(waiting), TRUE)
  <2>1. /\ r \in Records /\ log' = Append(log, r) /\ scenario' = scenario
        /\ r.scenario = scenario /\ r.tentative = TRUE
    BY <1>0, <1>5, HandleTentativeAdds, RecordTypes DEF Adds
  <2> HIDE DEF r
  <2>2. count \in Nat /\ Cardinality(Recorded(log', scenario')) = count
    BY <1>2, <2>1
  <2>3. published' = published /\ canonical' = canonical
    BY <1>5 DEF HandleTentative
  <2> QED
    BY <1>0, <2>2, <2>3 DEF NothingLost
<1>6. CASE NextScenario
  <2>1. /\ scenario' = scenario + 1 /\ published' = 0 /\ canonical' = canonical /\ log' = log
        /\ canonical = <<>>
    BY <1>6 DEF NextScenario, OverIsEmpty
  <2>2. Recorded(log, scenario + 1) = {}
    <3>1. ASSUME NEW i \in DOMAIN log PROVE log[i].scenario # scenario + 1
      <4>1. log[i] \in Records /\ log[i].scenario <= scenario
        BY <1>0 DEF RecordsAreDue
      <4>2. log[i].scenario \in Nat
        BY <4>1 DEF Records
      <4> QED
        BY <1>0, <4>1, <4>2
    <3> QED
      BY <3>1 DEF Recorded
  <2>3. Cardinality(Recorded(log', scenario')) = 0
    BY <2>1, <2>2, FS_EmptySet
  <2>4. Len(canonical') = 0
    BY <2>1
  <2> QED
    BY <2>1, <2>3, <2>4 DEF NothingLost
<1>7. ASSUME NEW t \in Trades, IngestShred(t) \/ PublishGuess(t)
      PROVE  UNCHANGED <<published, canonical, log, scenario>>
  BY <1>7 DEF IngestShred, PublishGuess
<1>8. CASE EndBatch \/ DrainEnds
  BY <1>1, <1>8 DEF EndBatch, DrainEnds
<1>9. CASE UNCHANGED vars
  BY <1>1, <1>9 DEF vars, runVars
<1> QED
  BY <1>1, <1>3, <1>4, <1>5, <1>6, <1>7, <1>8, <1>9 DEF Next

-----------------------------------------------------------------------------
(* When a drain ends, nothing waits. *)

(* The records of the reconciler are all old: an expiry takes every one. *)
LEMMA ExpiryEmpties ==
  ASSUME RunTypeOK, WaitsToExpire, NEW n \in 0 .. Len(order), R!Expire(n)
  PROVE  pending' = {}
PROOF
<1>0. order \in Seq(Keys) /\ DOMAIN order = 1 .. Len(order) /\ Len(order) \in Nat
  BY DEF RunTypeOK
<1>1. \A k : ~R!Young(k)
  BY DEF R!Young, WaitsToExpire
<1>2. ~(n < Len(order))
  BY <1>1 DEF R!Expire, R!Stops
<1>3. 1 .. n = DOMAIN order
  <2>1. n \in Int /\ n <= Len(order) /\ Len(order) \in Int
    BY <1>0
  <2>2. n = Len(order)
    BY ONLY <1>2, <2>1
  <2> QED
    BY <1>0, <2>2, Zenon
<1>4. pending \subseteq R!Passed(n)
  BY <1>3 DEF R!Passed, WaitsToExpire
<1> QED
  BY <1>4 DEF R!Expire

LEMMA WaitsNext ==
  ASSUME RunTypeOK, WaitsToExpire, [Next]_vars
  PROVE  WaitsToExpire'
PROOF
<1>0. pending \in SUBSET Keys /\ age \in [Keys -> 0 .. 1] /\ order \in Seq(Keys)
  BY DEF RunTypeOK
<1>1. CASE UNCHANGED <<pending, age, order>>
  BY <1>1 DEF WaitsToExpire
<1>2. ASSUME NEW t \in Trades, IngestShred(t) PROVE WaitsToExpire'
  <2>1. /\ t.key \in Keys /\ pending' = pending \cup {t.key}
        /\ age' = [age EXCEPT ![t.key] = 1] /\ order' = Append(order, t.key)
    BY <1>2, FixtureEvents DEF IngestShred, R!RecordTentative
  <2>2. /\ DOMAIN order' = DOMAIN order \cup {Len(order) + 1}
        /\ \A i \in DOMAIN order : order'[i] = order[i]
        /\ order'[Len(order) + 1] = t.key
    BY <1>0, <2>1
  <2>3. ASSUME NEW k \in pending' PROVE age'[k] = 1 /\ \E i \in DOMAIN order' : order'[i] = k
    <3>1. CASE k = t.key
      BY <1>0, <2>1, <2>2, <3>1
    <3>2. CASE k # t.key
      <4>1. k \in pending /\ k \in Keys
        BY <1>0, <2>1, <3>2
      <4>2. age'[k] = age[k]
        BY <1>0, <2>1, <3>2, <4>1
      <4> QED
        BY <2>2, <4>1, <4>2 DEF WaitsToExpire
    <3> QED
      BY <3>1, <3>2
  <2> QED
    BY <2>3 DEF WaitsToExpire
<1>3. CASE HandleCanonical
  <2>1. \/ UNCHANGED <<pending, age, order>>
        \/ \E k \in Keys : /\ pending' = pending \ {k} /\ order' = order
                           /\ age' = [age EXCEPT ![k] = 0]
    <3>1. CASE Head(canonical) \in Trades
      BY <1>3, <3>1, FixtureEvents DEF HandleCanonical, R!ReconcileCanonical
    <3>2. CASE Head(canonical) \notin Trades
      BY <1>3, <3>2 DEF HandleCanonical, reconcilerVars
    <3> QED
      BY <3>1, <3>2
  <2>2. ASSUME NEW k \in Keys, pending' = pending \ {k}, order' = order,
               age' = [age EXCEPT ![k] = 0]
        PROVE  WaitsToExpire'
    <3>1. \A j \in pending' : j \in pending /\ age'[j] = age[j]
      BY <1>0, <2>2
    <3> QED
      BY <2>2, <3>1 DEF WaitsToExpire
  <2> QED
    BY <1>1, <2>1, <2>2
<1>4. CASE DrainEnds
  <2>1. PICK n \in 0 .. Len(order) : R!Expire(n)
    BY <1>4 DEF DrainEnds
  <2> QED
    BY <2>1, ExpiryEmpties DEF WaitsToExpire
<1>5. ASSUME NEW e \in Trades \cup Gaps, Publish(e) \/ (e \in Trades /\ PublishGuess(e))
      PROVE  UNCHANGED <<pending, age, order>>
  BY <1>5 DEF Publish, PublishGuess, reconcilerVars
<1>6. CASE EndBatch \/ HandleTentative \/ NextScenario
  <2>1. UNCHANGED reconcilerVars
    BY <1>6 DEF EndBatch, HandleTentative, NextScenario
  <2> QED
    BY <1>1, <2>1 DEF reconcilerVars
<1>7. CASE UNCHANGED vars
  BY <1>1, <1>7 DEF vars, reconcilerVars
<1> QED
  BY <1>1, <1>2, <1>3, <1>4, <1>5, <1>6, <1>7 DEF Next

LEMMA OverNext ==
  ASSUME RunTypeOK, WaitsToExpire, OverIsEmpty, [Next]_vars
  PROVE  OverIsEmpty'
PROOF
<1>1. CASE DrainEnds
  <2>1. PICK n \in 0 .. Len(order) : R!Expire(n)
    BY <1>1 DEF DrainEnds
  <2>2. pending' = {}
    BY <2>1, ExpiryEmpties
  <2>3. canonical' = <<>> /\ waiting' = <<>>
    BY <1>1 DEF DrainEnds, Dry
  <2> QED
    BY <2>2, <2>3 DEF OverIsEmpty
<1>2. ASSUME NEW t \in Trades, IngestShred(t) \/ PublishGuess(t)
      PROVE  ~(stage' = "over" /\ ~draining')
  BY <1>2 DEF IngestShred, PublishGuess
<1>3. ASSUME NEW e \in Trades \cup Gaps, Publish(e)
      PROVE  ~(stage' = "over" /\ ~draining')
  BY <1>3 DEF Publish
<1>4. CASE EndBatch \/ HandleCanonical \/ HandleTentative \/ NextScenario
  <2>1. CASE EndBatch
    BY <2>1 DEF EndBatch, OverIsEmpty
  <2>2. CASE HandleCanonical \/ HandleTentative
    BY <2>2 DEF HandleCanonical, HandleTentative, OverIsEmpty
  <2>3. CASE NextScenario
    BY <2>3 DEF NextScenario, OverIsEmpty
  <2> QED
    BY <1>4, <2>1, <2>2, <2>3
<1>5. CASE UNCHANGED vars
  <2>1. UNCHANGED <<stage, draining, canonical, waiting, pending>>
    BY <1>5 DEF vars, runVars, reconcilerVars
  <2> QED
    BY <2>1 DEF OverIsEmpty
<1> QED
  BY <1>1, <1>2, <1>3, <1>4, <1>5 DEF Next, OverIsEmpty

-----------------------------------------------------------------------------
RunInv ==
  /\ RunTypeOK /\ RecordsAreDue /\ BlockedByRecord /\ ReplayFollows
  /\ NothingLost /\ WaitsToExpire /\ OverIsEmpty

LEMMA RunInvInit == Init => RunInv
PROOF
<1> SUFFICES ASSUME Init PROVE RunInv
  OBVIOUS
<1>1. /\ scenario = 1 /\ canonical = <<>> /\ waiting = <<>> /\ gaps = {} /\ published = 0
      /\ log = <<>> /\ pending = {} /\ order = <<>> /\ age = [k \in Keys |-> 0]
  BY DEF Init, R!ReconcilerInit
<1>2. RunTypeOK
  BY <1>1 DEF RunTypeOK, ActiveGaps
<1>3. RecordsAreDue /\ BlockedByRecord /\ WaitsToExpire /\ OverIsEmpty
  BY <1>1 DEF RecordsAreDue, BlockedByRecord, Allowed, WaitsToExpire, OverIsEmpty
<1>4. ReplayFollows
  BY <1>1, ReplayBegins DEF ReplayFollows
<1>5. NothingLost
  <2>1. Recorded(log, scenario) = {}
    BY <1>1 DEF Recorded
  <2>2. Cardinality(Recorded(log, scenario)) = 0
    BY <2>1, FS_EmptySet
  <2>3. Len(canonical) = 0
    BY <1>1
  <2> QED
    BY <1>1, <2>2, <2>3 DEF NothingLost
<1> QED
  BY <1>2, <1>3, <1>4, <1>5 DEF RunInv

(* The invariants hold together. *)
THEOREM RunInvariance == Spec => []RunInv
PROOF
<1>1. RunInv /\ [Next]_vars => RunInv'
  <2> SUFFICES ASSUME RunInv, [Next]_vars PROVE RunInv'
    OBVIOUS
  <2>1. /\ RunTypeOK /\ RecordsAreDue /\ BlockedByRecord /\ ReplayFollows
        /\ NothingLost /\ WaitsToExpire /\ OverIsEmpty
    BY DEF RunInv
  <2>2. RunTypeOK' /\ RecordsAreDue' /\ BlockedByRecord' /\ ReplayFollows'
    BY <2>1, RunTypesNext, DueNext, BlockedNext, FollowsNext
  <2>3. NothingLost' /\ WaitsToExpire' /\ OverIsEmpty'
    BY <2>1, NothingLostNext, WaitsNext, OverNext
  <2> QED
    BY <2>2, <2>3 DEF RunInv
<1> QED
  BY <1>1, RunInvInit, PTL DEF Spec

(* What comes before a record does not change when another is added. *)
LEMMA PrefixKept ==
  ASSUME NEW L \in Seq(Records), NEW r \in Records, NEW M, M = Append(L, r)
  PROVE  /\ \A i \in DOMAIN L : SubSeq(M, 1, i - 1) = SubSeq(L, 1, i - 1)
         /\ SubSeq(M, 1, Len(L)) = L
  OBVIOUS

(***************************************************************************)
(* A replay takes every recorded trade through the gate as the run did,    *)
(* for all capacities, gaps, resumptions and scenarios                     *)
(* (run_from_store_selection against run_fixture_suite).                   *)
(***************************************************************************)
THEOREM TheReplayAgrees == Spec => []ReplayGatesAgree
PROOF
<1>1. Init => ReplayGatesAgree
  BY DEF Init, ReplayGatesAgree
<1>2. RunInv /\ ReplayGatesAgree /\ [Next]_vars => ReplayGatesAgree'
  <2> SUFFICES ASSUME RunInv, ReplayGatesAgree, [Next]_vars PROVE ReplayGatesAgree'
    OBVIOUS
  <2>0. RunTypeOK /\ log \in Seq(Records) /\ gaps = ReplayGaps(scenario, log)
    BY DEF RunInv, RunTypeOK, ReplayFollows
  <2>1. CASE log' = log
    BY <2>1 DEF ReplayGatesAgree
  <2>2. ASSUME NEW r \in Records, Adds(r) PROVE ReplayGatesAgree'
    <3> SUFFICES ASSUME NEW i \in DOMAIN log', log'[i].event \in Trades, ~log'[i].overflow
                 PROVE  log'[i].allowed =
                          Allowed(ReplayGaps(log'[i].scenario, SubSeq(log', 1, i - 1)),
                                  log'[i].event.mint)
      BY DEF ReplayGatesAgree, Allowed
    <3>1. log' = Append(log, r) /\ r.scenario = scenario
      BY <2>2 DEF Adds
    <3>2. /\ DOMAIN log' = DOMAIN log \cup {Len(log) + 1}
          /\ \A j \in DOMAIN log : log'[j] = log[j]
          /\ log'[Len(log) + 1] = r /\ Len(log) \in Nat
      BY <2>0, <3>1, NewRecord
    <3>3. /\ \A j \in DOMAIN log : SubSeq(log', 1, j - 1) = SubSeq(log, 1, j - 1)
          /\ SubSeq(log', 1, Len(log)) = log
      BY <2>0, <3>1, PrefixKept
    <3>4. CASE i \in DOMAIN log
      <4>1. log'[i] = log[i] /\ SubSeq(log', 1, i - 1) = SubSeq(log, 1, i - 1)
        BY <3>2, <3>3, <3>4
      <4> QED
        BY <3>4, <4>1 DEF ReplayGatesAgree
    <3>5. CASE i = Len(log) + 1
      <4>1. log'[i] = r /\ i - 1 = Len(log)
        BY <3>2, <3>5
      <4>2. SubSeq(log', 1, i - 1) = log
        BY <3>3, <4>1
      <4>3. r.allowed = Allowed(gaps, r.event.mint)
        BY <2>2, <4>1 DEF Adds
      <4> QED
        BY <2>0, <3>1, <4>1, <4>2, <4>3
    <3> QED
      BY <3>2, <3>4, <3>5
  <2> QED
    BY <2>0, <2>1, <2>2, RecordSteps
<1> QED
  BY <1>1, <1>2, RunInvariance, PTL DEF Spec

(***************************************************************************)
(* A trade that the gate stopped had a reason among the records of its     *)
(* scenario: an overflow, or a gap that named its token or no token.       *)
(***************************************************************************)
THEOREM GapsNeverPoison == Spec => []GapsDoNotPoison
PROOF
<1>1. Init => GapsDoNotPoison
  BY DEF Init, GapsDoNotPoison
<1>2. RunInv /\ GapsDoNotPoison /\ [Next]_vars => GapsDoNotPoison'
  <2> SUFFICES ASSUME RunInv, GapsDoNotPoison, [Next]_vars PROVE GapsDoNotPoison'
    OBVIOUS
  <2>0. RunTypeOK /\ log \in Seq(Records) /\ BlockedByRecord
    BY DEF RunInv, RunTypeOK
  <2>1. CASE log' = log
    BY <2>1 DEF GapsDoNotPoison
  <2>2. ASSUME NEW r \in Records, Adds(r) PROVE GapsDoNotPoison'
    <3> DEFINE Reason(L, x, j) ==
                 /\ L[j].scenario = x.scenario
                 /\ \/ L[j].overflow
                    \/ /\ L[j].event \in Gaps /\ ~L[j].event.resume
                       /\ L[j].event.tokens \in {{}} \cup {T \in SUBSET Mints : x.event.mint \in T}
    <3> SUFFICES ASSUME NEW i \in DOMAIN log', log'[i].event \in Trades,
                        ~log'[i].overflow, ~log'[i].allowed
                 PROVE  \E j \in 1 .. i - 1 : Reason(log', log'[i], j)
      BY DEF GapsDoNotPoison
    <3>1. log' = Append(log, r) /\ r.scenario = scenario
      BY <2>2 DEF Adds
    <3>2. /\ DOMAIN log' = DOMAIN log \cup {Len(log) + 1}
          /\ \A j \in DOMAIN log : log'[j] = log[j]
          /\ log'[Len(log) + 1] = r /\ Len(log) \in Nat /\ DOMAIN log = 1 .. Len(log)
      BY <2>0, <3>1, NewRecord
    <3>4. CASE i \in DOMAIN log
      <4>1. log'[i] = log[i] /\ \A j \in 1 .. i - 1 : log'[j] = log[j]
        BY <3>2, <3>4
      <4>2. \E j \in 1 .. i - 1 : Reason(log, log[i], j)
        BY <3>4, <4>1 DEF GapsDoNotPoison
      <4> QED
        BY <4>1, <4>2
    <3>5. CASE i = Len(log) + 1
      <4>1. log'[i] = r /\ i - 1 = Len(log)
        BY <3>2, <3>5
      <4>2. ~Allowed(gaps, r.event.mint) /\ r.event.mint \in Mints
        BY <2>2, <4>1, FixtureEvents DEF Adds
      <4>3. PICK j \in DOMAIN log : Blocks(log[j], r.event.mint, scenario)
        BY <2>0, <4>2 DEF BlockedByRecord
      <4>4. log[j].event \in Gaps => log[j].event.tokens \in SUBSET Mints
        BY FixtureEvents
      <4>5. Reason(log, r, j)
        BY <3>1, <4>3, <4>4 DEF Blocks
      <4>6. j \in 1 .. i - 1 /\ log'[j] = log[j]
        BY <3>2, <4>1
      <4> QED
        BY <4>1, <4>5, <4>6
    <3> QED
      BY <3>2, <3>4, <3>5
  <2> QED
    BY <2>0, <2>1, <2>2, RecordSteps
<1> QED
  BY <1>1, <1>2, RunInvariance, PTL DEF Spec

(* When a scenario is over nothing is left in the buses or the reconciler,  *)
(* and every canonical event that was published is recorded, handled or as  *)
(* the gap that it became, for all capacities.                              *)
THEOREM NothingStaysBehind == Spec => []NothingLeftBehind
PROOF
<1>1. RunInv => NothingLeftBehind
  <2> SUFFICES ASSUME RunInv, stage = "over", ~draining
               PROVE  /\ canonical = <<>> /\ waiting = <<>> /\ pending = {}
                      /\ published = Cardinality(Recorded(log, scenario))
    BY DEF NothingLeftBehind, Recorded
  <2>1. canonical = <<>> /\ waiting = <<>> /\ pending = {}
    BY DEF RunInv, OverIsEmpty
  <2>2. Len(canonical) = 0
    BY <2>1
  <2>3. log \in Seq(Records) /\ published \in Nat
    BY DEF RunInv, RunTypeOK
  <2>4. published = Len(canonical) + Cardinality(Recorded(log, scenario))
    BY DEF RunInv, NothingLost
  <2>5. Cardinality(Recorded(log, scenario)) \in Nat
    BY <2>3, CountType
  <2> QED
    BY <2>1, <2>2, <2>4, <2>5
<1> QED
  BY <1>1, RunInvariance, PTL
=============================================================================
