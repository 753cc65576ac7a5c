----------------------------- MODULE FixtureRun -----------------------------
(***************************************************************************)
(* A suite of fixture scenarios (Supervisor::run_fixture_suite,            *)
(* crates/runtime/src/lib.rs): events are published to two bounded buses   *)
(* and drained, canonical events first.  A scenario is a timeline, drained *)
(* after every event, or a batch: all shreds, a drain, all canonical       *)
(* events, a drain.  A full canonical bus drops the event and raises a     *)
(* gap; a full tentative bus drops the event only.                         *)
(*                                                                         *)
(* What happens to a token is left out: of a trade there remains whether   *)
(* the gap gate lets it through.  The run is also recorded, and replayed   *)
(* from its records one event at a time (run_from_store_selection).        *)
(***************************************************************************)
EXTENDS Integers, SequencesExt

CONSTANTS
  Mints,              \* tokens
  Keys,               \* reconciliation keys, all of them signatures
  Trades,             \* trades: [mint, key]
  Gaps,               \* gap events of the fixtures: [tokens, resume]
  CanonicalCapacity,  \* runtime.queue_capacity_canonical
  TentativeCapacity,  \* runtime.queue_capacity_tentative
  MaxScenarios,       \* bound on the scenarios of a suite
  MaxTentative,       \* bound on the transactions seen in shreds
  MaxEvents           \* bound on the events that are persisted

Scopes == {"Token", "Scenario", "Global"}
AnyToken == "any"

ASSUME FixtureAssumption ==
  /\ IsFiniteSet(Keys) /\ AnyToken \notin Mints
  /\ Trades \subseteq [mint : Mints, key : Keys]
  /\ Gaps \subseteq [tokens : SUBSET Mints, resume : BOOLEAN]
  /\ Trades \cap Gaps = {}
  /\ CanonicalCapacity \in Nat \ {0} /\ TentativeCapacity \in Nat \ {0}
  /\ MaxScenarios \in Nat /\ MaxTentative \in Nat /\ MaxEvents \in Nat

VARIABLES
  scenario,    \* index of the scenario
  timeline,    \* the scenario is a timeline
  stage,       \* "shreds", "canonical" or "over"
  draining,    \* drain_pipeline is running
  canonical,   \* canonical_bus
  waiting,     \* tentative_bus
  gaps,        \* active_data_gaps: [scope, token]
  dropped,     \* health.canonical_events_dropped
  published,   \* canonical events published in the scenario
  log,         \* the normalized events persisted, in their order
  pending, age, order, expired, tentative, successes, failures, confirmed, unseen

R == INSTANCE ShredReconciler WITH Signed <- Keys, Ttl <- 1, MaxCanonical <- MaxEvents

runVars == <<scenario, timeline, stage, draining, canonical, waiting, gaps, dropped,
             published, log>>
reconcilerVars ==
  <<pending, age, order, expired, tentative, successes, failures, confirmed, unseen>>
vars == <<runVars, reconcilerVars>>

Init ==
  /\ scenario = 1 /\ timeline \in BOOLEAN
  /\ stage = IF timeline THEN "canonical" ELSE "shreds"
  /\ draining = FALSE
  /\ canonical = <<>> /\ waiting = <<>>
  /\ gaps = {} /\ dropped = 0 /\ published = 0
  /\ log = <<>>
  /\ R!ReconcilerInit

-----------------------------------------------------------------------------
(* scoped_gaps_from_event, within a scenario *)
ScopedGaps(tokens, global) ==
  IF tokens # {} THEN [scope : {"Token"}, token : tokens]
  ELSE [scope : {IF global THEN "Global" ELSE "Scenario"}, token : {AnyToken}]

(* Slip: a resumption clears every gap of the source. *)
UpdatedGapsAll(g, e) ==
  IF e.resume THEN {} ELSE g \cup ScopedGaps(e.tokens, FALSE)

(* update_data_gap_state *)
UpdatedGaps(g, e) ==
  IF e.resume THEN g \ ScopedGaps(e.tokens, FALSE) ELSE g \cup ScopedGaps(e.tokens, FALSE)

(* Slip: any gap blocks every token. *)
AllowedWithoutGaps(g, m) == g = {}

(* token_trade_allowed *)
Allowed(g, m) == \A gap \in g : gap.scope = "Token" /\ gap.token # m

Raised == ScopedGaps({}, TRUE)

Handled(e, isTentative) ==
  [scenario |-> scenario, event |-> e, tentative |-> isTentative, overflow |-> FALSE,
   allowed |-> IF e \in Trades THEN Allowed(gaps, e.mint) ELSE FALSE]

(* synthetic_gap_event, persisted at once *)
OverflowRecord(e) ==
  [scenario |-> scenario, event |-> e, tentative |-> FALSE, overflow |-> TRUE, allowed |-> FALSE]

-----------------------------------------------------------------------------
(* Slip: the gap that an overflow raises is not persisted. *)
PublishCanonicalUnlogged(e) ==
  /\ published' = published + 1
  /\ IF Len(canonical) < CanonicalCapacity
     THEN canonical' = Append(canonical, e) /\ UNCHANGED <<gaps, dropped, log>>
     ELSE /\ dropped' = dropped + 1
          /\ gaps' = gaps \cup Raised
          /\ UNCHANGED <<canonical, log>>

(* publish_canonical: an event that finds the bus full becomes a gap. *)
PublishCanonical(e) ==
  /\ published' = published + 1
  /\ IF Len(canonical) < CanonicalCapacity
     THEN canonical' = Append(canonical, e) /\ UNCHANGED <<gaps, dropped, log>>
     ELSE /\ dropped' = dropped + 1
          /\ gaps' = gaps \cup Raised
          /\ log' = Append(log, OverflowRecord(e))
          /\ UNCHANGED canonical

(* publish_tentative *)
PublishTentative(e) ==
  waiting' = IF Len(waiting) < TentativeCapacity THEN Append(waiting, e) ELSE waiting

(* ingest_fixture_shreds, for one decoded transaction: the packets of a   *)
(* fixture are dated from 1970, so their records are older than any ttl.  *)
IngestShred(t) ==
  /\ stage = "shreds" /\ ~draining
  /\ R!RecordTentative(t.key, 1)
  /\ PublishTentative(t)
  /\ UNCHANGED <<scenario, timeline, stage, draining, canonical, gaps, dropped, published, log>>

(* A canonical event of the scenario; a timeline drains after each. *)
Publish(e) ==
  /\ stage = "canonical" /\ ~draining
  /\ Len(log) + Len(canonical) + Len(waiting) < MaxEvents
  /\ PublishCanonical(e)
  /\ draining' = timeline
  /\ UNCHANGED <<scenario, timeline, stage, waiting, reconcilerVars>>

(* A tentative event of a timeline, which the reconciler does not see. *)
PublishGuess(t) ==
  /\ timeline /\ stage = "canonical" /\ ~draining
  /\ Len(log) < MaxEvents
  /\ PublishTentative(t)
  /\ draining' = TRUE
  /\ UNCHANGED <<scenario, timeline, stage, canonical, gaps, dropped, published, log,
                 reconcilerVars>>

(* The batch of shreds, or of canonical events, is complete. *)
EndBatch ==
  /\ ~draining
  /\ stage \in {"shreds", "canonical"}
  /\ draining' = TRUE
  /\ stage' = IF stage = "canonical" THEN "over" ELSE stage
  /\ UNCHANGED <<scenario, timeline, canonical, waiting, gaps, dropped, published, log,
                 reconcilerVars>>

(* handle_event, of a canonical event *)
HandleCanonical ==
  /\ draining /\ canonical # <<>>
  /\ LET e == Head(canonical)
     IN  /\ log' = Append(log, Handled(e, FALSE))
         /\ IF e \in Trades
            THEN R!ReconcileCanonical(e.key) /\ UNCHANGED gaps
            ELSE gaps' = UpdatedGaps(gaps, e) /\ UNCHANGED reconcilerVars
  /\ canonical' = Tail(canonical)
  /\ UNCHANGED <<scenario, timeline, stage, draining, waiting, dropped, published>>

(* handle_event, of a tentative event; drain_pipeline takes one only when *)
(* no canonical event is left.                                            *)
HandleTentative ==
  /\ draining /\ canonical = <<>> /\ waiting # <<>>
  /\ log' = Append(log, Handled(Head(waiting), TRUE))
  /\ waiting' = Tail(waiting)
  /\ UNCHANGED <<scenario, timeline, stage, draining, canonical, gaps, dropped, published,
                 reconcilerVars>>

(* Slip: the drain is over when the canonical bus is empty. *)
DryCanonical == canonical = <<>>

Dry == canonical = <<>> /\ waiting = <<>>

(* Slip: the reconciler is emptied when a drain ends. *)
DrainEndsAfresh ==
  /\ draining /\ Dry
  /\ pending' = {} /\ age' = [k \in Keys |-> 0] /\ order' = <<>>
  /\ UNCHANGED <<expired, tentative, successes, failures, confirmed, unseen>>
  /\ draining' = FALSE
  /\ stage' = IF stage = "shreds" THEN "canonical" ELSE stage
  /\ UNCHANGED <<scenario, timeline, canonical, waiting, gaps, dropped, published, log>>

(* Both buses are empty: what was not confirmed expires, and the drain ends. *)
DrainEnds ==
  /\ draining /\ Dry
  /\ \E n \in 0 .. Len(order) : R!Expire(n)
  /\ draining' = FALSE
  /\ stage' = IF stage = "shreds" THEN "canonical" ELSE stage
  /\ UNCHANGED <<scenario, timeline, canonical, waiting, gaps, dropped, published, log>>

(* reset_for_next_run; the reconciler is not reset. *)
NextScenario ==
  /\ stage = "over" /\ ~draining /\ scenario < MaxScenarios
  /\ scenario' = scenario + 1
  /\ timeline' \in BOOLEAN
  /\ stage' = IF timeline' THEN "canonical" ELSE "shreds"
  /\ gaps' = {} /\ dropped' = 0 /\ published' = 0
  /\ UNCHANGED <<draining, canonical, waiting, log, reconcilerVars>>

Next ==
  \/ \E t \in Trades : IngestShred(t) \/ PublishGuess(t)
  \/ \E e \in Trades \cup Gaps : Publish(e)
  \/ EndBatch
  \/ HandleCanonical \/ HandleTentative \/ DrainEnds
  \/ NextScenario

Spec == Init /\ [][Next]_vars

-----------------------------------------------------------------------------
(* A replay handles the records one by one; the supervisor of scenario n   *)
(* gets those of its scenario only.                                        *)
Replayed(n, g, r) ==
  IF r.scenario # n THEN g
  ELSE IF r.overflow THEN g \cup Raised
  ELSE IF r.event \in Gaps THEN UpdatedGaps(g, r.event) ELSE g

(* The gaps that it has active after some of the records. *)
ReplayGaps(n, records) == FoldLeft(LAMBDA g, r : Replayed(n, g, r), {}, records)

(* docs/ARCHITECTURE.md:60: a replay of the records takes every trade through *)
(* the gate exactly as the run did, overflows and resumptions included.       *)
ReplayGatesAgree ==
  \A i \in DOMAIN log :
    log[i].event \in Trades /\ ~log[i].overflow =>
      log[i].allowed =
        Allowed(ReplayGaps(log[i].scenario, SubSeq(log, 1, i - 1)), log[i].event.mint)

(* docs/ARCHITECTURE.md:23: once a canonical event was lost to a full bus, no  *)
(* trade of the scenario passes, whatever resumes later.                       *)
OverflowBlocks == dropped > 0 => \A m \in Mints : ~Allowed(gaps, m)

(* docs/ARCHITECTURE.md:54: a token is blocked only by a gap that named it, by *)
(* one that named no token, or by an overflow, in the same scenario.           *)
GapsDoNotPoison ==
  \A i \in DOMAIN log :
    LET r == log[i]
    IN  r.event \in Trades /\ ~r.overflow /\ ~r.allowed =>
          \E j \in 1 .. i - 1 :
            /\ log[j].scenario = r.scenario
            /\ \/ log[j].overflow
               \/ /\ log[j].event \in Gaps /\ ~log[j].event.resume
                  /\ log[j].event.tokens \in {{}} \cup {T \in SUBSET Mints : r.event.mint \in T}

(* Between scenarios nothing is left in the buses, and every canonical event *)
(* published is in the records: handled, or as the gap it became.            *)
NothingLeftBehind ==
  stage = "over" /\ ~draining =>
    /\ canonical = <<>> /\ waiting = <<>> /\ pending = {}
    /\ published = Cardinality({i \in DOMAIN log :
                                 log[i].scenario = scenario /\ ~log[i].tentative})

(* The supervisor uses the reconciler as its own specification allows. *)
ReconcilerBehaves == R!ReconcilerSpec
=============================================================================
