------------------------------ MODULE LiveRun -------------------------------
(***************************************************************************)
(* A live-data paper run: the source tasks that follow the Geyser and the  *)
(* deshred stream (crates/runtime/src/live_source.rs, with the slot-gap    *)
(* detection of crates/ingest-geyser/src/lib.rs), the two bounded channels *)
(* they feed, and the supervisor that takes one event at a time from them  *)
(* (run_live_data_paper of crates/runtime/src/lib.rs), keeps the list of   *)
(* active data gaps and trades on paper (PaperTrading).                    *)
(*                                                                         *)
(* Each source task and the supervisor are tasks of their own: their steps *)
(* interleave, and they meet in the channels.  A task that awaits          *)
(* sender.send blocks while its channel is full; the step that produced    *)
(* the event is then taken when there is room, since nothing else can see  *)
(* the difference.                                                         *)
(***************************************************************************)
EXTENDS Integers, Sequences, PaperTrading

CONSTANTS
  Geyser, Deshred,       \* the two sources
  Sources,               \* the sources of this run
  DeshredRequired,       \* ingest.deshred.required or fail_if_unsupported
  ChannelCapacity,       \* queue_capacity_canonical, queue_capacity_tentative
  SlotGapTolerance,      \* geyser.slot_gap_tolerance
  MaxReconnectAttempts,  \* max_reconnect_attempts of both sources
  LiquidateOnFinalize,   \* liquidate_on_finalize
  MaxSlot                \* bound: the highest slot

ASSUME LiveRunAssumption ==
  /\ Geyser # Deshred
  /\ Geyser \in Sources /\ Sources \subseteq {Geyser, Deshred}
  /\ DeshredRequired \in BOOLEAN /\ LiquidateOnFinalize \in BOOLEAN
  /\ ChannelCapacity \in Nat \ {0}
  /\ MaxReconnectAttempts \in Nat \ {0}
  /\ SlotGapTolerance \in Nat /\ MaxSlot \in Nat

VARIABLES
  phase,     \* where the task of a source stands
  attempts,  \* its failed attempts since the last connection
  gapSent,   \* its emitted_disconnect_gap
  lastSlot,  \* StreamHealth.last_slot_seen, 0 for None
  channel,   \* the events sent and not yet received, per source
  gaps,      \* active_data_gaps: pairs of a source and a cause
  status     \* the run

streamVars == <<phase, attempts, gapSent, lastSlot>>
runVars    == <<gaps, status>>
vars       == <<streamVars, channel, runVars, tradingVars>>

(***************************************************************************)
(* "Starting" and "Reconnecting" are the same point of the task's loop,    *)
(* before its first connection and after a broken one.  "Ended": the task  *)
(* returned Ok; "Failed": it returned an error.                            *)
(***************************************************************************)
Phases == {"Starting", "Streaming", "Reconnecting", "Ended", "Failed"}

Statuses == {"Running", "Draining", "Completed", "Failed"}

(* Why a source gap is active: the stream broke, or slots are missing. *)
Causes == {"Outage", "MissingSlots"}

(* A data gap carries no token in a live run; other events carry one. *)
Events == [kind : Causes \cup {"Recovery"}, mint : {NoMint}]
            \cup [kind : {"Trade"}, mint : Mints]

GapEvent(cause) == [kind |-> cause, mint |-> NoMint]
Recovery        == [kind |-> "Recovery", mint |-> NoMint]
Trade(m)        == [kind |-> "Trade", mint |-> m]

StreamsTypeOK ==
  /\ phase \in [Sources -> Phases]
  /\ attempts \in [Sources -> 0 .. MaxReconnectAttempts]
  /\ gapSent \in [Sources -> BOOLEAN]
  /\ lastSlot \in 0 .. MaxSlot
  /\ channel \in [Sources -> Seq(Events)]
  /\ \A s \in Sources : Len(channel[s]) <= ChannelCapacity
  /\ gaps \in SUBSET (Sources \X Causes)
  /\ status \in Statuses

TypeOK == StreamsTypeOK /\ TradingTypeOK

Init ==
  /\ phase = [s \in Sources |-> "Starting"]
  /\ attempts = [s \in Sources |-> 0]
  /\ gapSent = [s \in Sources |-> FALSE]
  /\ lastSlot = 0
  /\ channel = [s \in Sources |-> <<>>]
  /\ gaps = {}
  /\ status = "Running"
  /\ TradingInit

-----------------------------------------------------------------------------
(* The source tasks. *)

(* Tasks run until they return, or are aborted at the end of the run. *)
TaskRuns(s) == status \in {"Running", "Draining"} /\ phase[s] \notin {"Ended", "Failed"}

Connecting(s) == TaskRuns(s) /\ phase[s] \in {"Starting", "Reconnecting"}

Send(s, e) ==
  /\ Len(channel[s]) < ChannelCapacity
  /\ channel' = [channel EXCEPT ![s] = Append(@, e)]

(* Slip: a connection that follows an outage is not announced. *)
ConnectQuietly(s) ==
  /\ Connecting(s)
  /\ UNCHANGED channel
  /\ phase' = [phase EXCEPT ![s] = "Streaming"]
  /\ attempts' = [attempts EXCEPT ![s] = 0]
  /\ gapSent' = [gapSent EXCEPT ![s] = FALSE]
  /\ UNCHANGED <<lastSlot, runVars, tradingVars>>

(* The stream is connected: an outage that was announced is over. *)
Connect(s) ==
  /\ Connecting(s)
  /\ IF gapSent[s] THEN Send(s, Recovery) ELSE UNCHANGED channel
  /\ phase' = [phase EXCEPT ![s] = "Streaming"]
  /\ attempts' = [attempts EXCEPT ![s] = 0]
  /\ gapSent' = [gapSent EXCEPT ![s] = FALSE]
  /\ UNCHANGED <<lastSlot, runVars, tradingVars>>

(* The connection fails: back off and retry, or give up. *)
ConnectFails(s) ==
  /\ Connecting(s)
  /\ attempts' = [attempts EXCEPT ![s] = @ + 1]
  /\ phase' = IF attempts'[s] >= MaxReconnectAttempts
                THEN [phase EXCEPT ![s] = "Failed"] ELSE phase
  /\ UNCHANGED <<gapSent, lastSlot, channel, runVars, tradingVars>>

(* The stream yields an error: announce the outage, back off and reconnect. *)
StreamFails(s) ==
  /\ TaskRuns(s) /\ phase[s] = "Streaming"
  /\ Send(s, GapEvent("Outage"))
  /\ gapSent' = [gapSent EXCEPT ![s] = TRUE]
  /\ attempts' = [attempts EXCEPT ![s] = @ + 1]
  /\ phase' = [phase EXCEPT ![s] = IF attempts'[s] >= MaxReconnectAttempts
                                     THEN "Failed" ELSE "Reconnecting"]
  /\ UNCHANGED <<lastSlot, runVars, tradingVars>>

(* The stream ends without an error: the task returns, and says nothing. *)
StreamEnds(s) ==
  /\ TaskRuns(s) /\ phase[s] = "Streaming"
  /\ phase' = [phase EXCEPT ![s] = "Ended"]
  /\ UNCHANGED <<attempts, gapSent, lastSlot, channel, runVars, tradingVars>>

(***************************************************************************)
(* The provider does not implement SubscribeDeshred, which it says when    *)
(* the stream is opened or first read.  While connecting, a required       *)
(* source treats it as any other failed connection (ConnectFails).         *)
(***************************************************************************)
DeshredUnimplemented ==
  /\ Deshred \in Sources /\ TaskRuns(Deshred)
  /\ phase[Deshred] # "Streaming" => ~DeshredRequired
  /\ phase' = [phase EXCEPT ![Deshred] = IF DeshredRequired THEN "Failed" ELSE "Ended"]
  /\ UNCHANGED <<attempts, gapSent, lastSlot, channel, runVars, tradingVars>>

(* A trade read from the stream. *)
StreamTrade(s, m) ==
  /\ TaskRuns(s) /\ phase[s] = "Streaming"
  /\ Send(s, Trade(m))
  /\ UNCHANGED <<streamVars, runVars, tradingVars>>

(***************************************************************************)
(* GeyserIngestService::detect_gap: a jump over more slots than tolerated, *)
(* or a parent that far ahead.  Both raise the same gap.                   *)
(***************************************************************************)
SlotsMissing(last, slot, parent) ==
  /\ last # 0
  /\ \/ slot > last + SlotGapTolerance + 1
     \/ parent > last + SlotGapTolerance

(* A slot update, in any order: statuses of older slots arrive late. *)
StreamSlot(slot, parent) ==
  /\ TaskRuns(Geyser) /\ phase[Geyser] = "Streaming"
  /\ IF SlotsMissing(lastSlot, slot, parent)
       THEN Send(Geyser, GapEvent("MissingSlots"))
       ELSE UNCHANGED channel
  /\ lastSlot' = slot
  /\ UNCHANGED <<phase, attempts, gapSent, runVars, tradingVars>>

-----------------------------------------------------------------------------
(* The supervisor. *)

(* token_trade_allowed: every gap of a live run is a Source gap, and blocks. *)
Blocked == gaps # {}

(* Slip: a recovery clears the gap that equals it. *)
UpdateGapsExactly(s, e) ==
  gaps' = IF e.kind = "Recovery"
            THEN gaps \ {<<s, e.kind>>} ELSE gaps \cup {<<s, e.kind>>}

(* Slip: a recovery clears the gaps of every source. *)
UpdateGapsOfAll(s, e) ==
  gaps' = IF e.kind = "Recovery" THEN {} ELSE gaps \cup {<<s, e.kind>>}

(* update_data_gap_state: a recovery clears every gap of its source. *)
UpdateGaps(s, e) ==
  gaps' = IF e.kind = "Recovery"
            THEN {g \in gaps : g[1] # s} ELSE gaps \cup {<<s, e.kind>>}

(***************************************************************************)
(* An event is received, published on the internal bus, which is empty,    *)
(* and handled before the next one is received.                            *)
(***************************************************************************)
Receive(s) ==
  /\ status = "Running" /\ channel[s] # <<>>
  /\ channel' = [channel EXCEPT ![s] = Tail(@)]
  /\ LET e == Head(channel[s])
         tentative == s = Deshred
     IN  IF e.kind = "Trade"
           THEN /\ \/ \E discard \in Discards, signal \in Signals :
                        HandleTrade(e.mint, tentative, Blocked, discard, signal)
                   \/ IgnoreTrade(e.mint, tentative)
                /\ UNCHANGED gaps
           ELSE UpdateGaps(s, e) /\ UNCHANGED tradingVars
  /\ UNCHANGED <<streamVars, status>>

(* The channel of a source is closed: its task is over and it is empty. *)
Closed(s) == phase[s] \in {"Ended", "Failed"} /\ channel[s] = <<>>

(* Slip: the run only stops when the tasks are over and nothing failed. *)
AllClosedCleanly ==
  /\ status = "Running"
  /\ \A s \in Sources : Closed(s) /\ phase[s] # "Failed"
  /\ status' = "Draining"
  /\ UNCHANGED <<streamVars, channel, gaps, tradingVars>>

(* Both channels are closed. *)
AllClosed ==
  /\ status = "Running"
  /\ \A s \in Sources : Closed(s)
  /\ status' = "Draining"
  /\ UNCHANGED <<streamVars, channel, gaps, tradingVars>>

(***************************************************************************)
(* The deadline, max_events, max_decisions or a disk limit stops the run.  *)
(* The drain that follows reads the internal bus, which is empty: events   *)
(* left in the channels are not handled.                                   *)
(***************************************************************************)
StopEarly ==
  /\ status = "Running"
  /\ status' = "Draining"
  /\ UNCHANGED <<streamVars, channel, gaps, tradingVars>>

(* The tasks are aborted and joined; one that failed fails the run. *)
FinishRun ==
  /\ status = "Draining"
  /\ IF \E s \in Sources : phase[s] = "Failed"
       THEN status' = "Failed" /\ UNCHANGED tradingVars
       ELSE /\ status' = "Completed"
            /\ IF LiquidateOnFinalize THEN LiquidateAll ELSE UNCHANGED tradingVars
  /\ UNCHANGED <<streamVars, channel, gaps>>

-----------------------------------------------------------------------------

(* What the task of a source does about its connection. *)
Reconnect(s) == Connect(s) \/ ConnectFails(s)

Next ==
  \/ \E s \in Sources :
       \/ Reconnect(s) \/ StreamFails(s) \/ StreamEnds(s)
       \/ \E m \in Mints : StreamTrade(s, m)
       \/ Receive(s)
  \/ \E slot \in 1 .. MaxSlot : \E parent \in 0 .. slot - 1 : StreamSlot(slot, parent)
  \/ DeshredUnimplemented
  \/ AllClosed \/ StopEarly \/ FinishRun

Spec == Init /\ [][Next]_vars

(***************************************************************************)
(* A task retries its connection after a bounded delay, the supervisor     *)
(* polls both channels (an unbiased select!), and ends the run when they   *)
(* are closed.  Nothing obliges a stream to yield, to fail or to end.      *)
(***************************************************************************)
Fairness ==
  /\ \A s \in Sources : WF_vars(Reconnect(s)) /\ WF_vars(Receive(s))
  /\ WF_vars(AllClosed)
  /\ WF_vars(FinishRun)

FairSpec == Spec /\ Fairness

-----------------------------------------------------------------------------
(* Properties. *)

(***************************************************************************)
(* Whether an outage of s blocks trading once the queued events of s are   *)
(* handled: the last outage or recovery queued decides, and the list of    *)
(* active gaps when there is none.                                         *)
(***************************************************************************)
Announced(s) ==
  \/ \E i \in 1 .. Len(channel[s]) :
       /\ channel[s][i].kind = "Outage"
       /\ \A j \in i + 1 .. Len(channel[s]) : channel[s][j].kind # "Recovery"
  \/ /\ <<s, "Outage">> \in gaps
     /\ \A j \in 1 .. Len(channel[s]) : channel[s][j].kind # "Recovery"

(***************************************************************************)
(* The list of active gaps follows the streams, through any interleaving   *)
(* of the tasks and any backlog in the channels: a source that lost its    *)
(* connection blocks trading as soon as the supervisor has caught up, also *)
(* when it gave up for good, and one that streams, or never did, does not  *)
(* (emitted_disconnect_gap, source_gap_event, update_data_gap_state).      *)
(***************************************************************************)
OutagesFollowStreams ==
  \A s \in Sources :
    /\ phase[s] = "Reconnecting" => Announced(s)
    /\ phase[s] = "Failed" /\ gapSent[s] => Announced(s)
    /\ phase[s] \in {"Starting", "Streaming"} => ~Announced(s)

(* The task of s lost its stream and is not connected again. *)
Lost(s) == phase[s] = "Reconnecting" \/ (phase[s] = "Failed" /\ gapSent[s])

(***************************************************************************)
(* No token is entered under a gap, whichever source the gap and the event *)
(* are of, nor while a source is down that gave notice of it: at an entry  *)
(* no gap is active, and the outage of a source that lost its stream still *)
(* waits in its channel, behind a backlog (update_data_gap_state,          *)
(* token_trade_allowed, apply_runtime_safety_for_token).                   *)
(***************************************************************************)
NoEntryUnderGap ==
  [][positions' \ positions # {} =>
       /\ gaps = {}
       /\ \A s \in Sources : Lost(s) =>
            \E i \in 1 .. Len(channel[s]) : channel[s][i].kind = "Outage"]_vars

(***************************************************************************)
(* A token is not entered by the event that discarded it, nor after: the   *)
(* decision is taken on the token as apply_risk_terminal left it.          *)
(***************************************************************************)
NoEntryOnRejectedToken ==
  [][\A m \in positions' \ positions : lifecycle'[m] = "Active"]_vars

(***************************************************************************)
(* An outage does not block trading for ever: it is recovered from, or the *)
(* source gives up, or the run ends.                                       *)
(***************************************************************************)
OutagesEnd ==
  \A s \in Sources :
    <<s, "Outage">> \in gaps
      ~> <<s, "Outage">> \notin gaps \/ phase[s] \in {"Ended", "Failed"} \/ status # "Running"

(***************************************************************************)
(* When every source is gone the run ends: no task blocked on a full       *)
(* channel and no supervisor waiting for an event keeps it alive.          *)
(***************************************************************************)
DeadSourcesEndRun ==
  (\A s \in Sources : phase[s] \in {"Ended", "Failed"}) ~> status \in {"Completed", "Failed"}

-----------------------------------------------------------------------------
(* What the documentation says and the code does not do (see README). *)

(***************************************************************************)
(* docs/ARCHITECTURE.md: "`Source`: blocks while a required source remains *)
(* unhealthy."  A run whose Geyser stream is up for good ends up trading.  *)
(***************************************************************************)
HealthySourceUnblocks ==
  <>[](status = "Running" /\ \A s \in Sources : phase[s] = "Streaming") => []<>~Blocked

(***************************************************************************)
(* The test exit_logic_fires_when_in_position_and_risk_spikes of           *)
(* crates/decision/src/lib.rs: a held token whose risk passes a threshold  *)
(* is sold by that very event.                                             *)
(***************************************************************************)
RiskSpikeExits == spiked \notin positions

=============================================================================
