---------------------------- MODULE PaperTrading ----------------------------
(***************************************************************************)
(* What the supervisor does with one trade event of a token: the state     *)
(* engine's lifecycle (crates/state/src/lib.rs), the risk engine's         *)
(* terminal event, the decision (crates/decision/src/lib.rs), the data-gap *)
(* gate of handle_event (crates/runtime/src/lib.rs) and the paper executor *)
(* (crates/executor/src/lib.rs), in that order and in one step: the        *)
(* supervisor handles one event at a time and nothing here awaits.         *)
(*                                                                         *)
(* Features and risk scores are abstracted to what the control reads of    *)
(* them: the discard policy and the first branch of `evaluate` they lead   *)
(* to (the signal), chosen freely for every event.                         *)
(***************************************************************************)
EXTENDS FiniteSets

CONSTANTS
  Mints,   \* the tokens
  NoMint   \* no token

ASSUME MintsAssumption == IsFiniteSet(Mints) /\ NoMint \notin Mints

VARIABLES
  lifecycle,  \* TokenState.lifecycle, "Untracked" when the state engine has no token
  positions,  \* mints with an open paper position
  spiked      \* history: the mint of the last trade if its risk was over a threshold

tradingVars == <<lifecycle, positions, spiked>>

(***************************************************************************)
(* "Active" stands for the activity levels Discovered to TradeCandidate,   *)
(* "Discarded" for SoftDiscarded, HardDiscarded, RugArchive, Migrated and  *)
(* Completed.                                                              *)
(***************************************************************************)
Lifecycles == {"Untracked", "Active", "InPosition", "Discarded", "DataGap"}

Discards == {"Keep", "Discard", "DataGapStop"}

Signals == {"HighRisk", "LowQuality", "LowEdge", "EmergencyExit", "Exit", "Hold",
            "Eligible", "Watch"}

Decisions == {"EnterPaper", "Exit", "EmergencyExit", "Hold", "Watch", "StopTracking"}

TradingTypeOK ==
  /\ lifecycle \in [Mints -> Lifecycles]
  /\ positions \in SUBSET Mints
  /\ spiked \in Mints \cup {NoMint}

TradingInit ==
  /\ lifecycle = [m \in Mints |-> "Untracked"]
  /\ positions = {}
  /\ spiked = NoMint

(* recompute_transitions: terminal and data-gap tokens stay what they are. *)
Recomputed(l) == IF l \in {"Discarded", "DataGap"} THEN l ELSE "Active"

(* apply_risk_terminal, for canonical events only. *)
RiskTerminal(l, tentative, discard) ==
  CASE tentative \/ discard = "Keep" -> l
    [] ~tentative /\ discard = "Discard" -> "Discarded"
    [] ~tentative /\ discard = "DataGapStop" -> "DataGap"

(* terminal_or_emergency, and the same test of apply_runtime_safety_for_token. *)
TerminalOrEmergency(l) == IF l = "InPosition" THEN "EmergencyExit" ELSE "StopTracking"

(* DecisionEngine::evaluate: the first branch that applies. *)
Evaluate(l, held, discard, signal) ==
  IF discard = "DataGapStop" \/ signal = "HighRisk" THEN TerminalOrEmergency(l)
  ELSE IF signal = "LowQuality" THEN "Watch"
  ELSE IF signal = "LowEdge" THEN IF held THEN "Exit" ELSE "Watch"
  ELSE IF held THEN IF signal \in {"EmergencyExit", "Exit"} THEN signal ELSE "Hold"
  ELSE IF l \in {"Discarded", "DataGap"} THEN "StopTracking"
  ELSE IF signal = "Eligible" THEN "EnterPaper" ELSE "Watch"

(* A tentative event never enters; a blocked token never trades. *)
Gated(l, tentative, blocked, decision) ==
  IF blocked THEN TerminalOrEmergency(l)
  ELSE IF tentative /\ decision = "EnterPaper" THEN "Watch"
  ELSE decision

(***************************************************************************)
(* PaperExecutor::handle_decision.  A simulated buy may fail and leaves no *)
(* position; a position is given up before its sale is simulated, so it is *)
(* gone whatever the sale returns.                                         *)
(***************************************************************************)
HandleDecision(m, decision) ==
  CASE decision = "EnterPaper" -> positions' \in {positions, positions \cup {m}}
    [] decision \in {"Exit", "EmergencyExit"} -> positions' = positions \ {m}
    [] OTHER -> positions' = positions

(* Slip: the decision is taken on the token read before its terminal event. *)
HandleTradeOnStaleToken(m, tentative, blocked, discard, signal) ==
  LET seen     == Recomputed(lifecycle[m])
      after    == RiskTerminal(seen, tentative, discard)
      decision == Evaluate(seen, m \in positions, discard, signal)
  IN  /\ lifecycle' = [lifecycle EXCEPT ![m] = after]
      /\ HandleDecision(m, Gated(seen, tentative, blocked, decision))
      /\ spiked' = IF signal = "HighRisk" THEN m ELSE NoMint

(* handle_event for an event of token m, a trade most of the time. *)
HandleTrade(m, tentative, blocked, discard, signal) ==
  LET seen     == Recomputed(lifecycle[m])
      token    == RiskTerminal(seen, tentative, discard)
      decision == Evaluate(token, m \in positions, discard, signal)
  IN  /\ lifecycle' = [lifecycle EXCEPT ![m] = token]
      /\ HandleDecision(m, Gated(token, tentative, blocked, decision))
      /\ spiked' = IF signal = "HighRisk" THEN m ELSE NoMint

(* A tentative sell of a token the state engine does not know is not looked at. *)
IgnoreTrade(m, tentative) ==
  /\ tentative /\ lifecycle[m] = "Untracked"
  /\ UNCHANGED tradingVars

(* liquidate_all at the end of a run; every held mint still has a token. *)
LiquidateAll ==
  /\ positions' = {}
  /\ UNCHANGED <<lifecycle, spiked>>
=============================================================================
