----------------------------- MODULE RpcBudget ------------------------------
(***************************************************************************)
(* The gatekeeper of remote calls, RpcBudgetManager                        *)
(* (crates/rpc-budget/src/lib.rs), and its one caller that spends, the     *)
(* LiveExecutor (crates/executor/src/lib.rs).                              *)
(*                                                                         *)
(* check_and_record refuses a call, lets an inbound stream through without *)
(* charging it, or charges it to three counters; every request leaves one  *)
(* entry in the ledger.  Counters are u64 and saturate.                    *)
(***************************************************************************)
EXTENDS Integers, Sequences, FiniteSetsExt

CONSTANTS
  Methods,            \* remote methods, "sendTransaction" among them
  Requests,           \* requests other modules may make
  StreamOnly,         \* stream_only.enabled
  Allow,              \* the stream_only.allow_* flags that are set
  FailOnUnbudgeted,   \* stream_only.fail_on_unbudgeted_rpc
  DenyWhenUnknown,    \* rpc_budget.deny_when_unknown_live_state
  DailyLimit,         \* rpc_budget.daily_credit_limit
  MonthlyLimit,       \* rpc_budget.monthly_credit_limit
  MethodLimit,        \* rpc_budget.per_method_limits: partial, from methods to credits
  Reserve,            \* rpc_budget.emergency_reserve
  LiveEnabled,        \* execution.live_enabled
  DryRun,             \* the executor signs and asks, and does not send
  MaxCredit,          \* the largest u64
  MaxLedger           \* bound on the entries of the ledger

Kinds == {"JsonRpc", "HttpExternal", "GrpcStream", "UdpShred", "InboundMetrics"}

FreeKinds == {"GrpcStream", "UdpShred", "InboundMetrics"}

Reasons == {"ColdStart", "ProgramConfigValidation", "ExecutionBlockhash", "ExecutionSend",
            "ExecutionStatusFallback", "EmergencyReconciliation", "DevTestFixtures",
            "NonProductionVerification"}

(* RpcReason::allowed_in_live *)
LiveReasons == {"ProgramConfigValidation", "ExecutionBlockhash", "ExecutionSend",
                "ExecutionStatusFallback", "EmergencyReconciliation"}

FlagOf == [MarketData |-> "tracking", HolderScan |-> "holder", TopHolderScan |-> "top_holder",
           MetadataFetch |-> "metadata", Backfill |-> "backfill",
           Reconciliation |-> "reconciliation", Confirmation |-> "confirmation",
           TransactionStatus |-> "confirmation", Blockhash |-> "blockhash",
           Emergency |-> "emergency"]

Categories == DOMAIN FlagOf \cup {"TransactionSend", "Simulation", "DevTest", "Unknown"}

AllRequests == [method : Methods, kind : Kinds, category : Categories, reason : Reasons,
                live : BOOLEAN, cost : 0 .. MaxCredit]

(* The request submit makes for a transaction. *)
SendRequest == [method |-> "sendTransaction", kind |-> "JsonRpc", category |-> "TransactionSend",
                reason |-> "ExecutionSend", live |-> TRUE, cost |-> 1]

ASSUME BudgetAssumption ==
  /\ MaxCredit \in Nat \ {0} /\ MaxLedger \in Nat
  /\ Requests \subseteq AllRequests /\ SendRequest \in AllRequests
  /\ DailyLimit \in 0 .. MaxCredit /\ MonthlyLimit \in 0 .. MaxCredit
  /\ Reserve \in 0 .. MaxCredit
  /\ DOMAIN MethodLimit \subseteq Methods
  /\ \A m \in DOMAIN MethodLimit : MethodLimit[m] \in 0 .. MaxCredit
  /\ StreamOnly \in BOOLEAN /\ FailOnUnbudgeted \in BOOLEAN /\ DenyWhenUnknown \in BOOLEAN
  /\ LiveEnabled \in BOOLEAN /\ DryRun \in BOOLEAN

(* The limit leaves room below the largest u64, or there is a reserve: a sum that *)
(* saturates is then over the limit.                                              *)
RoomBelowMax == DailyLimit < MaxCredit \/ Reserve > 0

(* What validate_stream_only asks of a stream-only configuration: of the flags  *)
(* only that of emergencies may be set, and the limits are zero.                *)
StreamOnlyValidated ==
  /\ StreamOnly
  /\ Allow \cap {"tracking", "holder", "top_holder", "metadata", "backfill", "reconciliation",
                 "confirmation", "blockhash", "send", "execution"} = {}
  /\ DailyLimit = 0 /\ MonthlyLimit = 0

VARIABLES
  daily,       \* daily_used
  monthly,     \* monthly_used
  perMethod,   \* per_method_used
  ledger,      \* one entry for each request
  known,       \* known_budget_state
  killSwitch,  \* LiveExecutor.kill_switch
  sent         \* transactions the executor has sent

vars == <<daily, monthly, perMethod, ledger, known, killSwitch, sent>>

Verdicts == {"denied", "free", "charged"}

Entries == [request : AllRequests, verdict : Verdicts]

Init ==
  /\ daily = 0 /\ monthly = 0
  /\ perMethod = [m \in Methods |-> 0]
  /\ ledger = <<>>
  /\ known = TRUE /\ killSwitch = FALSE
  /\ sent = 0

-----------------------------------------------------------------------------
(* saturating_add and saturating_sub *)
Plus(a, b) == IF a + b > MaxCredit THEN MaxCredit ELSE a + b
Minus(a, b) == IF a > b THEN a - b ELSE 0

Free(r) == r.kind \in FreeKinds

(* stream_only_denial_reason *)
Permitted(category) ==
  \/ category \in DOMAIN FlagOf /\ FlagOf[category] \in Allow
  \/ category \in {"TransactionSend", "Simulation"} /\ {"execution", "send"} \subseteq Allow
  \/ category = "Unknown" /\ ~FailOnUnbudgeted

StreamOnlyDenies(r) == StreamOnly /\ ~Free(r) /\ ~Permitted(r.category)

LiveDenies(r) == r.live /\ ((DenyWhenUnknown /\ ~known) \/ r.reason \notin LiveReasons)

(* Slip: the reserve is compared with what is left before the call. *)
OverBudgetBefore(r) ==
  \/ Plus(daily, r.cost) > DailyLimit
  \/ Plus(monthly, r.cost) > MonthlyLimit
  \/ r.method \in DOMAIN MethodLimit
     /\ Plus(perMethod[r.method], r.cost) > MethodLimit[r.method]
  \/ Minus(DailyLimit, daily) < Reserve

OverBudget(r) ==
  \/ Plus(daily, r.cost) > DailyLimit
  \/ Plus(monthly, r.cost) > MonthlyLimit
  \/ r.method \in DOMAIN MethodLimit
     /\ Plus(perMethod[r.method], r.cost) > MethodLimit[r.method]
  \/ Minus(DailyLimit, Plus(daily, r.cost)) < Reserve

Refused(r) == StreamOnlyDenies(r) \/ LiveDenies(r) \/ (~Free(r) /\ OverBudget(r))

Verdict(r) == IF Refused(r) THEN "denied" ELSE IF Free(r) THEN "free" ELSE "charged"

(* Slip: the counters are charged before the checks are over. *)
ChargeFirst(r) ==
  IF Free(r) \/ StreamOnlyDenies(r) \/ LiveDenies(r)
  THEN UNCHANGED <<daily, monthly, perMethod>>
  ELSE /\ daily' = Plus(daily, r.cost)
       /\ monthly' = Plus(monthly, r.cost)
       /\ perMethod' = [perMethod EXCEPT ![r.method] = Plus(@, r.cost)]

Charge(r) ==
  IF Verdict(r) = "charged"
  THEN /\ daily' = Plus(daily, r.cost)
       /\ monthly' = Plus(monthly, r.cost)
       /\ perMethod' = [perMethod EXCEPT ![r.method] = Plus(@, r.cost)]
  ELSE UNCHANGED <<daily, monthly, perMethod>>

(* check_and_record *)
CheckAndRecord(r) ==
  /\ Len(ledger) < MaxLedger
  /\ Charge(r)
  /\ ledger' = Append(ledger, [request |-> r, verdict |-> Verdict(r)])

-----------------------------------------------------------------------------
Request(r) ==
  /\ CheckAndRecord(r)
  /\ UNCHANGED <<known, killSwitch, sent>>

(* Slip: what the budget answers is not waited for. *)
SubmitUnpaid ==
  /\ LiveEnabled /\ ~killSwitch
  /\ CheckAndRecord(SendRequest)
  /\ sent' = IF ~DryRun THEN sent + 1 ELSE sent
  /\ UNCHANGED <<known, killSwitch>>

(* LiveExecutor::submit, of an entry whose signal is fresh and whose fee fits. *)
Submit ==
  /\ LiveEnabled /\ ~killSwitch
  /\ CheckAndRecord(SendRequest)
  /\ sent' = IF Verdict(SendRequest) = "charged" /\ ~DryRun THEN sent + 1 ELSE sent
  /\ UNCHANGED <<known, killSwitch>>

MarkBudgetStateUnknown ==
  /\ known' = FALSE
  /\ UNCHANGED <<daily, monthly, perMethod, ledger, killSwitch, sent>>

SetKillSwitch ==
  /\ killSwitch' \in BOOLEAN
  /\ UNCHANGED <<daily, monthly, perMethod, ledger, known, sent>>

Next ==
  \/ \E r \in Requests : Request(r)
  \/ Submit
  \/ MarkBudgetStateUnknown
  \/ SetKillSwitch

Spec == Init /\ [][Next]_vars

-----------------------------------------------------------------------------
(* Every variable holds what the program can hold. *)
TypeOK ==
  /\ daily \in 0 .. MaxCredit /\ monthly \in 0 .. MaxCredit
  /\ perMethod \in [Methods -> 0 .. MaxCredit]
  /\ ledger \in Seq(Entries) /\ Len(ledger) <= MaxLedger
  /\ known \in BOOLEAN /\ killSwitch \in BOOLEAN
  /\ sent \in Nat

Charged(i) == ledger[i].verdict = "charged"
Cost(i) == ledger[i].request.cost

(* The counters and the ledger, kept side by side, tell the same story: the *)
(* credits used are those of the charged entries, by method and in all,     *)
(* whatever was refused in between and however large a request was.         *)
LedgerExplainsCounters ==
  /\ daily = MapThenSumSet(Cost, {i \in DOMAIN ledger : Charged(i)})
  /\ monthly = daily
  /\ \A m \in Methods :
       perMethod[m] = MapThenSumSet(Cost, {i \in DOMAIN ledger :
                                              Charged(i) /\ ledger[i].request.method = m})

(* docs/RPC_BUDGET.md, "emergency reserve protection": no sequence of calls *)
(* spends into the reserve, and no method passes its limit.                 *)
LimitsKept ==
  /\ daily = 0 \/ daily + Reserve <= DailyLimit
  /\ monthly <= MonthlyLimit
  /\ \A m \in DOMAIN MethodLimit : perMethod[m] <= MethodLimit[m]

(* docs/RPC_BUDGET.md, "live-mode fail-closed behavior when budget state is  *)
(* unknown": from then on nothing of a live run is let through, not even a   *)
(* stream that costs nothing.                                                *)
FailsClosed ==
  [][(DenyWhenUnknown /\ ~known /\ ledger' # ledger) =>
       LET e == ledger'[Len(ledger')]
       IN  e.request.live => e.verdict = "denied"]_vars

(* A transaction is sent only by a live executor that is no dry run and whose *)
(* kill switch is off, while the state of the budget is known (where unknown  *)
(* is to deny), and in the very step in which the budget charged its method   *)
(* and kept the reserve.                                                      *)
SendsArePaid ==
  [][sent' # sent =>
       /\ LiveEnabled /\ ~DryRun /\ ~killSwitch
       /\ DenyWhenUnknown => known
       /\ perMethod'["sendTransaction"] > perMethod["sendTransaction"]
       /\ daily' + Reserve <= DailyLimit]_vars

(* docs/STREAM_ONLY_CONTRACT.md, "It may not spend JSON-RPC/eRPC credits": no    *)
(* sequence of calls spends a credit or sends a transaction, and of the calls    *)
(* that are no inbound streams only emergencies and calls of no category, which  *)
(* the validation leaves to their own flags, pass, and only when they are free.  *)
NothingSpent ==
  /\ daily = 0 /\ monthly = 0 /\ \A m \in Methods : perMethod[m] = 0
  /\ sent = 0
  /\ \A i \in DOMAIN ledger :
       ledger[i].verdict = "charged" =>
         ledger[i].request.category \in {"Emergency", "Unknown"} /\ Cost(i) = 0
=============================================================================
