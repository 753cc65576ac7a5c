--------------------------- MODULE TentativeSells ---------------------------
(***************************************************************************)
(* Sells seen ahead of the chain.  TentativeSellManager                    *)
(* (crates/runtime/src/shred_exit.rs) takes in a tentative sell, suppresses*)
(* it when another source already reported it, and settles it with the     *)
(* first canonical event that answers it, or when its time is over.        *)
(* handle_event (crates/runtime/src/lib.rs) applies every event the manager*)
(* derives to the token's state (crates/state/src/lib.rs), in one step: the*)
(* supervisor handles one event at a time.  finalize_run settles what is   *)
(* left when the run ends.                                                 *)
(*                                                                         *)
(* A transaction stands for one sell of one seller; a source is one report *)
(* of a transaction, and some reports come without its signature.  The     *)
(* slots and amounts each report decoded are abstracted to the pairs of    *)
(* reports that lie within the tolerances of the deduplication; confidence,*)
(* impact, latency and the position held to whether the warning arms an    *)
(* exit.                                                                   *)
(***************************************************************************)
EXTENDS Naturals, FiniteSets

CONSTANTS
  Transactions,  \* sells
  Sources,       \* early sources: raw shreds, deshred, a mock
  Signing,       \* the sources that decode signatures
  Sellers,       \* wallets
  Mints,         \* tokens
  SellerOf,      \* the seller of each transaction
  MintOf,        \* the token it sells
  Deduplicate,   \* early_intent.deduplicate_sources
  Alike,         \* pairs of reports whose decoded slots and amounts are close
  TTL,           \* tentative_reconciliation_ttl_ms
  Skew,          \* how far an event's reception time may lie in the past
  MaxTime        \* bound on the clock

(* A report of a transaction. *)
Signals == Transactions \X Sources

ASSUME SellsAssumption ==
  /\ IsFiniteSet(Transactions) /\ IsFiniteSet(Sources) /\ Signing \subseteq Sources
  /\ SellerOf \in [Transactions -> Sellers]
  /\ MintOf \in [Transactions -> Mints]
  /\ Deduplicate \in BOOLEAN
  /\ Alike \subseteq Signals \X Signals
  /\ \A p, q \in Signals : <<p, q>> \in Alike => <<q, p>> \in Alike
  /\ TTL \in Nat \ {0} /\ Skew \in Nat /\ MaxTime \in Nat

VARIABLES
  known,         \* mints the state engine has a token for
  fate,          \* what the canonical stream has said of each transaction
  arrived,       \* signals the sources have delivered
  pending,       \* TentativeSellManager.pending: when each expires, whether it armed an exit
  detected,      \* metrics.tentative_sell_total
  metrics,       \* the manager's counters of outcomes
  observations,  \* the manager's observations: the outcome recorded for each signal
  tracked,       \* pending_tentative_sells of the tokens
  recorded,      \* signals whose outcome the tokens have recorded
  counted,       \* tentative_sell_count_window of each token
  armed,         \* mints whose shred_exit_armed_flag is set
  now,           \* the latest reception time handled
  traded,        \* time of the last entry of each token's price history, 0 when empty
  finalized      \* finalize_run has settled what was left

vars == <<known, fate, arrived, pending, detected, metrics, observations, tracked,
          recorded, counted, armed, now, traded, finalized>>

Signed(s) == s[2] \in Signing
SellerOfSignal(s) == SellerOf[s[1]]
MintOfSignal(s) == MintOf[s[1]]

Outcomes == {"ConfirmedExecuted", "ConfirmedFailed", "AccountEffectsObserved",
             "NotSeenWithinTtl", "Reorged", "DecodeMismatch"}

Fates == {"Unknown", "Executed", "Failed", "Reverted"}

Times == 1 .. MaxTime

Init ==
  /\ known = {}
  /\ fate = [t \in Transactions |-> "Unknown"]
  /\ arrived = {}
  /\ pending = [s \in {} |-> [expires |-> 0, armed |-> FALSE]]
  /\ detected = 0
  /\ metrics = [o \in Outcomes |-> 0]
  /\ observations = [s \in {} |-> "none"]
  /\ tracked = {}
  /\ recorded = {}
  /\ counted = [m \in Mints |-> 0]
  /\ armed = {}
  /\ now = 0
  /\ traded = [m \in Mints |-> 0]
  /\ finalized = FALSE

-----------------------------------------------------------------------------
(***************************************************************************)
(* Settling.  `out` maps the signals that are settled to their outcomes;   *)
(* `shown` are those whose resolution the state engine applies.            *)
(***************************************************************************)
WithOutcomes(out) ==
  [s \in DOMAIN observations \cup DOMAIN out |->
     IF s \in DOMAIN out THEN out[s] ELSE observations[s]]

(* Slip: the observation is recorded and the counter forgotten for what expires. *)
RecordWithoutExpiries(out) ==
  /\ metrics' = [o \in Outcomes |-> IF o = "NotSeenWithinTtl" THEN metrics[o]
                   ELSE metrics[o] + Cardinality({s \in DOMAIN out : out[s] = o})]
  /\ observations' = WithOutcomes(out)

(* record_resolution: one counter and one observation for each outcome. *)
Record(out) ==
  /\ metrics' = [o \in Outcomes |->
                   metrics[o] + Cardinality({s \in DOMAIN out : out[s] = o})]
  /\ observations' = WithOutcomes(out)

(* Slip: the flag survives every resolution. *)
ApplyResolvedKeepsFlag(shown, entries, flags) ==
  /\ tracked' = entries \ shown
  /\ recorded' = recorded \cup shown
  /\ armed' = flags

(* apply_shred_sell_resolved: the tracking entry goes, and with it the armed *)
(* flag of the token, whichever signal had armed it.                         *)
ApplyResolved(shown, entries, flags) ==
  /\ tracked' = entries \ shown
  /\ recorded' = recorded \cup shown
  /\ armed' = flags \ {MintOfSignal(s) : s \in shown}

(* expire: the entries whose time is over at the given time. *)
Overdue(entries, at) == {s \in DOMAIN entries : entries[s].expires <= at}

Without(entries, gone) == [s \in DOMAIN entries \ gone |-> entries[s]]

Resolutions(answers, overdue) ==
  [s \in DOMAIN answers \cup overdue |->
     IF s \in DOMAIN answers THEN answers[s] ELSE "NotSeenWithinTtl"]

(* Slip: the entry an answer settled is left among the pending ones. *)
ConcludeKeepsAnswered(kept, answers, reverted, at, entries, flags) ==
  LET overdue == Overdue(Without(kept, DOMAIN answers), at)
      out     == Resolutions(answers, overdue)
  IN  /\ pending' = Without(kept, overdue)
      /\ Record(out)
      /\ ApplyResolved(IF reverted THEN overdue ELSE DOMAIN out, entries, flags)

(* Slip: what is overdue expires before the event is compared with it. *)
ConcludeExpiresFirst(kept, answers, reverted, at, entries, flags) ==
  LET overdue == Overdue(kept, at)
      out     == Resolutions(Without(answers, overdue), overdue)
  IN  /\ pending' = Without(kept, DOMAIN out)
      /\ Record(out)
      /\ ApplyResolved(IF reverted THEN overdue ELSE DOMAIN out, entries, flags)

(***************************************************************************)
(* The end of handle_event, with the entries `kept`: those the event       *)
(* answers are settled, then what is still open and overdue is settled as  *)
(* not seen.  The state engine drops reverted events, and with them the    *)
(* resolutions derived from them.                                          *)
(***************************************************************************)
Conclude(kept, answers, reverted, at, entries, flags) ==
  LET open    == Without(kept, DOMAIN answers)
      overdue == Overdue(open, at)
      out     == Resolutions(answers, overdue)
  IN  /\ pending' = Without(kept, DOMAIN out)
      /\ Record(out)
      /\ ApplyResolved(IF reverted THEN overdue ELSE DOMAIN out, entries, flags)

(* A canonical event, or the end of the run. *)
Settle(answers, reverted, at) ==
  /\ Conclude(pending, answers, reverted, at, tracked, armed)
  /\ UNCHANGED <<arrived, detected, counted>>

NoAnswers == [s \in {} |-> "none"]

(* The clock of the events: an event may have waited in its queue for Skew. *)
Handled(at) ==
  /\ ~finalized
  /\ at \in Times /\ at + Skew >= now
  /\ now' = IF at > now THEN at ELSE now
  /\ UNCHANGED finalized

(* A token the state engine does not know ends handle_event early. *)
Ignored == UNCHANGED <<arrived, pending, detected, metrics, observations, tracked,
                       recorded, counted, armed>>

-----------------------------------------------------------------------------
(***************************************************************************)
(* Detection.                                                              *)
(***************************************************************************)
(* A sell of the same wallet, in a slot and of an amount within the          *)
(* tolerances, as each of the two reports decoded them: two reports of one   *)
(* transaction may differ by more.                                           *)
SameSeller(p, s) ==
  /\ SellerOfSignal(p) = SellerOfSignal(s)
  /\ <<p, s>> \in Alike

(* Slip: only signatures are compared, a report without one is always new. *)
MatchesBySignatureOnly(p, s) ==
  /\ MintOfSignal(p) = MintOfSignal(s)
  /\ Signed(p) /\ Signed(s) /\ p[1] = s[1]

(* pending_matches_duplicate_source: two signatures decide, otherwise the    *)
(* seller and the tolerances.  (The hash of the update it also compares is   *)
(* made of the signature.)                                                   *)
MatchesDuplicate(p, s) ==
  /\ MintOfSignal(p) = MintOfSignal(s)
  /\ IF Signed(p) /\ Signed(s) THEN p[1] = s[1] ELSE SameSeller(p, s)

Duplicate(s) == Deduplicate /\ \E p \in DOMAIN pending : MatchesDuplicate(p, s)

Taken(s, at, arms) ==
  [p \in DOMAIN pending \cup {s} |->
     IF p = s THEN [expires |-> at + TTL, armed |-> arms] ELSE pending[p]]

(* Slip: the intent of a signal that is taken in is not applied to the token. *)
DetectWithoutIntent(s, at, severe) ==
  LET m    == MintOfSignal(s)
      arms == severe /\ ~Duplicate(s)
  IN  /\ detected' = IF Duplicate(s) THEN detected ELSE detected + 1
      /\ counted' = [counted EXCEPT ![m] = @ + 1]
      /\ Conclude(IF Duplicate(s) THEN pending ELSE Taken(s, at, arms), NoAnswers, FALSE, at,
                  IF Duplicate(s) THEN tracked \cup {s} ELSE tracked,
                  IF arms THEN armed \cup {m} ELSE armed)

(***************************************************************************)
(* The intent of a duplicate is still derived, and applied to the state;   *)
(* nothing else of it is kept.  A signal that is `severe` finds a position *)
(* open and its warning at a level that arms an exit.                      *)
(***************************************************************************)
Detect(s, at, severe) ==
  LET m    == MintOfSignal(s)
      arms == severe /\ ~Duplicate(s)
  IN  /\ detected' = IF Duplicate(s) THEN detected ELSE detected + 1
      /\ counted' = [counted EXCEPT ![m] = @ + 1]
      /\ Conclude(IF Duplicate(s) THEN pending ELSE Taken(s, at, arms), NoAnswers, FALSE, at,
                  tracked \cup {s}, IF arms THEN armed \cup {m} ELSE armed)

(* A source delivers its signal of a sell. *)
Signal(s, at, severe) ==
  /\ s \notin arrived
  /\ Handled(at)
  /\ arrived' = arrived \cup {s}
  /\ IF MintOfSignal(s) \in known
     THEN Detect(s, at, severe)
     ELSE UNCHANGED <<pending, detected, metrics, observations, tracked, recorded,
                      counted, armed>>
  /\ UNCHANGED <<known, fate, traded>>

-----------------------------------------------------------------------------
(***************************************************************************)
(* Canonical events.  reconcile_pending_against_event gives the first      *)
(* outcome that fits, for every pending signal of the token.               *)
(***************************************************************************)
OfSeller(w, m) ==
  {s \in DOMAIN pending : MintOfSignal(s) = m /\ SellerOfSignal(s) = w}

(* Slip: a signature that differs confirms as well. *)
SellAnswersAnySignature(t, failed) ==
  [s \in OfSeller(SellerOf[t], MintOf[t]) |->
     IF failed THEN "ConfirmedFailed" ELSE "ConfirmedExecuted"]

(* A canonical sell: by signature, or by seller for a signal without one; a  *)
(* signal of the same seller with another signature is a mismatch.           *)
SellAnswers(t, failed) ==
  [s \in OfSeller(SellerOf[t], MintOf[t]) |->
     IF Signed(s) /\ s[1] # t THEN "DecodeMismatch"
     ELSE IF failed THEN "ConfirmedFailed" ELSE "ConfirmedExecuted"]

(* A reverted sell: reorged by signature; signals without one still fit the  *)
(* branch of a sell that executed.                                           *)
RevertAnswers(t) ==
  [s \in OfSeller(SellerOf[t], MintOf[t]) |->
     IF Signed(s) /\ s[1] = t THEN "Reorged"
     ELSE IF Signed(s) THEN "DecodeMismatch" ELSE "ConfirmedExecuted"]

(* A balance of the seller that fell. *)
BalanceAnswers(w, m) == [s \in OfSeller(w, m) |-> "AccountEffectsObserved"]

CanonicalSell(t, failed, at) ==
  /\ fate[t] \in {"Unknown", IF failed THEN "Failed" ELSE "Executed"}
  /\ Handled(at)
  /\ fate' = [fate EXCEPT ![t] = IF failed THEN "Failed" ELSE "Executed"]
  /\ known' = known \cup {MintOf[t]}
  /\ traded' = [traded EXCEPT ![MintOf[t]] = at]
  /\ Settle(SellAnswers(t, failed), FALSE, at)

(* The state engine ignores a reverted event: the token must exist already. *)
RevertedSell(t, at) ==
  /\ fate[t] \in {"Unknown", "Executed"}
  /\ Handled(at)
  /\ fate' = [fate EXCEPT ![t] = "Reverted"]
  /\ IF MintOf[t] \in known
     THEN Settle(RevertAnswers(t), TRUE, at)
     ELSE Ignored
  /\ UNCHANGED <<known, traded>>

BalanceFell(w, m, at) ==
  /\ Handled(at)
  /\ known' = known \cup {m}
  /\ Settle(BalanceAnswers(w, m), FALSE, at)
  /\ UNCHANGED <<fate, traded>>

(* A buy of the canonical stream: it answers nothing and moves the clock. *)
Buy(m, at) ==
  /\ Handled(at)
  /\ known' = known \cup {m}
  /\ traded' = [traded EXCEPT ![m] = at]
  /\ Settle(NoAnswers, FALSE, at)
  /\ UNCHANGED fate

-----------------------------------------------------------------------------
(* finalize_run: what expires TTL after the last trade any token has seen, or *)
(* after the present when none has.                                           *)
LastTrade == IF \A m \in Mints : traded[m] = 0 THEN now
             ELSE CHOOSE t \in Times : /\ \E m \in Mints : traded[m] = t
                                       /\ \A m \in Mints : traded[m] <= t

Finalize ==
  /\ ~finalized
  /\ finalized' = TRUE
  /\ Settle(NoAnswers, FALSE, LastTrade + TTL)
  /\ UNCHANGED <<known, fate, now, traded>>

Next ==
  \/ \E s \in Signals, at \in Times, severe \in BOOLEAN : Signal(s, at, severe)
  \/ \E t \in Transactions, failed \in BOOLEAN, at \in Times : CanonicalSell(t, failed, at)
  \/ \E t \in Transactions, at \in Times : RevertedSell(t, at)
  \/ \E w \in Sellers, m \in Mints, at \in Times : BalanceFell(w, m, at)
  \/ \E m \in Mints, at \in Times : Buy(m, at)
  \/ Finalize

Spec == Init /\ [][Next]_vars

-----------------------------------------------------------------------------
(***************************************************************************)
(* Properties.                                                             *)
(***************************************************************************)
Entries == [expires : Nat, armed : BOOLEAN]

(* Every variable holds what the program can hold: the outcomes are those  *)
(* the manager counts.                                                     *)
TypeOK ==
  /\ known \subseteq Mints /\ armed \subseteq Mints
  /\ fate \in [Transactions -> Fates]
  /\ arrived \subseteq Signals /\ tracked \subseteq Signals /\ recorded \subseteq Signals
  /\ DOMAIN pending \subseteq Signals /\ pending \in [DOMAIN pending -> Entries]
  /\ DOMAIN observations \subseteq Signals
  /\ observations \in [DOMAIN observations -> Outcomes]
  /\ detected \in Nat /\ metrics \in [Outcomes -> Nat] /\ counted \in [Mints -> Nat]
  /\ now \in Nat /\ traded \in [Mints -> Nat] /\ finalized \in BOOLEAN

(* The counters of the report tell the truth: each outcome's counter is the *)
(* number of signals it was recorded for, and a signal that was counted on  *)
(* detection is either pending or has an outcome.                           *)
Accounting ==
  /\ \A o \in Outcomes :
       metrics[o] = Cardinality({s \in DOMAIN observations : observations[s] = o})
  /\ detected = Cardinality(DOMAIN pending) + Cardinality(DOMAIN observations)

(* Several sources report a sell.  What the deduplication promises of those *)
(* it lets through: no two signed reports of one transaction are ever       *)
(* pending together, so that a canonical sell confirms, and calibrates, at  *)
(* most one of them; and a report without a signature is pending only next  *)
(* to reports of its wallet that decoded another slot or amount.            *)
PendingReportsDiffer ==
  Deduplicate =>
    \A p, q \in DOMAIN pending :
       (p # q /\ MintOfSignal(p) = MintOfSignal(q) /\ SellerOfSignal(p) = SellerOfSignal(q)) =>
         IF Signed(p) /\ Signed(q) THEN p[1] # q[1] ELSE <<p, q>> \notin Alike

(* The manager and the state engine agree: what the manager waits for, the *)
(* token tracks.                                                           *)
PendingTracked == DOMAIN pending \subseteq tracked

(* Heard of a sell of the wallet of s, of its token, that is not the one s *)
(* reports.                                                                *)
OtherSellHeard(s) ==
  \E t \in Transactions : /\ t # s[1] /\ fate[t] # "Unknown"
                          /\ SellerOf[t] = SellerOfSignal(s) /\ MintOf[t] = MintOfSignal(s)

(* What an outcome of a signed signal tells.  A confirmation, executed or  *)
(* failed, and a reorg are what the canonical stream said of that very     *)
(* transaction, whichever sells were seen in between.  A mismatch tells of *)
(* another transaction: a sell of the same wallet was heard of while the   *)
(* signal was pending.  (A fallen balance and an expiry tell nothing of the*)
(* transaction.)                                                           *)
Truthful ==
  \A s \in DOMAIN observations : Signed(s) =>
     /\ observations[s] = "ConfirmedExecuted" => fate[s[1]] \in {"Executed", "Reverted"}
     /\ observations[s] = "ConfirmedFailed" => fate[s[1]] = "Failed"
     /\ observations[s] = "Reorged" => fate[s[1]] = "Reverted"
     /\ observations[s] = "DecodeMismatch" => OtherSellHeard(s)

(* An armed exit has a reason: a pending sell that armed one, or one whose *)
(* resolution the state engine dropped.                                    *)
ArmedHasReason ==
  \A m \in armed :
     \/ \E s \in DOMAIN pending : MintOfSignal(s) = m /\ pending[s].armed
     \/ \E s \in DOMAIN observations \ recorded : MintOfSignal(s) = m

(* The canonical sell and the expiry of a signal race.  The sell wins when *)
(* it is handled first, even after the time of the signal: a transaction   *)
(* heard of while its signal is pending is never recorded as not seen.     *)
AnswerBeatsExpiry ==
  [][\A s \in DOMAIN pending :
       (fate'[s[1]] # fate[s[1]] /\ MintOfSignal(s) \in known) =>
         /\ s \in DOMAIN observations'
         /\ observations'[s] # "NotSeenWithinTtl"]_vars

(* The manager keeps the promise of Settlement: a signal waits until one   *)
(* outcome is recorded for it, and keeps that outcome.                     *)
Ledger == INSTANCE Settlement WITH waiting <- DOMAIN pending, outcome <- observations

SettledOnce == Ledger!Spec

-----------------------------------------------------------------------------
(***************************************************************************)
(* What the documents say and the code does not do.                        *)
(***************************************************************************)
(* docs/DATA_SOURCES.md: reports of several sources are deduplicated       *)
(* "instead of double-counting the same sell intent".                      *)
CountedOnce ==
  \A m \in Mints :
     counted[m] <= Cardinality({t \in Transactions :
                                  MintOf[t] = m /\ \E r \in Sources : <<t, r>> \in arrived})
=============================================================================
