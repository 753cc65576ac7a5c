----------------------- MODULE TentativeSellsProofs ------------------------
(***************************************************************************)
(* Proofs about TentativeSells, for any sells, sources, tokens and times:  *)
(* its types, that the manager implements Settlement, that its counters    *)
(* and the state engine agree with what is pending and settled, and that   *)
(* confirmations, reorgs and mismatches are true.                          *)
(*                                                                         *)
(* Every step has one of three shapes (StepKinds): it leaves the manager   *)
(* alone, it settles some of what is pending, or it takes in a signal and  *)
(* settles some of what is then pending.  The theorems follow the shapes.  *)
(***************************************************************************)
EXTENDS TentativeSells, FiniteSetTheorems, TLAPS

(* The outcomes `out` are recorded of entries among `kept`, and the state  *)
(* engine applies those of `shown`.                                        *)
Concluding(kept, out, shown, entries, flags) ==
  /\ out \in [DOMAIN out -> Outcomes]
  /\ DOMAIN out \subseteq DOMAIN kept
  /\ shown \subseteq DOMAIN out
  /\ pending' = Without(kept, DOMAIN out)
  /\ Record(out)
  /\ ApplyResolved(shown, entries, flags)

Quiet ==
  /\ UNCHANGED <<pending, detected, metrics, observations, tracked, recorded, counted, armed>>
  /\ arrived' \in SUBSET Signals /\ arrived \subseteq arrived'

Settling ==
  /\ \E out, shown : Concluding(pending, out, shown, tracked, armed)
  /\ UNCHANGED <<arrived, detected, counted>>

KeptWith(s, at, arms) == IF Duplicate(s) THEN pending ELSE Taken(s, at, arms)

Taking ==
  \E s \in Signals, at \in Times, arms \in BOOLEAN :
    /\ s \notin arrived
    /\ arrived' = arrived \cup {s}
    /\ arms => ~Duplicate(s)
    /\ detected' = IF Duplicate(s) THEN detected ELSE detected + 1
    /\ counted' = [counted EXCEPT ![MintOfSignal(s)] = @ + 1]
    /\ \E out :
         /\ Concluding(KeptWith(s, at, arms), out, DOMAIN out, tracked \cup {s},
                       IF arms THEN armed \cup {MintOfSignal(s)} ELSE armed)
         /\ \A p \in DOMAIN out : KeptWith(s, at, arms)[p].expires <= at

(* What a signal is: a sell and a source, the token known. *)
LEMMA SignalType ==
  ASSUME NEW s \in Signals
  PROVE  s[1] \in Transactions /\ MintOfSignal(s) \in Mints
BY SellsAssumption DEF Signals, MintOfSignal

(* The end of handle_event settles what is answered, as answered, and the  *)
(* rest of what it settles as not seen.                                    *)
LEMMA ConcludeSettles ==
  ASSUME NEW kept, kept \in [DOMAIN kept -> Entries],
         NEW answers, answers \in [DOMAIN answers -> Outcomes],
         DOMAIN answers \subseteq DOMAIN kept,
         NEW reverted, NEW at, NEW entries, NEW flags,
         Conclude(kept, answers, reverted, at, entries, flags)
  PROVE  \E out, shown :
            /\ Concluding(kept, out, shown, entries, flags)
            /\ \A s \in DOMAIN answers : s \in DOMAIN out /\ out[s] = answers[s]
            /\ \A s \in DOMAIN out \ DOMAIN answers : out[s] = "NotSeenWithinTtl"
            /\ ~reverted => shown = DOMAIN out
            /\ DOMAIN out \ DOMAIN answers \subseteq shown
<1> DEFINE A == DOMAIN answers
           K == DOMAIN kept
           overdue == Overdue(Without(kept, DOMAIN answers), at)
           out     == Resolutions(answers, overdue)
           shown   == IF reverted THEN overdue ELSE DOMAIN out
<1>1. DOMAIN answers = A /\ DOMAIN kept = K /\ A \subseteq K
  OBVIOUS
<1>2. overdue \subseteq K \ A
  BY <1>1 DEF Overdue, Without
<1>3. DOMAIN out = A \cup overdue
  BY <1>1 DEF Resolutions
<1>4. \A s \in A : out[s] = answers[s]
  BY <1>1 DEF Resolutions
<1>5. \A s \in overdue : out[s] = "NotSeenWithinTtl"
  BY <1>1, <1>2 DEF Resolutions
<1>6. out \in [DOMAIN out -> Outcomes]
  BY <1>3, <1>4, <1>5 DEF Resolutions, Outcomes
<1>7. Concluding(kept, out, shown, entries, flags)
  <2>1. pending' = Without(kept, DOMAIN out) /\ Record(out) /\ ApplyResolved(shown, entries, flags)
    BY DEF Conclude
  <2>2. DOMAIN out \subseteq DOMAIN kept /\ shown \subseteq DOMAIN out
    BY <1>1, <1>2, <1>3
  <2> QED
    BY <2>1, <2>2, <1>6 DEF Concluding
<1>8. DOMAIN out \ A \subseteq shown
  BY <1>3
<1> HIDE DEF out, shown, overdue, Concluding
<1> QED
  <2>1. \A s \in DOMAIN out \ A : out[s] = "NotSeenWithinTtl"
    BY <1>3, <1>5
  <2>2. ~reverted => shown = DOMAIN out
    BY DEF shown
  <2> QED
    BY <1>3, <1>4, <1>7, <1>8, <2>1, <2>2

(* The canonical events and the end of the run settle. *)
LEMMA SettleSettles ==
  ASSUME TypeOK, NEW answers, answers \in [DOMAIN answers -> Outcomes],
         DOMAIN answers \subseteq DOMAIN pending,
         NEW reverted, NEW at, Settle(answers, reverted, at)
  PROVE  Settling
<1>1. pending \in [DOMAIN pending -> Entries]
  BY DEF TypeOK
<1>2. Conclude(pending, answers, reverted, at, tracked, armed)
  BY DEF Settle
<1>3. \E out, shown : Concluding(pending, out, shown, tracked, armed)
  BY <1>1, <1>2, ConcludeSettles
<1> QED
  BY <1>3 DEF Settling, Settle

(* The answers of an event are outcomes of pending signals. *)
LEMMA AnswersType ==
  /\ \A t, failed : /\ DOMAIN SellAnswers(t, failed) \subseteq DOMAIN pending
                    /\ SellAnswers(t, failed) \in [DOMAIN SellAnswers(t, failed) -> Outcomes]
  /\ \A t : /\ DOMAIN RevertAnswers(t) \subseteq DOMAIN pending
            /\ RevertAnswers(t) \in [DOMAIN RevertAnswers(t) -> Outcomes]
  /\ \A w, m : /\ DOMAIN BalanceAnswers(w, m) \subseteq DOMAIN pending
               /\ BalanceAnswers(w, m) \in [DOMAIN BalanceAnswers(w, m) -> Outcomes]
  /\ DOMAIN NoAnswers = {} /\ NoAnswers \in [DOMAIN NoAnswers -> Outcomes]
BY DEF SellAnswers, RevertAnswers, BalanceAnswers, NoAnswers, OfSeller, Outcomes

(* What is kept when a signal comes in. *)
LEMMA KeptType ==
  ASSUME TypeOK, NEW s \in Signals, NEW at \in Nat, NEW arms \in BOOLEAN
  PROVE  /\ KeptWith(s, at, arms) \in [DOMAIN KeptWith(s, at, arms) -> Entries]
         /\ DOMAIN KeptWith(s, at, arms) = DOMAIN pending \cup (IF Duplicate(s) THEN {} ELSE {s})
         /\ \A p \in DOMAIN pending \ {s} : KeptWith(s, at, arms)[p] = pending[p]
         /\ ~Duplicate(s) => KeptWith(s, at, arms)[s] = [expires |-> at + TTL, armed |-> arms]
<1>1. pending \in [DOMAIN pending -> Entries]
  BY DEF TypeOK
<1>2. [expires |-> at + TTL, armed |-> arms] \in Entries
  BY SellsAssumption DEF Entries
<1>3. CASE Duplicate(s)
  BY <1>1, <1>3 DEF KeptWith
<1>4. CASE ~Duplicate(s)
  BY <1>1, <1>2, <1>4 DEF KeptWith, Taken
<1> QED
  BY <1>3, <1>4

(* An event that answers nothing settles what it settles as not seen, and  *)
(* the state engine applies all of it.                                     *)
LEMMA ConcludeExpires ==
  ASSUME NEW kept, kept \in [DOMAIN kept -> Entries], NEW at, NEW entries, NEW flags,
         Conclude(kept, NoAnswers, FALSE, at, entries, flags)
  PROVE  \E out : /\ Concluding(kept, out, DOMAIN out, entries, flags)
                  /\ \A s \in DOMAIN out : out[s] = "NotSeenWithinTtl"
                  /\ \A s \in DOMAIN out : kept[s].expires <= at
<1> DEFINE overdue == Overdue(Without(kept, DOMAIN NoAnswers), at)
           out     == Resolutions(NoAnswers, overdue)
<1>1. DOMAIN NoAnswers = {}
  BY DEF NoAnswers
<1>2. overdue \subseteq DOMAIN kept /\ \A s \in overdue : kept[s].expires <= at
  BY <1>1 DEF Overdue, Without
<1>3. out = [s \in overdue |-> "NotSeenWithinTtl"]
  BY <1>1 DEF Resolutions
<1>4. pending' = Without(kept, DOMAIN out) /\ Record(out) /\ ApplyResolved(DOMAIN out, entries, flags)
  BY DEF Conclude
<1> HIDE DEF overdue, out
<1> QED
  BY <1>2, <1>3, <1>4 DEF Concluding, Outcomes

(* Detection takes in a signal. *)
LEMMA SignalKinds ==
  ASSUME TypeOK, NEW s \in Signals, NEW at \in Times, NEW severe \in BOOLEAN,
         Signal(s, at, severe)
  PROVE  Quiet \/ Taking
<1>1. s \notin arrived /\ arrived' = arrived \cup {s} /\ arrived \subseteq Signals
  BY DEF Signal, TypeOK
<1>2. CASE MintOfSignal(s) \notin known
  BY <1>1, <1>2 DEF Signal, Quiet
<1>3. CASE MintOfSignal(s) \in known
  <2> DEFINE arms  == severe /\ ~Duplicate(s)
             kept  == KeptWith(s, at, arms)
             flags == IF arms THEN armed \cup {MintOfSignal(s)} ELSE armed
  <2>1. /\ detected' = IF Duplicate(s) THEN detected ELSE detected + 1
        /\ counted' = [counted EXCEPT ![MintOfSignal(s)] = @ + 1]
        /\ Conclude(kept, NoAnswers, FALSE, at, tracked \cup {s}, flags)
    BY <1>3 DEF Signal, Detect, KeptWith
  <2>2. arms \in BOOLEAN /\ (arms => ~Duplicate(s))
    OBVIOUS
  <2>3. at \in Nat
    BY SellsAssumption DEF Times
  <2> HIDE DEF arms
  <2>4. kept \in [DOMAIN kept -> Entries]
    BY <2>2, <2>3, KeptType
  <2> HIDE DEF kept, flags
  <2>5. \E out : /\ Concluding(kept, out, DOMAIN out, tracked \cup {s}, flags)
                 /\ \A p \in DOMAIN out : kept[p].expires <= at
    BY <2>1, <2>4, ConcludeExpires
  <2> QED
    BY <1>1, <2>1, <2>2, <2>5 DEF Taking, kept, flags
<1> QED
  BY <1>2, <1>3

(* Every step has one of the three shapes. *)
LEMMA StepKinds ==
  ASSUME TypeOK, Next
  PROVE  Quiet \/ Settling \/ Taking
<1>1. ASSUME NEW s \in Signals, NEW at \in Times, NEW severe \in BOOLEAN, Signal(s, at, severe)
      PROVE  Quiet \/ Taking
  BY <1>1, SignalKinds
<1>2. ASSUME NEW t \in Transactions, NEW failed \in BOOLEAN, NEW at \in Times,
             CanonicalSell(t, failed, at)
      PROVE  Settling
  <2>1. Settle(SellAnswers(t, failed), FALSE, at)
    BY <1>2 DEF CanonicalSell
  <2> QED
    BY <2>1, AnswersType, SettleSettles
<1>3. ASSUME NEW t \in Transactions, NEW at \in Times, RevertedSell(t, at)
      PROVE  Quiet \/ Settling
  <2>1. CASE Settle(RevertAnswers(t), TRUE, at)
    BY <2>1, AnswersType, SettleSettles
  <2>2. CASE Ignored
    BY <2>2 DEF Ignored, Quiet, TypeOK
  <2> QED
    BY <1>3, <2>1, <2>2 DEF RevertedSell
<1>4. ASSUME NEW w \in Sellers, NEW m \in Mints, NEW at \in Times, BalanceFell(w, m, at)
      PROVE  Settling
  <2>1. Settle(BalanceAnswers(w, m), FALSE, at)
    BY <1>4 DEF BalanceFell
  <2> QED
    BY <2>1, AnswersType, SettleSettles
<1>5. ASSUME NEW m \in Mints, NEW at \in Times, Buy(m, at)
      PROVE  Settling
  <2>1. Settle(NoAnswers, FALSE, at)
    BY <1>5 DEF Buy
  <2> QED
    BY <2>1, AnswersType, SettleSettles
<1>6. ASSUME Finalize PROVE Settling
  <2>1. Settle(NoAnswers, FALSE, LastTrade + TTL)
    BY <1>6 DEF Finalize
  <2> QED
    BY <2>1, AnswersType, SettleSettles
<1> QED
  BY <1>1, <1>2, <1>3, <1>4, <1>5, <1>6 DEF Next

-----------------------------------------------------------------------------
(* Types, and that a signal the manager knows of has arrived and is not both *)
(* pending and settled.                                                      *)
Waiting ==
  /\ DOMAIN pending \subseteq arrived
  /\ DOMAIN observations \subseteq arrived
  /\ DOMAIN pending \cap DOMAIN observations = {}
  /\ recorded \subseteq DOMAIN observations

Inv == TypeOK /\ Waiting

(* The types of what a conclusion changes. *)
LEMMA ConcludingType ==
  ASSUME TypeOK, NEW K \in SUBSET Signals, NEW kept \in [K -> Entries], NEW out, NEW shown,
         NEW entries \in SUBSET Signals, NEW flags \in SUBSET Mints,
         Concluding(kept, out, shown, entries, flags)
  PROVE  /\ DOMAIN pending' \subseteq Signals /\ pending' \in [DOMAIN pending' -> Entries]
         /\ DOMAIN observations' \subseteq Signals
         /\ observations' \in [DOMAIN observations' -> Outcomes]
         /\ metrics' \in [Outcomes -> Nat]
         /\ tracked' \in SUBSET Signals /\ recorded' \in SUBSET Signals
         /\ armed' \in SUBSET Mints
<1>1. DOMAIN kept = K
  OBVIOUS
<1>2. DOMAIN out \subseteq Signals /\ shown \subseteq Signals
  BY <1>1 DEF Concluding
<1>3. DOMAIN pending' \subseteq Signals /\ pending' \in [DOMAIN pending' -> Entries]
  BY <1>1 DEF Concluding, Without
<1>4. /\ DOMAIN observations' \subseteq Signals
      /\ observations' = WithOutcomes(out)
  BY <1>2 DEF Concluding, Record, WithOutcomes, TypeOK
<1>5. observations' \in [DOMAIN observations' -> Outcomes]
  <2>1. \A s \in DOMAIN observations' : observations'[s] \in Outcomes
    BY <1>4 DEF Concluding, WithOutcomes, TypeOK
  <2> QED
    BY <1>4, <2>1 DEF WithOutcomes
<1>6. metrics' \in [Outcomes -> Nat]
  <2>1. IsFiniteSet(Signals)
    BY SellsAssumption, FS_Product DEF Signals
  <2>2. \A o \in Outcomes : Cardinality({s \in DOMAIN out : out[s] = o}) \in Nat
    BY <1>2, <2>1, FS_Subset, FS_CardinalityType
  <2>3. metrics' = [o \in Outcomes |->
                     metrics[o] + Cardinality({s \in DOMAIN out : out[s] = o})]
    BY DEF Concluding, Record
  <2> QED
    BY <2>2, <2>3 DEF TypeOK
<1>7. tracked' \in SUBSET Signals /\ recorded' \in SUBSET Signals /\ armed' \in SUBSET Mints
  BY <1>2 DEF Concluding, ApplyResolved, TypeOK
<1> QED
  BY <1>3, <1>4, <1>5, <1>6, <1>7

(* The variables of the canonical stream and the clock. *)
LEMMA ClockType ==
  ASSUME TypeOK, Next
  PROVE  /\ known' \in SUBSET Mints
         /\ fate' \in [Transactions -> Fates]
         /\ now' \in Nat /\ traded' \in [Mints -> Nat] /\ finalized' \in BOOLEAN
<1> USE DEF TypeOK
<1>1. Times \subseteq Nat
  BY SellsAssumption DEF Times
<1>2. \A at : Handled(at) => now' \in Nat /\ finalized' \in BOOLEAN /\ at \in Nat
  BY <1>1 DEF Handled
<1>3. ASSUME NEW s \in Signals, NEW at \in Times, NEW severe \in BOOLEAN, Signal(s, at, severe)
      PROVE  known' = known /\ fate' = fate /\ traded' = traded /\ Handled(at)
  BY <1>3 DEF Signal
<1>4. ASSUME NEW t \in Transactions, NEW failed \in BOOLEAN, NEW at \in Times,
             CanonicalSell(t, failed, at)
      PROVE  /\ known' \in SUBSET Mints /\ fate' \in [Transactions -> Fates]
             /\ traded' \in [Mints -> Nat] /\ Handled(at)
  BY <1>1, <1>4, SellsAssumption DEF CanonicalSell, Fates
<1>5. ASSUME NEW t \in Transactions, NEW at \in Times, RevertedSell(t, at)
      PROVE  known' = known /\ fate' \in [Transactions -> Fates] /\ traded' = traded /\ Handled(at)
  BY <1>5 DEF RevertedSell, Fates
<1>6. ASSUME NEW w \in Sellers, NEW m \in Mints, NEW at \in Times, BalanceFell(w, m, at)
      PROVE  known' \in SUBSET Mints /\ fate' = fate /\ traded' = traded /\ Handled(at)
  BY <1>6 DEF BalanceFell
<1>7. ASSUME NEW m \in Mints, NEW at \in Times, Buy(m, at)
      PROVE  /\ known' \in SUBSET Mints /\ fate' = fate
             /\ traded' \in [Mints -> Nat] /\ Handled(at)
  BY <1>1, <1>7 DEF Buy
<1>8. ASSUME Finalize
      PROVE  known' = known /\ fate' = fate /\ traded' = traded /\ now' = now /\ finalized'
  BY <1>8 DEF Finalize
<1> QED
  BY <1>2, <1>3, <1>4, <1>5, <1>6, <1>7, <1>8 DEF Next

(* The inductive step. *)
LEMMA InvStep ==
  ASSUME Inv, [Next]_vars
  PROVE  Inv'
<1> USE DEF Inv
<1>1. CASE Next /\ Quiet
  BY <1>1, ClockType DEF Quiet, TypeOK, Waiting
<1>2. CASE Next /\ Settling
  <2>1. PICK out, shown : Concluding(pending, out, shown, tracked, armed)
    BY <1>2 DEF Settling
  <2>2. TypeOK'
    <3>1. DOMAIN pending \in SUBSET Signals /\ pending \in [DOMAIN pending -> Entries]
          /\ tracked \in SUBSET Signals /\ armed \in SUBSET Mints
      BY DEF TypeOK
    <3> QED
      BY <1>2, <2>1, <3>1, ConcludingType, ClockType DEF TypeOK, Settling
  <2>3. Waiting'
    <3>1. /\ DOMAIN out \subseteq DOMAIN pending
          /\ DOMAIN pending' = DOMAIN pending \ DOMAIN out
          /\ DOMAIN observations' = DOMAIN observations \cup DOMAIN out
          /\ recorded' \subseteq recorded \cup DOMAIN out
      BY <2>1 DEF Concluding, Without, Record, WithOutcomes, ApplyResolved
    <3>2. arrived' = arrived
      BY <1>2 DEF Settling
    <3> QED
      BY <3>1, <3>2 DEF Waiting
  <2> QED
    BY <2>2, <2>3
<1>3. CASE Next /\ Taking
  <2>1. PICK s \in Signals, at \in Times, arms \in BOOLEAN :
           /\ s \notin arrived
           /\ arrived' = arrived \cup {s}
           /\ detected' = IF Duplicate(s) THEN detected ELSE detected + 1
           /\ counted' = [counted EXCEPT ![MintOfSignal(s)] = @ + 1]
           /\ \E out : Concluding(KeptWith(s, at, arms), out, DOMAIN out, tracked \cup {s},
                                  IF arms THEN armed \cup {MintOfSignal(s)} ELSE armed)
    BY <1>3 DEF Taking
  <2> DEFINE kept  == KeptWith(s, at, arms)
             flags == IF arms THEN armed \cup {MintOfSignal(s)} ELSE armed
  <2>2. PICK out : Concluding(kept, out, DOMAIN out, tracked \cup {s}, flags)
    BY <2>1
  <2>3. at \in Nat
    BY SellsAssumption DEF Times
  <2>4. kept \in [DOMAIN kept -> Entries]
        /\ DOMAIN kept = DOMAIN pending \cup (IF Duplicate(s) THEN {} ELSE {s})
    BY <2>3, KeptType
  <2> HIDE DEF kept
  <2>5. DOMAIN kept \in SUBSET Signals /\ tracked \cup {s} \in SUBSET Signals
        /\ flags \in SUBSET Mints
    BY <2>4, SignalType DEF TypeOK
  <2>6. TypeOK'
    <3>1. arrived' \subseteq Signals /\ detected' \in Nat /\ counted' \in [Mints -> Nat]
      BY <2>1, SignalType DEF TypeOK
    <3> HIDE DEF flags
    <3> QED
      BY <1>3, <2>2, <2>4, <2>5, <3>1, ConcludingType, ClockType DEF TypeOK
  <2>7. Waiting'
    <3>1. /\ DOMAIN out \subseteq DOMAIN kept
          /\ DOMAIN pending' = DOMAIN kept \ DOMAIN out
          /\ DOMAIN observations' = DOMAIN observations \cup DOMAIN out
          /\ recorded' \subseteq recorded \cup DOMAIN out
      BY <2>2 DEF Concluding, Without, Record, WithOutcomes, ApplyResolved
    <3> QED
      BY <2>1, <2>4, <3>1 DEF Waiting
  <2> QED
    BY <2>6, <2>7
<1>4. CASE UNCHANGED vars
  BY <1>4 DEF vars, TypeOK, Waiting
<1> QED
  BY <1>1, <1>2, <1>3, <1>4, StepKinds

LEMMA InvInit == Init => Inv
<1> SUFFICES ASSUME Init PROVE TypeOK /\ Waiting
  BY DEF Inv
<1>1. DOMAIN pending = {} /\ DOMAIN observations = {} /\ Waiting
  BY DEF Init, Waiting
<1>2. pending \in [DOMAIN pending -> Entries]
  BY DEF Init
<1>3. observations \in [DOMAIN observations -> Outcomes]
  BY DEF Init
<1> QED
  BY <1>1, <1>2, <1>3 DEF Init, TypeOK, Fates

(* A signal the manager knows of is pending or has one outcome, and every  *)
(* variable holds what the program can hold.                               *)
THEOREM Invariance == Spec => []Inv
BY InvInit, InvStep, PTL DEF Spec

THEOREM TypesHold == Spec => []TypeOK
BY Invariance, PTL DEF Inv

-----------------------------------------------------------------------------
(* What a step that takes in a signal does, with the types that go with it.  *)
LEMMA TakingMoves ==
  ASSUME Inv, Taking
  PROVE  \E s \in Signals, arms \in BOOLEAN : \E kept, out :
           /\ s \notin DOMAIN pending /\ s \notin DOMAIN observations /\ s \notin DOMAIN out
           /\ arms => ~Duplicate(s)
           /\ detected' = IF Duplicate(s) THEN detected ELSE detected + 1
           /\ DOMAIN kept = DOMAIN pending \cup (IF Duplicate(s) THEN {} ELSE {s})
           /\ \A p \in DOMAIN pending : kept[p] = pending[p]
           /\ ~Duplicate(s) => kept[s].armed = arms
           /\ Concluding(kept, out, DOMAIN out, tracked \cup {s},
                         IF arms THEN armed \cup {MintOfSignal(s)} ELSE armed)
<1>1. PICK s \in Signals, at \in Times, arms \in BOOLEAN :
         /\ s \notin arrived
         /\ arrived' = arrived \cup {s}
         /\ arms => ~Duplicate(s)
         /\ detected' = IF Duplicate(s) THEN detected ELSE detected + 1
         /\ counted' = [counted EXCEPT ![MintOfSignal(s)] = @ + 1]
         /\ \E out :
              /\ Concluding(KeptWith(s, at, arms), out, DOMAIN out, tracked \cup {s},
                            IF arms THEN armed \cup {MintOfSignal(s)} ELSE armed)
              /\ \A p \in DOMAIN out : KeptWith(s, at, arms)[p].expires <= at
  BY DEF Taking
<1> DEFINE kept  == KeptWith(s, at, arms)
           flags == IF arms THEN armed \cup {MintOfSignal(s)} ELSE armed
<1>2. PICK out : /\ Concluding(kept, out, DOMAIN out, tracked \cup {s}, flags)
                 /\ \A p \in DOMAIN out : kept[p].expires <= at
  BY <1>1
<1>3. at \in Nat /\ ~(at + TTL <= at)
  BY SellsAssumption DEF Times
<1>4. /\ DOMAIN kept = DOMAIN pending \cup (IF Duplicate(s) THEN {} ELSE {s})
      /\ \A p \in DOMAIN pending \ {s} : kept[p] = pending[p]
      /\ ~Duplicate(s) => kept[s] = [expires |-> at + TTL, armed |-> arms]
  BY <1>3, KeptType DEF Inv
<1> HIDE DEF kept
<1>5. s \notin DOMAIN pending /\ s \notin DOMAIN observations
  BY <1>1 DEF Inv, Waiting
<1>6. s \notin DOMAIN out
  BY <1>2, <1>3, <1>4, <1>5 DEF Concluding
<1>7. kept[s].armed = arms \/ Duplicate(s)
  BY <1>4
<1>8. \A p \in DOMAIN pending : kept[p] = pending[p]
  BY <1>4, <1>5
<1> WITNESS s \in Signals, arms \in BOOLEAN
<1> WITNESS kept, out
<1> QED
  BY <1>1, <1>2, <1>4, <1>5, <1>6, <1>7, <1>8

(* A conclusion in terms of the variables. *)
LEMMA Moves ==
  ASSUME NEW kept, NEW out, NEW shown, NEW entries, NEW flags,
         Concluding(kept, out, shown, entries, flags)
  PROVE  /\ DOMAIN pending' = DOMAIN kept \ DOMAIN out
         /\ \A s \in DOMAIN kept \ DOMAIN out : pending'[s] = kept[s]
         /\ DOMAIN observations' = DOMAIN observations \cup DOMAIN out
         /\ \A s \in DOMAIN out : observations'[s] = out[s]
         /\ \A s \in DOMAIN observations \ DOMAIN out : observations'[s] = observations[s]
BY DEF Concluding, Without, Record, WithOutcomes

-----------------------------------------------------------------------------
(* The manager implements Settlement. *)

LEMMA LedgerInit == Init => Ledger!Init
BY DEF Init, Ledger!Init

LEMMA LedgerStep ==
  ASSUME Inv, [Next]_vars
  PROVE  [Ledger!Next]_<<DOMAIN pending, observations>>
<1>1. CASE Quiet \/ UNCHANGED vars
  BY <1>1 DEF Quiet, vars
<1>2. ASSUME NEW kept, NEW out, NEW shown, NEW entries, NEW flags, NEW new \in SUBSET Signals,
             Concluding(kept, out, shown, entries, flags), Inv',
             DOMAIN kept = DOMAIN pending \cup new, DOMAIN out \subseteq DOMAIN pending,
             new \cap (DOMAIN pending \cup DOMAIN observations) = {}
      PROVE  Ledger!Next
  <2>1. DOMAIN pending' = (DOMAIN pending \cup new) \ DOMAIN out
    BY <1>2 DEF Concluding, Without
  <2>2. DOMAIN observations' = DOMAIN observations \cup DOMAIN out
    BY <1>2 DEF Concluding, Record, WithOutcomes
  <2>3. observations' \in [DOMAIN observations' -> Outcomes]
    BY <1>2 DEF Inv, TypeOK
  <2>4. \A s \in DOMAIN observations : observations'[s] = observations[s]
    <3>1. \A s \in DOMAIN observations : s \notin DOMAIN out
      BY <1>2 DEF Inv, Waiting
    <3> QED
      BY <1>2, <3>1 DEF Concluding, Record, WithOutcomes
  <2>5. DOMAIN out \in SUBSET Signals
    BY <1>2 DEF Inv, TypeOK
  <2>6. Ledger!Step(new, DOMAIN out)
    BY <1>2, <2>1, <2>2, <2>3, <2>4 DEF Ledger!Step
  <2> QED
    BY <2>5, <2>6 DEF Ledger!Next
<1>3. CASE Settling
  <2>1. PICK out, shown : Concluding(pending, out, shown, tracked, armed)
    BY <1>3 DEF Settling
  <2>2. DOMAIN out \subseteq DOMAIN pending /\ Inv'
    BY <2>1, InvStep DEF Concluding
  <2> DEFINE new == {}
  <2>3. /\ new \in SUBSET Signals /\ DOMAIN pending = DOMAIN pending \cup new
        /\ new \cap (DOMAIN pending \cup DOMAIN observations) = {}
    OBVIOUS
  <2> HIDE DEF new
  <2>4. Ledger!Next
    BY <1>2, <2>1, <2>2, <2>3
  <2> QED
    BY <2>4
<1>4. CASE Taking
  <2>1. PICK s \in Signals, arms \in BOOLEAN : \E kept, out :
           /\ s \notin DOMAIN pending /\ s \notin DOMAIN observations /\ s \notin DOMAIN out
           /\ DOMAIN kept = DOMAIN pending \cup (IF Duplicate(s) THEN {} ELSE {s})
           /\ Concluding(kept, out, DOMAIN out, tracked \cup {s},
                         IF arms THEN armed \cup {MintOfSignal(s)} ELSE armed)
    BY <1>4, TakingMoves
  <2> DEFINE new   == IF Duplicate(s) THEN {} ELSE {s}
             flags == IF arms THEN armed \cup {MintOfSignal(s)} ELSE armed
  <2>2. PICK kept, out :
           /\ s \notin DOMAIN pending /\ s \notin DOMAIN observations /\ s \notin DOMAIN out
           /\ DOMAIN kept = DOMAIN pending \cup new
           /\ Concluding(kept, out, DOMAIN out, tracked \cup {s}, flags)
    BY <2>1
  <2>3. new \in SUBSET Signals /\ new \cap (DOMAIN pending \cup DOMAIN observations) = {}
    BY <2>2
  <2>4. DOMAIN out \subseteq DOMAIN pending
    BY <2>2 DEF Concluding
  <2>5. Inv'
    BY InvStep
  <2> HIDE DEF new, flags
  <2>6. Ledger!Next
    BY <1>2, <2>2, <2>3, <2>4, <2>5
  <2> QED
    BY <2>6
<1> QED
  BY <1>1, <1>3, <1>4, StepKinds DEF Inv

(* The manager keeps the promise of Settlement: every signal it takes in   *)
(* waits until one outcome is recorded for it, and keeps that outcome.     *)
THEOREM ManagerSettlesOnce == Spec => SettledOnce
<1>1. Init => Ledger!Init
  BY LedgerInit
<1>2. Inv /\ [Next]_vars => [Ledger!Next]_<<DOMAIN pending, observations>>
  BY LedgerStep
<1> QED
  BY <1>1, <1>2, Invariance, PTL DEF Spec, SettledOnce, Ledger!Spec, Ledger!settlementVars
-----------------------------------------------------------------------------
(* The manager and the state engine.                                       *)

(* What the manager waits for, the token tracks. *)
THEOREM WhatIsPendingIsTracked == Spec => []PendingTracked
<1>1. Init => PendingTracked
  BY DEF Init, PendingTracked
<1>2. Inv /\ PendingTracked /\ [Next]_vars => PendingTracked'
  <2> SUFFICES ASSUME Inv, PendingTracked, [Next]_vars PROVE PendingTracked'
    OBVIOUS
  <2>1. CASE Quiet \/ UNCHANGED vars
    BY <2>1 DEF Quiet, vars, PendingTracked
  <2>2. CASE Settling
    BY <2>2 DEF Settling, Concluding, Without, ApplyResolved, PendingTracked
  <2>3. CASE Taking
    <3>1. PICK s \in Signals, arms \in BOOLEAN : \E kept, out :
             /\ DOMAIN kept = DOMAIN pending \cup (IF Duplicate(s) THEN {} ELSE {s})
             /\ Concluding(kept, out, DOMAIN out, tracked \cup {s},
                           IF arms THEN armed \cup {MintOfSignal(s)} ELSE armed)
      BY <2>3, TakingMoves
    <3>2. PICK kept, out :
             /\ DOMAIN kept \subseteq DOMAIN pending \cup {s}
             /\ pending' = Without(kept, DOMAIN out)
             /\ tracked' = (tracked \cup {s}) \ DOMAIN out
      BY <3>1 DEF Concluding, ApplyResolved
    <3> QED
      BY <3>2 DEF Without, PendingTracked
  <2> QED
    BY <2>1, <2>2, <2>3, StepKinds DEF Inv
<1> QED
  BY <1>1, <1>2, Invariance, PTL DEF Spec

(* Whether two reports match does not depend on which came first. *)
LEMMA DifferMeans ==
  ASSUME NEW p \in Signals, NEW q \in Signals
  PROVE  /\ MatchesDuplicate(p, q) <=> MatchesDuplicate(q, p)
         /\ ~MatchesDuplicate(p, q) <=>
              ((MintOfSignal(p) = MintOfSignal(q) /\ SellerOfSignal(p) = SellerOfSignal(q)) =>
                 IF Signed(p) /\ Signed(q) THEN p[1] # q[1] ELSE <<p, q>> \notin Alike)
<1>1. <<p, q>> \in Alike <=> <<q, p>> \in Alike
  BY SellsAssumption
<1>2. p[1] = q[1] => SellerOfSignal(p) = SellerOfSignal(q)
  BY DEF SellerOfSignal
<1> QED
  BY <1>1, <1>2 DEF MatchesDuplicate, SameSeller

(* With the deduplication on, however many sources report a sell: no two   *)
(* signed reports of it are pending together, and no report without a      *)
(* signature next to one of its wallet that decoded a like slot and amount.*)
THEOREM WhatIsPendingDiffers == Spec => []PendingReportsDiffer
<1>1. Init => PendingReportsDiffer
  BY DEF Init, PendingReportsDiffer
<1>2. Inv /\ PendingReportsDiffer /\ [Next]_vars => PendingReportsDiffer'
  <2> SUFFICES ASSUME Inv, PendingReportsDiffer, [Next]_vars
               PROVE  PendingReportsDiffer'
    OBVIOUS
  <2>0. DOMAIN pending \subseteq Signals
    BY DEF Inv, TypeOK
  <2>1. CASE Quiet \/ UNCHANGED vars
    BY <2>1 DEF Quiet, vars, PendingReportsDiffer
  <2>2. CASE Settling
    <3>1. DOMAIN pending' \subseteq DOMAIN pending
      BY <2>2 DEF Settling, Concluding, Without
    <3> QED
      BY <3>1 DEF PendingReportsDiffer
  <2>3. CASE Taking
    <3>1. PICK s \in Signals, arms \in BOOLEAN : \E kept, out :
             /\ DOMAIN kept = DOMAIN pending \cup (IF Duplicate(s) THEN {} ELSE {s})
             /\ Concluding(kept, out, DOMAIN out, tracked \cup {s},
                           IF arms THEN armed \cup {MintOfSignal(s)} ELSE armed)
      BY <2>3, TakingMoves
    <3>2. DOMAIN pending' \subseteq DOMAIN pending \cup (IF Duplicate(s) THEN {} ELSE {s})
      BY <3>1 DEF Concluding, Without
    <3>3. Deduplicate /\ ~Duplicate(s) => \A p \in DOMAIN pending : ~MatchesDuplicate(p, s)
      BY DEF Duplicate
    <3>4. SUFFICES ASSUME Deduplicate,
                          NEW p \in DOMAIN pending', NEW q \in DOMAIN pending', p # q
                   PROVE  ~MatchesDuplicate(p, q)
      <4>1. DOMAIN pending' \subseteq Signals
        BY <2>0, <3>2
      <4> QED
        BY <3>4, <4>1, DifferMeans DEF PendingReportsDiffer
    <3>5. CASE p \in DOMAIN pending /\ q \in DOMAIN pending
      BY <2>0, <3>4, <3>5, DifferMeans DEF PendingReportsDiffer
    <3>6. CASE p = s /\ q \in DOMAIN pending /\ ~Duplicate(s)
      BY <2>0, <3>3, <3>4, <3>6, DifferMeans
    <3>7. CASE q = s /\ p \in DOMAIN pending /\ ~Duplicate(s)
      BY <3>3, <3>4, <3>7
    <3> QED
      BY <3>2, <3>4, <3>5, <3>6, <3>7
  <2> QED
    BY <2>1, <2>2, <2>3, StepKinds DEF Inv
<1> QED
  BY <1>1, <1>2, Invariance, PTL DEF Spec

(* What a conclusion does to the reasons of an armed token. *)
LEMMA ReasonsMove ==
  ASSUME Inv, ArmedHasReason,
         NEW kept, NEW out, NEW shown, NEW entries, NEW flags,
         Concluding(kept, out, shown, entries, flags),
         DOMAIN out \cap DOMAIN observations = {},
         DOMAIN pending \subseteq DOMAIN kept,
         \A p \in DOMAIN pending : kept[p] = pending[p],
         NEW m \in armed', m \in armed
  PROVE  \/ \E s \in DOMAIN pending' : MintOfSignal(s) = m /\ pending'[s].armed
         \/ \E s \in DOMAIN observations' \ recorded' : MintOfSignal(s) = m
<1>1. \A s \in shown : MintOfSignal(s) # m
  BY DEF Concluding, ApplyResolved
<1>2. /\ DOMAIN observations' = DOMAIN observations \cup DOMAIN out
      /\ recorded' = recorded \cup shown
      /\ pending' = Without(kept, DOMAIN out)
      /\ shown \subseteq DOMAIN out
  BY DEF Concluding, Record, WithOutcomes, ApplyResolved
<1>3. CASE \E s \in DOMAIN observations \ recorded : MintOfSignal(s) = m
  BY <1>1, <1>2, <1>3
<1>4. CASE \E s \in DOMAIN pending : MintOfSignal(s) = m /\ pending[s].armed
  <2>1. PICK s \in DOMAIN pending : MintOfSignal(s) = m /\ pending[s].armed
    BY <1>4
  <2>2. CASE s \in DOMAIN out
    <3>1. s \notin recorded'
      BY <1>1, <1>2, <2>1, <2>2 DEF Inv, Waiting
    <3> QED
      BY <1>2, <2>1, <2>2, <3>1
  <2>3. CASE s \notin DOMAIN out
    BY <1>2, <2>1, <2>3 DEF Without
  <2> QED
    BY <2>2, <2>3
<1> QED
  BY <1>3, <1>4 DEF ArmedHasReason

(* A token stays armed only for a pending sell that armed it, or for one   *)
(* whose resolution the state engine dropped.                              *)
THEOREM ArmedForAReason == Spec => []ArmedHasReason
<1>1. Init => ArmedHasReason
  BY DEF Init, ArmedHasReason
<1>2. Inv /\ ArmedHasReason /\ [Next]_vars => ArmedHasReason'
  <2> SUFFICES ASSUME Inv, ArmedHasReason, [Next]_vars,
                      NEW m \in armed'
               PROVE  \/ \E s \in DOMAIN pending' : MintOfSignal(s) = m /\ pending'[s].armed
                      \/ \E s \in DOMAIN observations' \ recorded' : MintOfSignal(s) = m
    BY DEF ArmedHasReason
  <2>1. CASE Quiet \/ UNCHANGED vars
    BY <2>1 DEF Quiet, vars, ArmedHasReason
  <2>2. CASE Settling
    <3>1. PICK out, shown : Concluding(pending, out, shown, tracked, armed)
      BY <2>2 DEF Settling
    <3>2. DOMAIN out \cap DOMAIN observations = {} /\ armed' \subseteq armed
      BY <3>1 DEF Concluding, ApplyResolved, Inv, Waiting
    <3> QED
      BY <3>1, <3>2, ReasonsMove
  <2>3. CASE Taking
    <3>1. PICK s \in Signals, arms \in BOOLEAN : \E kept, out :
             /\ s \notin DOMAIN pending /\ s \notin DOMAIN observations /\ s \notin DOMAIN out
             /\ arms => ~Duplicate(s)
             /\ detected' = IF Duplicate(s) THEN detected ELSE detected + 1
             /\ DOMAIN kept = DOMAIN pending \cup (IF Duplicate(s) THEN {} ELSE {s})
             /\ \A p \in DOMAIN pending : kept[p] = pending[p]
             /\ ~Duplicate(s) => kept[s].armed = arms
             /\ Concluding(kept, out, DOMAIN out, tracked \cup {s},
                           IF arms THEN armed \cup {MintOfSignal(s)} ELSE armed)
      BY <2>3, TakingMoves
    <3> DEFINE flags == IF arms THEN armed \cup {MintOfSignal(s)} ELSE armed
    <3>2. PICK kept, out :
             /\ s \notin DOMAIN observations /\ s \notin DOMAIN out
             /\ DOMAIN kept = DOMAIN pending \cup (IF Duplicate(s) THEN {} ELSE {s})
             /\ \A p \in DOMAIN pending : kept[p] = pending[p]
             /\ ~Duplicate(s) => kept[s].armed = arms
             /\ Concluding(kept, out, DOMAIN out, tracked \cup {s}, flags)
      BY <3>1
    <3>3. CASE m \in armed
      <4>1. DOMAIN out \cap DOMAIN observations = {}
        BY <3>2 DEF Concluding, Inv, Waiting
      <4>2. DOMAIN pending \subseteq DOMAIN kept
        BY <3>2
      <4> HIDE DEF flags
      <4> QED
        BY <3>2, <3>3, <4>1, <4>2, ReasonsMove
    <3>4. CASE m \notin armed
      <4>1. arms /\ m = MintOfSignal(s) /\ ~Duplicate(s)
        BY <3>1, <3>2, <3>4 DEF Concluding, ApplyResolved
      <4>2. s \in DOMAIN pending' /\ pending'[s] = kept[s]
        BY <3>2, <4>1 DEF Concluding, Without
      <4> QED
        BY <3>2, <4>1, <4>2
    <3> QED
      BY <3>3, <3>4
  <2> QED
    BY <2>1, <2>2, <2>3, StepKinds DEF Inv
<1> QED
  BY <1>1, <1>2, Invariance, PTL DEF Spec
-----------------------------------------------------------------------------
(* The counters. *)

LEMMA FiniteSignals ==
  /\ IsFiniteSet(Signals)
  /\ \A S \in SUBSET Signals : IsFiniteSet(S) /\ Cardinality(S) \in Nat
BY SellsAssumption, FS_Product, FS_Subset, FS_CardinalityType DEF Signals

(* Disjoint sets of signals add up. *)
LEMMA DisjointSum ==
  ASSUME NEW S \in SUBSET Signals, NEW T \in SUBSET Signals, S \cap T = {}
  PROVE  Cardinality(S \cup T) = Cardinality(S) + Cardinality(T)
<1>1. IsFiniteSet(S) /\ IsFiniteSet(T) /\ Cardinality(S) \in Nat /\ Cardinality(T) \in Nat
  BY FiniteSignals
<1>2. Cardinality(S \cup T) = Cardinality(S) + Cardinality(T) - Cardinality(S \cap T)
  BY <1>1, FS_Union
<1>3. Cardinality(S \cap T) = 0
  BY FS_EmptySet
<1> QED
  BY <1>1, <1>2, <1>3

(* A conclusion keeps the counters of the outcomes, and the number of those *)
(* entries that are pending or settled.                                     *)
LEMMA CountersFollow ==
  ASSUME Inv, Accounting, NEW kept, NEW out, NEW shown, NEW entries, NEW flags,
         Concluding(kept, out, shown, entries, flags),
         DOMAIN kept \in SUBSET Signals, DOMAIN kept \cap DOMAIN observations = {}
  PROVE  /\ \A o \in Outcomes :
              metrics'[o] = Cardinality({s \in DOMAIN observations' : observations'[s] = o})
         /\ Cardinality(DOMAIN pending') + Cardinality(DOMAIN observations') =
              Cardinality(DOMAIN kept) + Cardinality(DOMAIN observations)
<1>1. /\ DOMAIN pending' = DOMAIN kept \ DOMAIN out
      /\ DOMAIN observations' = DOMAIN observations \cup DOMAIN out
      /\ \A s \in DOMAIN out : observations'[s] = out[s]
      /\ \A s \in DOMAIN observations \ DOMAIN out : observations'[s] = observations[s]
  BY DEF Concluding, Without, Record, WithOutcomes
<1>2. /\ DOMAIN out \subseteq DOMAIN kept
      /\ DOMAIN out \cap DOMAIN observations = {}
      /\ DOMAIN observations \subseteq Signals
  BY DEF Concluding, Inv, TypeOK
<1>3. ASSUME NEW o \in Outcomes
      PROVE  metrics'[o] = Cardinality({s \in DOMAIN observations' : observations'[s] = o})
  <2> DEFINE before == {s \in DOMAIN observations : observations[s] = o}
             added  == {s \in DOMAIN out : out[s] = o}
  <2>1. {s \in DOMAIN observations' : observations'[s] = o} = before \cup added
    BY <1>1, <1>2
  <2>2. before \in SUBSET Signals /\ added \in SUBSET Signals /\ before \cap added = {}
    BY <1>2
  <2>3. metrics'[o] = metrics[o] + Cardinality(added)
    BY DEF Concluding, Record
  <2>4. metrics[o] = Cardinality(before)
    BY DEF Accounting
  <2> HIDE DEF before, added
  <2> QED
    BY <2>1, <2>2, <2>3, <2>4, DisjointSum
<1>4. Cardinality(DOMAIN kept) = Cardinality(DOMAIN pending') + Cardinality(DOMAIN out)
  <2>1. /\ DOMAIN kept = DOMAIN pending' \cup DOMAIN out
        /\ DOMAIN pending' \cap DOMAIN out = {}
        /\ DOMAIN pending' \in SUBSET Signals /\ DOMAIN out \in SUBSET Signals
    BY <1>1, <1>2
  <2> QED
    BY <2>1, DisjointSum
<1>5. Cardinality(DOMAIN observations') = Cardinality(DOMAIN observations) + Cardinality(DOMAIN out)
  BY <1>1, <1>2, DisjointSum
<1>6. /\ Cardinality(DOMAIN pending') \in Nat /\ Cardinality(DOMAIN out) \in Nat
      /\ Cardinality(DOMAIN observations) \in Nat
  BY <1>1, <1>2, FiniteSignals
<1>7. Cardinality(DOMAIN pending') + Cardinality(DOMAIN observations') =
        Cardinality(DOMAIN kept) + Cardinality(DOMAIN observations)
  BY <1>4, <1>5, <1>6
<1> QED
  BY <1>3, <1>7

(* The counters of the report tell the truth. *)
THEOREM CountersAreTrue == Spec => []Accounting
<1>1. Init => Accounting
  <2> SUFFICES ASSUME Init PROVE Accounting
    OBVIOUS
  <2>1. DOMAIN pending = {} /\ DOMAIN observations = {} /\ detected = 0
    BY DEF Init
  <2>2. \A o \in Outcomes : {s \in DOMAIN observations : observations[s] = o} = {} /\ metrics[o] = 0
    BY <2>1 DEF Init
  <2> QED
    BY <2>1, <2>2, FS_EmptySet DEF Accounting
<1>2. Inv /\ Accounting /\ [Next]_vars => Accounting'
  <2> SUFFICES ASSUME Inv, Accounting, [Next]_vars PROVE Accounting'
    OBVIOUS
  <2>1. CASE Quiet \/ UNCHANGED vars
    BY <2>1 DEF Quiet, vars, Accounting
  <2>2. CASE Settling
    <3>1. PICK out, shown : Concluding(pending, out, shown, tracked, armed)
      BY <2>2 DEF Settling
    <3>2. DOMAIN pending \in SUBSET Signals /\ DOMAIN pending \cap DOMAIN observations = {}
      BY DEF Inv, TypeOK, Waiting
    <3>3. detected' = detected
      BY <2>2 DEF Settling
    <3> QED
      BY <3>1, <3>2, <3>3, CountersFollow DEF Accounting
  <2>3. CASE Taking
    <3>1. PICK s \in Signals, arms \in BOOLEAN : \E kept, out :
             /\ s \notin DOMAIN pending /\ s \notin DOMAIN observations
             /\ detected' = IF Duplicate(s) THEN detected ELSE detected + 1
             /\ DOMAIN kept = DOMAIN pending \cup (IF Duplicate(s) THEN {} ELSE {s})
             /\ Concluding(kept, out, DOMAIN out, tracked \cup {s},
                           IF arms THEN armed \cup {MintOfSignal(s)} ELSE armed)
      BY <2>3, TakingMoves
    <3> DEFINE flags == IF arms THEN armed \cup {MintOfSignal(s)} ELSE armed
    <3>2. PICK kept, out :
             /\ s \notin DOMAIN pending /\ s \notin DOMAIN observations
             /\ detected' = IF Duplicate(s) THEN detected ELSE detected + 1
             /\ DOMAIN kept = DOMAIN pending \cup (IF Duplicate(s) THEN {} ELSE {s})
             /\ Concluding(kept, out, DOMAIN out, tracked \cup {s}, flags)
      BY <3>1
    <3> HIDE DEF flags
    <3>3. /\ DOMAIN pending \in SUBSET Signals /\ DOMAIN observations \in SUBSET Signals
          /\ DOMAIN pending \cap DOMAIN observations = {}
      BY DEF Inv, TypeOK, Waiting
    <3>4. DOMAIN kept \in SUBSET Signals /\ DOMAIN kept \cap DOMAIN observations = {}
      BY <3>2, <3>3
    <3>5. Cardinality(DOMAIN kept) = IF Duplicate(s) THEN Cardinality(DOMAIN pending)
                                     ELSE Cardinality(DOMAIN pending) + 1
      <4>1. IsFiniteSet(DOMAIN pending)
        BY <3>3, FiniteSignals
      <4> QED
        BY <3>2, <4>1, FS_AddElement
    <3>6. Cardinality(DOMAIN pending) \in Nat /\ Cardinality(DOMAIN observations) \in Nat
      BY <3>3, FiniteSignals
    <3>7. detected' = Cardinality(DOMAIN kept) + Cardinality(DOMAIN observations)
      BY <3>2, <3>5, <3>6 DEF Accounting
    <3> QED
      BY <3>2, <3>4, <3>7, CountersFollow DEF Accounting
  <2> QED
    BY <2>1, <2>2, <2>3, StepKinds DEF Inv
<1> QED
  BY <1>1, <1>2, Invariance, PTL DEF Spec
-----------------------------------------------------------------------------
(* Outcomes are true.                                                      *)

(* What a canonical event that gives `answers` makes of the outcomes.      *)
LEMMA SettleOutcomes ==
  ASSUME Inv, NEW answers, answers \in [DOMAIN answers -> Outcomes],
         DOMAIN answers \subseteq DOMAIN pending,
         NEW reverted, NEW at, Settle(answers, reverted, at)
  PROVE  /\ \A s \in DOMAIN answers : s \in DOMAIN observations' /\ observations'[s] = answers[s]
         /\ \A s \in DOMAIN observations' :
              \/ s \in DOMAIN answers
              \/ observations'[s] = "NotSeenWithinTtl"
              \/ s \in DOMAIN observations /\ observations'[s] = observations[s]
<1>1. pending \in [DOMAIN pending -> Entries]
  BY DEF Inv, TypeOK
<1>2. Conclude(pending, answers, reverted, at, tracked, armed)
  BY DEF Settle
<1>3. PICK out, shown :
         /\ Concluding(pending, out, shown, tracked, armed)
         /\ \A s \in DOMAIN answers : s \in DOMAIN out /\ out[s] = answers[s]
         /\ \A s \in DOMAIN out \ DOMAIN answers : out[s] = "NotSeenWithinTtl"
  BY <1>1, <1>2, ConcludeSettles
<1>4. observations' = WithOutcomes(out)
  BY <1>3 DEF Concluding, Record
<1> QED
  BY <1>3, <1>4 DEF WithOutcomes

(* A detection records nothing but expiries. *)
LEMMA SignalOutcomes ==
  ASSUME Inv, NEW s \in Signals, NEW at \in Times, NEW severe \in BOOLEAN,
         Signal(s, at, severe), NEW p \in DOMAIN observations'
  PROVE  \/ observations'[p] = "NotSeenWithinTtl"
         \/ p \in DOMAIN observations /\ observations'[p] = observations[p]
<1>1. CASE MintOfSignal(s) \notin known
  BY <1>1 DEF Signal
<1>2. CASE MintOfSignal(s) \in known
  <2> DEFINE arms  == severe /\ ~Duplicate(s)
             kept  == KeptWith(s, at, arms)
             flags == IF arms THEN armed \cup {MintOfSignal(s)} ELSE armed
  <2>1. Conclude(kept, NoAnswers, FALSE, at, tracked \cup {s}, flags)
    BY <1>2 DEF Signal, Detect, KeptWith
  <2>2. at \in Nat /\ arms \in BOOLEAN
    BY SellsAssumption DEF Times
  <2> HIDE DEF arms
  <2>3. kept \in [DOMAIN kept -> Entries]
    BY <2>2, KeptType DEF Inv
  <2> HIDE DEF kept, flags
  <2>4. PICK out : /\ Concluding(kept, out, DOMAIN out, tracked \cup {s}, flags)
                   /\ \A q \in DOMAIN out : out[q] = "NotSeenWithinTtl"
    BY <2>1, <2>3, ConcludeExpires
  <2> QED
    BY <2>4 DEF Concluding, Record, WithOutcomes
<1> QED
  BY <1>1, <1>2

(* A pending signal of a sell is among those the sell answers. *)
LEMMA Answered ==
  ASSUME NEW s \in DOMAIN pending
  PROVE  s \in OfSeller(SellerOf[s[1]], MintOf[s[1]])
BY DEF OfSeller, MintOfSignal, SellerOfSignal

(* The canonical sell of a transaction wins against the expiry of its signal. *)
THEOREM AnswersComeFirst == Spec => AnswerBeatsExpiry
<1> DEFINE Wins == \A s \in DOMAIN pending :
                     (fate'[s[1]] # fate[s[1]] /\ MintOfSignal(s) \in known) =>
                       /\ s \in DOMAIN observations'
                       /\ observations'[s] # "NotSeenWithinTtl"
<1>1. Inv /\ [Next]_vars => Wins
  <2> SUFFICES ASSUME Inv, Next, NEW s \in DOMAIN pending,
                      fate'[s[1]] # fate[s[1]], MintOfSignal(s) \in known
               PROVE  s \in DOMAIN observations' /\ observations'[s] # "NotSeenWithinTtl"
    BY DEF vars
  <2>1. ASSUME NEW t \in Transactions, NEW failed \in BOOLEAN, NEW at \in Times,
               CanonicalSell(t, failed, at)
        PROVE  s \in DOMAIN observations' /\ observations'[s] # "NotSeenWithinTtl"
    <3>1. s[1] = t /\ s \in DOMAIN SellAnswers(t, failed)
      BY <2>1, Answered DEF CanonicalSell, SellAnswers, Inv, TypeOK
    <3>2. SellAnswers(t, failed)[s] # "NotSeenWithinTtl"
      BY <3>1 DEF SellAnswers
    <3>3. Settle(SellAnswers(t, failed), FALSE, at)
      BY <2>1 DEF CanonicalSell
    <3> QED
      BY <3>1, <3>2, <3>3, AnswersType, SettleOutcomes
  <2>2. ASSUME NEW t \in Transactions, NEW at \in Times, RevertedSell(t, at)
        PROVE  s \in DOMAIN observations' /\ observations'[s] # "NotSeenWithinTtl"
    <3>1. s[1] = t /\ s \in DOMAIN RevertAnswers(t) /\ MintOf[t] \in known
      BY <2>2, Answered DEF RevertedSell, RevertAnswers, Inv, TypeOK, MintOfSignal
    <3>2. RevertAnswers(t)[s] # "NotSeenWithinTtl"
      BY <3>1 DEF RevertAnswers
    <3>3. Settle(RevertAnswers(t), TRUE, at)
      BY <2>2, <3>1 DEF RevertedSell
    <3> QED
      BY <3>1, <3>2, <3>3, AnswersType, SettleOutcomes
  <2>3. fate' = fate \/ \E t \in Transactions, at \in Times :
           RevertedSell(t, at) \/ \E failed \in BOOLEAN : CanonicalSell(t, failed, at)
    BY DEF Next, Signal, BalanceFell, Buy, Finalize
  <2> QED
    BY <2>1, <2>2, <2>3
<1>2. Inv /\ [Next]_vars => [Wins]_vars
  BY <1>1
<1> QED
  BY <1>2, Invariance, PTL DEF Spec, AnswerBeatsExpiry

(* What an outcome o of a signal s says of the stream, given what that said. *)
Says(o, s, said) ==
  /\ o = "ConfirmedExecuted" => said[s[1]] \in {"Executed", "Reverted"}
  /\ o = "ConfirmedFailed"   => said[s[1]] = "Failed"
  /\ o = "Reorged"           => said[s[1]] = "Reverted"
  /\ o = "DecodeMismatch"    =>
       \E t \in Transactions : /\ t # s[1] /\ said[t] # "Unknown"
                               /\ SellerOf[t] = SellerOfSignal(s) /\ MintOf[t] = MintOfSignal(s)

LEMMA TruthfulSays ==
  Truthful <=> \A s \in DOMAIN observations : Signed(s) => Says(observations[s], s, fate)
BY DEF Truthful, OtherSellHeard, Says

(* What is still true of an outcome when the stream has said more. *)
LEMMA SaysStill ==
  ASSUME TypeOK, NEW o, NEW s \in Signals, Says(o, s, fate), NEW t \in Transactions, NEW f,
         fate' = [fate EXCEPT ![t] = f],
         \/ f = "Reverted" /\ fate[t] \in {"Unknown", "Executed"}
         \/ f \in {"Executed", "Failed"} /\ fate[t] \in {"Unknown", f}
  PROVE  Says(o, s, fate')
<1>1. /\ fate'[t] = f /\ f # "Unknown"
      /\ \A u \in Transactions \ {t} : fate'[u] = fate[u]
  BY DEF TypeOK
<1>2. s[1] \in Transactions
  BY SignalType
<1> QED
  BY <1>1, <1>2 DEF Says

(* The signals a sell answers are of its seller and its token. *)
LEMMA AnswerOf ==
  /\ \A t, failed : \A s \in DOMAIN SellAnswers(t, failed) :
       SellerOfSignal(s) = SellerOf[t] /\ MintOfSignal(s) = MintOf[t]
  /\ \A t : \A s \in DOMAIN RevertAnswers(t) :
       SellerOfSignal(s) = SellerOf[t] /\ MintOfSignal(s) = MintOf[t]
BY DEF SellAnswers, RevertAnswers, OfSeller

(* A signed signal that was confirmed, executed or failed, or reorged has  *)
(* the outcome the canonical stream gave that very transaction; one that   *)
(* was settled as a mismatch was settled by another sell of its wallet.    *)
THEOREM OutcomesAreTrue == Spec => []Truthful
<1>1. Init => Truthful
  BY DEF Init, Truthful
<1>2. Inv /\ Truthful /\ [Next]_vars => Truthful'
  <2> SUFFICES ASSUME Inv, Truthful, [Next]_vars PROVE Truthful'
    OBVIOUS
  <2>1. SUFFICES ASSUME NEW s \in DOMAIN observations', Signed(s)
                 PROVE  Says(observations'[s], s, fate')
    BY DEF Truthful, OtherSellHeard, Says
  <2>2. s \in DOMAIN observations => Says(observations[s], s, fate)
    BY <2>1, TruthfulSays
  <2>3. s \in Signals
    BY InvStep DEF Inv, TypeOK
  <2>4. ASSUME NEW t \in Transactions, NEW failed \in BOOLEAN, NEW at \in Times,
               CanonicalSell(t, failed, at)
        PROVE  Says(observations'[s], s, fate')
    <3>1. Settle(SellAnswers(t, failed), FALSE, at)
      BY <2>4 DEF CanonicalSell
    <3>2. /\ fate'[t] = IF failed THEN "Failed" ELSE "Executed"
          /\ fate[t] \in {"Unknown", IF failed THEN "Failed" ELSE "Executed"}
          /\ fate' = [fate EXCEPT ![t] = IF failed THEN "Failed" ELSE "Executed"]
      BY <2>4 DEF CanonicalSell, Inv, TypeOK
    <3>3. CASE s \in DOMAIN SellAnswers(t, failed)
      <4>1. observations'[s] = SellAnswers(t, failed)[s]
        BY <3>1, <3>3, AnswersType, SettleOutcomes
      <4> QED
        BY <2>1, <2>4, <3>2, <3>3, <4>1, AnswerOf DEF SellAnswers, Says
    <3>4. CASE observations'[s] = "NotSeenWithinTtl"
      BY <3>4 DEF Says
    <3>5. CASE s \in DOMAIN observations /\ observations'[s] = observations[s]
      BY <2>2, <2>3, <2>4, <3>2, <3>5, SaysStill DEF Inv
    <3> QED
      BY <3>1, <3>3, <3>4, <3>5, AnswersType, SettleOutcomes
  <2>5. ASSUME NEW t \in Transactions, NEW at \in Times, RevertedSell(t, at)
        PROVE  Says(observations'[s], s, fate')
    <3>1. /\ fate'[t] = "Reverted"
          /\ fate[t] \in {"Unknown", "Executed"}
          /\ fate' = [fate EXCEPT ![t] = "Reverted"]
      BY <2>5 DEF RevertedSell, Inv, TypeOK
    <3>2. CASE s \in DOMAIN observations /\ observations'[s] = observations[s]
      BY <2>2, <2>3, <2>5, <3>1, <3>2, SaysStill DEF Inv
    <3>3. CASE Settle(RevertAnswers(t), TRUE, at)
      <4>1. CASE s \in DOMAIN RevertAnswers(t)
        <5>1. observations'[s] = RevertAnswers(t)[s]
          BY <3>3, <4>1, AnswersType, SettleOutcomes
        <5> QED
          BY <2>1, <2>5, <3>1, <4>1, <5>1, AnswerOf DEF RevertAnswers, Says
      <4>2. CASE observations'[s] = "NotSeenWithinTtl"
        BY <4>2 DEF Says
      <4> QED
        BY <3>2, <3>3, <4>1, <4>2, AnswersType, SettleOutcomes
    <3> QED
      BY <2>5, <3>2, <3>3 DEF RevertedSell, Ignored
  <2>6. CASE fate' = fate /\ observations' = observations
    BY <2>2, <2>6
  <2>7. ASSUME NEW r \in Signals, NEW at \in Times, NEW severe \in BOOLEAN, Signal(r, at, severe)
        PROVE  Says(observations'[s], s, fate')
    <3>1. fate' = fate
      BY <2>7 DEF Signal
    <3> QED
      BY <2>2, <2>7, <3>1, SignalOutcomes DEF Says
  <2>8. ASSUME NEW w \in Sellers, NEW m \in Mints, NEW at \in Times, BalanceFell(w, m, at)
        PROVE  Says(observations'[s], s, fate')
    <3>1. fate' = fate /\ Settle(BalanceAnswers(w, m), FALSE, at)
      BY <2>8 DEF BalanceFell
    <3>2. \/ s \in DOMAIN BalanceAnswers(w, m) /\ observations'[s] = BalanceAnswers(w, m)[s]
          \/ observations'[s] = "NotSeenWithinTtl"
          \/ s \in DOMAIN observations /\ observations'[s] = observations[s]
      BY <3>1, AnswersType, SettleOutcomes
    <3> QED
      BY <2>2, <3>1, <3>2 DEF BalanceAnswers, Says
  <2>9. ASSUME NEW at, Settle(NoAnswers, FALSE, at), fate' = fate
        PROVE  Says(observations'[s], s, fate')
    <3>1. \/ observations'[s] = "NotSeenWithinTtl"
          \/ s \in DOMAIN observations /\ observations'[s] = observations[s]
      BY <2>9, AnswersType, SettleOutcomes
    <3> QED
      BY <2>2, <2>9, <3>1 DEF Says
  <2>10. ASSUME NEW m \in Mints, NEW at \in Times, Buy(m, at)
         PROVE  Says(observations'[s], s, fate')
    BY <2>9, <2>10 DEF Buy
  <2>11. ASSUME Finalize PROVE Says(observations'[s], s, fate')
    BY <2>9, <2>11 DEF Finalize
  <2>12. CASE UNCHANGED vars
    BY <2>6, <2>12 DEF vars
  <2> QED
    BY <2>4, <2>5, <2>7, <2>8, <2>10, <2>11, <2>12 DEF Next
<1> QED
  BY <1>1, <1>2, Invariance, PTL DEF Spec
-----------------------------------------------------------------------------
(* How long a signal waits. *)

(* What a conclusion leaves pending was kept, and its time is not over. *)
LEMMA ConcludeLeaves ==
  ASSUME NEW kept, NEW answers, DOMAIN answers \subseteq DOMAIN kept,
         NEW reverted, NEW at, NEW entries, NEW flags,
         Conclude(kept, answers, reverted, at, entries, flags)
  PROVE  /\ DOMAIN pending' \subseteq DOMAIN kept
         /\ \A p \in DOMAIN pending' : /\ pending'[p] = kept[p]
                                       /\ ~(kept[p].expires <= at)
<1> DEFINE open    == Without(kept, DOMAIN answers)
           overdue == Overdue(open, at)
           out     == Resolutions(answers, overdue)
<1>1. DOMAIN open = DOMAIN kept \ DOMAIN answers /\ \A p \in DOMAIN open : open[p] = kept[p]
  BY DEF Without
<1>2. overdue = {p \in DOMAIN open : open[p].expires <= at}
  BY DEF Overdue
<1>3. DOMAIN out = DOMAIN answers \cup overdue
  BY DEF Resolutions
<1>4. pending' = Without(kept, DOMAIN out)
  BY DEF Conclude
<1> HIDE DEF open, overdue, out
<1>5. /\ DOMAIN pending' = DOMAIN kept \ DOMAIN out
      /\ \A p \in DOMAIN pending' : pending'[p] = kept[p]
  BY <1>4 DEF Without
<1> QED
  BY <1>1, <1>2, <1>3, <1>5

(* The event handled at a time leaves nothing pending whose time was over. *)
Leaves(at) ==
  /\ at \in Times /\ at + Skew >= now /\ now' = IF at > now THEN at ELSE now
  /\ \A p \in DOMAIN pending' :
       /\ ~(pending'[p].expires <= at)
       /\ \/ p \in DOMAIN pending /\ pending'[p] = pending[p]
          \/ pending'[p].expires = at + TTL

(* A canonical event of a token, a reverted one of a known token. *)
LEMMA CanonicalLeaves ==
  ASSUME NEW at \in Times,
         \/ \E t \in Transactions, failed \in BOOLEAN : CanonicalSell(t, failed, at)
         \/ \E t \in Transactions : MintOf[t] \in known /\ RevertedSell(t, at)
         \/ \E w \in Sellers, m \in Mints : BalanceFell(w, m, at)
         \/ \E m \in Mints : Buy(m, at)
  PROVE  Leaves(at)
<1>1. Handled(at) /\ \E answers, reverted : /\ DOMAIN answers \subseteq DOMAIN pending
                                            /\ Settle(answers, reverted, at)
  <2>1. ASSUME NEW t \in Transactions, NEW failed \in BOOLEAN, CanonicalSell(t, failed, at)
        PROVE  Handled(at) /\ \E answers, reverted : /\ DOMAIN answers \subseteq DOMAIN pending
                                                     /\ Settle(answers, reverted, at)
    BY <2>1, AnswersType DEF CanonicalSell
  <2>2. ASSUME NEW t \in Transactions, MintOf[t] \in known, RevertedSell(t, at)
        PROVE  Handled(at) /\ \E answers, reverted : /\ DOMAIN answers \subseteq DOMAIN pending
                                                     /\ Settle(answers, reverted, at)
    BY <2>2, AnswersType DEF RevertedSell
  <2>3. ASSUME NEW w \in Sellers, NEW m \in Mints, BalanceFell(w, m, at)
        PROVE  Handled(at) /\ \E answers, reverted : /\ DOMAIN answers \subseteq DOMAIN pending
                                                     /\ Settle(answers, reverted, at)
    BY <2>3, AnswersType DEF BalanceFell
  <2>4. ASSUME NEW m \in Mints, Buy(m, at)
        PROVE  Handled(at) /\ \E answers, reverted : /\ DOMAIN answers \subseteq DOMAIN pending
                                                     /\ Settle(answers, reverted, at)
    BY <2>4, AnswersType DEF Buy
  <2> QED
    BY <2>1, <2>2, <2>3, <2>4
<1>2. PICK answers, reverted : /\ DOMAIN answers \subseteq DOMAIN pending
                               /\ Conclude(pending, answers, reverted, at, tracked, armed)
  BY <1>1 DEF Settle
<1>3. /\ DOMAIN pending' \subseteq DOMAIN pending
      /\ \A p \in DOMAIN pending' : pending'[p] = pending[p] /\ ~(pending[p].expires <= at)
  BY <1>2, ConcludeLeaves
<1> QED
  BY <1>1, <1>3 DEF Handled, Leaves

(* A signal of a known token. *)
LEMMA SignalLeaves ==
  ASSUME TypeOK, NEW s \in Signals, NEW at \in Times, NEW severe \in BOOLEAN,
         MintOfSignal(s) \in known, Signal(s, at, severe)
  PROVE  Leaves(at)
<1> DEFINE arms  == severe /\ ~Duplicate(s)
           kept  == KeptWith(s, at, arms)
           flags == IF arms THEN armed \cup {MintOfSignal(s)} ELSE armed
<1>1. Conclude(kept, NoAnswers, FALSE, at, tracked \cup {s}, flags)
  BY DEF Signal, Detect, KeptWith
<1>2. \A p \in DOMAIN kept : \/ p \in DOMAIN pending /\ kept[p] = pending[p]
                             \/ kept[p].expires = at + TTL
  BY DEF KeptWith, Taken
<1>3. Handled(at)
  BY DEF Signal
<1> HIDE DEF kept, flags
<1>4. DOMAIN NoAnswers \subseteq DOMAIN kept
  BY AnswersType
<1>5. /\ DOMAIN pending' \subseteq DOMAIN kept
      /\ \A p \in DOMAIN pending' : pending'[p] = kept[p] /\ ~(kept[p].expires <= at)
  BY <1>1, <1>4, ConcludeLeaves
<1> QED
  BY <1>2, <1>3, <1>5 DEF Handled, Leaves

(* The end of the run. *)
LEMMA FinalizeLeaves ==
  ASSUME Finalize
  PROVE  /\ DOMAIN pending' \subseteq DOMAIN pending
         /\ \A p \in DOMAIN pending' : /\ pending'[p] = pending[p]
                                       /\ ~(pending[p].expires <= LastTrade + TTL)
<1>1. Conclude(pending, NoAnswers, FALSE, LastTrade + TTL, tracked, armed)
  BY DEF Finalize, Settle
<1>2. DOMAIN NoAnswers \subseteq DOMAIN pending
  BY AnswersType
<1> QED
  BY <1>1, <1>2, ConcludeLeaves

(* The events that reach the manager: those of a token the state knows.    *)
Reaches(at) ==
  \/ \E s \in Signals, severe \in BOOLEAN :
       MintOfSignal(s) \in known /\ Signal(s, at, severe)
  \/ \E t \in Transactions, failed \in BOOLEAN : CanonicalSell(t, failed, at)
  \/ \E t \in Transactions : MintOf[t] \in known /\ RevertedSell(t, at)
  \/ \E w \in Sellers, m \in Mints : BalanceFell(w, m, at)
  \/ \E m \in Mints : Buy(m, at)

(***************************************************************************)
(* No signal outstays its time: whichever event reaches the manager, of    *)
(* whatever token, what it leaves pending has not expired, but for the     *)
(* time an event may have waited in its queue (expire at the end of        *)
(* reconcile).  A signal of one token does not wait for an event of its    *)
(* own token to be settled.                                                *)
(***************************************************************************)
THEOREM NoSignalOutstaysItsTime ==
  Spec => [][\A at \in Times : Reaches(at) =>
               \A p \in DOMAIN pending' : pending'[p].expires + Skew > now']_vars
<1> DEFINE Timely == \A at \in Times : Reaches(at) =>
                       \A p \in DOMAIN pending' : pending'[p].expires + Skew > now'
<1>1. TypeOK /\ TypeOK' => Timely
  <2> SUFFICES ASSUME TypeOK, TypeOK', NEW at \in Times, Reaches(at),
                      NEW p \in DOMAIN pending'
               PROVE  pending'[p].expires + Skew > now'
    OBVIOUS
  <2>1. Leaves(at)
    BY CanonicalLeaves, SignalLeaves DEF Reaches
  <2>2. /\ at \in Nat /\ now \in Nat /\ Skew \in Nat
        /\ pending'[p].expires \in Nat
    BY SellsAssumption DEF TypeOK, Times, Entries
  <2>3. ~(pending'[p].expires <= at) /\ at + Skew >= now /\ now' = IF at > now THEN at ELSE now
    BY <2>1 DEF Leaves
  <2> QED
    BY <2>2, <2>3
<1> HIDE DEF Timely
<1>2. Spec => [][Timely]_vars
  BY <1>1, TypesHold, PTL
<1> QED
  BY <1>2 DEF Timely

(* No signal expires later than TTL from now; what the end of the run      *)
(* leaves pending was not overdue then.                                    *)
WaitBound ==
  /\ \A p \in DOMAIN pending : pending[p].expires <= now + TTL
  /\ finalized => Overdue(pending, LastTrade + TTL) = {}

(* A step that reaches the manager takes in at its time; others wait. *)
LEMMA WaitBoundNext ==
  ASSUME TypeOK, TypeOK', WaitBound, [Next]_vars
  PROVE  WaitBound'
<1>1. /\ now \in Nat /\ now' \in Nat /\ TTL \in Nat /\ Times \subseteq Nat
      /\ \A p \in DOMAIN pending : pending[p].expires \in Nat
  BY SellsAssumption DEF TypeOK, Times, Entries
<1>2. ASSUME NEW at \in Times, Reaches(at)
      PROVE  WaitBound'
  <2>1. Leaves(at)
    BY <1>2, CanonicalLeaves, SignalLeaves DEF Reaches
  <2>2. finalized' = FALSE
    BY <1>2 DEF Reaches, Signal, CanonicalSell, RevertedSell, BalanceFell, Buy, Handled, TypeOK
  <2>3. \A p \in DOMAIN pending' : pending'[p].expires <= now' + TTL
    BY <1>1, <2>1 DEF Leaves, WaitBound
  <2> QED
    BY <2>2, <2>3 DEF WaitBound
<1>3. ASSUME NEW at \in Times, Handled(at), pending' = pending
      PROVE  WaitBound'
  <2>1. finalized' = FALSE /\ now <= now'
    BY <1>1, <1>3 DEF Handled, TypeOK
  <2> QED
    BY <1>1, <1>3, <2>1 DEF WaitBound
<1>4. ASSUME Finalize
      PROVE  WaitBound'
  <2>1. /\ DOMAIN pending' \subseteq DOMAIN pending
        /\ \A p \in DOMAIN pending' : /\ pending'[p] = pending[p]
                                      /\ ~(pending[p].expires <= LastTrade + TTL)
    BY <1>4, FinalizeLeaves
  <2>2. now' = now /\ traded' = traded
    BY <1>4 DEF Finalize
  <2>3. LastTrade' = LastTrade
    BY <2>2 DEF LastTrade
  <2> QED
    BY <2>1, <2>2, <2>3 DEF WaitBound, Overdue
<1>5. ASSUME UNCHANGED vars
      PROVE  WaitBound'
  <2>1. UNCHANGED <<pending, now, traded, finalized>>
    BY <1>5 DEF vars
  <2>2. LastTrade' = LastTrade
    BY <2>1 DEF LastTrade
  <2> QED
    BY <2>1, <2>2 DEF WaitBound, Overdue
<1>6. \/ \E at \in Times : Reaches(at)
      \/ \E at \in Times : Handled(at) /\ pending' = pending
      \/ Finalize \/ UNCHANGED vars
  <2>1. ASSUME NEW s \in Signals, NEW at \in Times, NEW severe \in BOOLEAN, Signal(s, at, severe)
        PROVE  Reaches(at) \/ (Handled(at) /\ pending' = pending)
    <3>1. CASE MintOfSignal(s) \in known
      BY <2>1, <3>1 DEF Reaches
    <3>2. CASE MintOfSignal(s) \notin known
      BY <2>1, <3>2 DEF Signal
    <3> QED
      BY <3>1, <3>2
  <2>2. ASSUME NEW t \in Transactions, NEW at \in Times, RevertedSell(t, at)
        PROVE  Reaches(at) \/ (Handled(at) /\ pending' = pending)
    <3>1. CASE MintOf[t] \in known
      BY <2>2, <3>1 DEF Reaches
    <3>2. CASE MintOf[t] \notin known
      BY <2>2, <3>2 DEF RevertedSell, Ignored
    <3> QED
      BY <3>1, <3>2
  <2>3. ASSUME NEW at \in Times,
               \/ \E t \in Transactions, failed \in BOOLEAN : CanonicalSell(t, failed, at)
               \/ \E w \in Sellers, m \in Mints : BalanceFell(w, m, at)
               \/ \E m \in Mints : Buy(m, at)
        PROVE  Reaches(at)
    BY <2>3 DEF Reaches
  <2> QED
    BY <2>1, <2>2, <2>3 DEF Next
<1> QED
  BY <1>2, <1>3, <1>4, <1>5, <1>6

(***************************************************************************)
(* finalize_run settles what is left: of the signals none is pending that  *)
(* expires within TTL of the last trade, so only one that was taken in     *)
(* after the last trade of any token can be left without an outcome; and   *)
(* nothing is left when no trade was seen.                                 *)
(***************************************************************************)
THEOREM FinishedRunsSettle ==
  Spec => [](finalized => /\ Overdue(pending, LastTrade + TTL) = {}
                          /\ (\A m \in Mints : traded[m] = 0) => DOMAIN pending = {})
<1> DEFINE Settled == finalized => /\ Overdue(pending, LastTrade + TTL) = {}
                                   /\ (\A m \in Mints : traded[m] = 0) => DOMAIN pending = {}
<1>1. Init => WaitBound
  BY DEF Init, WaitBound
<1>2. TypeOK /\ TypeOK' /\ WaitBound /\ [Next]_vars => WaitBound'
  BY WaitBoundNext
<1>3. WaitBound => Settled
  <2> SUFFICES ASSUME WaitBound, finalized, \A m \in Mints : traded[m] = 0
               PROVE  DOMAIN pending = {}
    BY DEF WaitBound
  <2>1. LastTrade = now
    BY DEF LastTrade
  <2> QED
    BY <2>1 DEF WaitBound, Overdue
<1> HIDE DEF Settled
<1>4. Spec => []Settled
  BY <1>1, <1>2, <1>3, TypesHold, PTL DEF Spec
<1> QED
  BY <1>4 DEF Settled
=============================================================================
