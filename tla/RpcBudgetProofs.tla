-------------------------- MODULE RpcBudgetProofs ---------------------------
(***************************************************************************)
(* What RpcBudget promises for every configuration of the budget: the      *)
(* limits hold, an unknown budget state closes a live run, the executor    *)
(* sends nothing it was not charged for, and a validated stream-only run   *)
(* spends nothing.                                                         *)
(*                                                                         *)
(* The sends need one fact more than the limits: the credits of a method   *)
(* never exceed those of the day.  A charge that passes the daily limit    *)
(* then cannot saturate the counter of its method, unless the limit is the *)
(* largest u64 and there is no reserve, which RoomBelowMax excludes.  Then *)
(* no counter ever saturates, and each one is the total of what the ledger *)
(* charged to it (FoldLemmas).                                             *)
(***************************************************************************)
EXTENDS RpcBudget, FoldLemmas, TLAPS

MethodsWithinDay == \A m \in Methods : perMethod[m] <= daily

Inv == TypeOK /\ LimitsKept /\ MethodsWithinDay

-----------------------------------------------------------------------------
(* saturating_add stays a u64, does not shrink and keeps order. *)
LEMMA PlusFacts ==
  ASSUME NEW a \in 0 .. MaxCredit, NEW b \in 0 .. MaxCredit, NEW c \in 0 .. MaxCredit
  PROVE  /\ Plus(a, c) \in 0 .. MaxCredit
         /\ Plus(a, c) >= a
         /\ a <= b => Plus(a, c) <= Plus(b, c)
  BY BudgetAssumption DEF BudgetAssumption, Plus

(* What is left of a limit that covers the reserve. *)
LEMMA MinusKeepsReserve ==
  ASSUME NEW limit \in Nat, NEW used \in Nat, NEW reserve \in Nat,
         ~(used > limit), ~(Minus(limit, used) < reserve)
  PROVE  used + reserve <= limit
PROOF
<1>1. CASE limit > used
  <2>1. Minus(limit, used) = limit - used
    BY <1>1 DEF Minus
  <2> QED BY <2>1
<1>2. CASE limit = used
  <2>1. Minus(limit, used) = 0
    BY <1>2 DEF Minus
  <2>2. reserve = 0
    BY <2>1
  <2> QED BY <1>2, <2>2
<1> QED BY <1>1, <1>2

(* The fields of a request. *)
LEMMA RequestFields ==
  ASSUME NEW r \in AllRequests
  PROVE  /\ r.method \in Methods /\ r.cost \in 0 .. MaxCredit
         /\ Verdict(r) \in Verdicts
  BY DEF AllRequests, Verdict, Verdicts

(* A charged request is not over the budget. *)
LEMMA ChargedIsWithin ==
  ASSUME NEW r, Verdict(r) = "charged"
  PROVE  ~OverBudget(r)
  BY DEF Verdict, Refused

(* What a charge that passed the gates leaves within the limits. *)
LEMMA ChargeKeepsLimits ==
  ASSUME Inv, NEW r \in AllRequests, Charge(r)
  PROVE  /\ daily' \in 0 .. MaxCredit /\ monthly' \in 0 .. MaxCredit
         /\ perMethod' \in [Methods -> 0 .. MaxCredit]
         /\ LimitsKept' /\ MethodsWithinDay'
PROOF
<1>1. CASE Verdict(r) # "charged"
  BY <1>1 DEF Charge, Inv, TypeOK, LimitsKept, MethodsWithinDay
<1>2. CASE Verdict(r) = "charged"
  <2>1. /\ daily' = Plus(daily, r.cost) /\ monthly' = Plus(monthly, r.cost)
        /\ perMethod' = [perMethod EXCEPT ![r.method] = Plus(@, r.cost)]
    BY <1>2 DEF Charge
  <2>2. /\ r.method \in Methods /\ r.cost \in 0 .. MaxCredit
        /\ daily \in 0 .. MaxCredit /\ monthly \in 0 .. MaxCredit
        /\ perMethod \in [Methods -> 0 .. MaxCredit]
    BY RequestFields DEF Inv, TypeOK
  <2>3. /\ daily' \in 0 .. MaxCredit /\ monthly' \in 0 .. MaxCredit
        /\ daily' >= daily
        /\ Plus(perMethod[r.method], r.cost) \in 0 .. MaxCredit
        /\ Plus(perMethod[r.method], r.cost) <= daily'
    BY <2>1, <2>2, PlusFacts DEF Inv, MethodsWithinDay
  <2>4. perMethod' \in [Methods -> 0 .. MaxCredit]
    BY <2>1, <2>2, <2>3
  <2>5. \A m \in Methods :
          perMethod'[m] = IF m = r.method THEN Plus(perMethod[m], r.cost) ELSE perMethod[m]
    BY <2>1, <2>2
  <2>6. MethodsWithinDay'
    <3> SUFFICES ASSUME NEW m \in Methods PROVE perMethod'[m] <= daily'
      BY DEF MethodsWithinDay
    <3>1. perMethod[m] <= daily /\ perMethod[m] \in 0 .. MaxCredit
      BY <2>2 DEF Inv, MethodsWithinDay
    <3> QED BY <3>1, <2>2, <2>3, <2>5, BudgetAssumption DEF BudgetAssumption
  <2>7. ~OverBudget(r)
    BY <1>2, ChargedIsWithin
  <2>8. daily' + Reserve <= DailyLimit /\ monthly' <= MonthlyLimit
    <3>1. ~(daily' > DailyLimit) /\ ~(monthly' > MonthlyLimit)
      BY <2>1, <2>7 DEF OverBudget
    <3>2. DailyLimit \in Nat /\ MonthlyLimit \in Nat /\ Reserve \in Nat
          /\ daily' \in Nat /\ monthly' \in Nat
      BY <2>3, BudgetAssumption DEF BudgetAssumption
    <3>3. ~(Minus(DailyLimit, daily') < Reserve)
      BY <2>1, <2>7 DEF OverBudget
    <3>4. daily' + Reserve <= DailyLimit
      BY <3>1, <3>2, <3>3, MinusKeepsReserve
    <3>5. monthly' <= MonthlyLimit
      BY <3>1, <3>2
    <3> QED BY <3>4, <3>5
  <2>9. ASSUME NEW m \in DOMAIN MethodLimit PROVE perMethod'[m] <= MethodLimit[m]
    <3>1. m \in Methods /\ MethodLimit[m] \in 0 .. MaxCredit
      BY BudgetAssumption DEF BudgetAssumption
    <3>2. CASE m = r.method
      <4>1. ~(Plus(perMethod[m], r.cost) > MethodLimit[m])
        BY <2>7, <3>2 DEF OverBudget
      <4> QED BY <4>1, <3>1, <3>2, <2>3, <2>5, BudgetAssumption DEF BudgetAssumption
    <3>3. CASE m # r.method
      BY <3>1, <3>3, <2>5 DEF Inv, LimitsKept
    <3> QED BY <3>2, <3>3
  <2> QED BY <2>3, <2>4, <2>6, <2>8, <2>9 DEF LimitsKept
<1> QED BY <1>1, <1>2

(* check_and_record adds one entry at the end of the ledger. *)
LEMMA RecordAppends ==
  ASSUME TypeOK, NEW r \in AllRequests, CheckAndRecord(r)
  PROVE  /\ ledger' \in Seq(Entries) /\ Len(ledger') <= MaxLedger
         /\ Len(ledger') = Len(ledger) + 1
         /\ \A i \in DOMAIN ledger : ledger'[i] = ledger[i]
         /\ ledger'[Len(ledger')] = [request |-> r, verdict |-> Verdict(r)]
PROOF
<1>1. [request |-> r, verdict |-> Verdict(r)] \in Entries
  BY RequestFields DEF TypeOK, Entries
<1>2. ledger \in Seq(Entries) /\ Len(ledger) < MaxLedger
      /\ ledger' = Append(ledger, [request |-> r, verdict |-> Verdict(r)])
  BY DEF TypeOK, CheckAndRecord
<1> QED BY <1>1, <1>2, BudgetAssumption DEF BudgetAssumption

(* The initial state, and every step, keep the invariant. *)
THEOREM Invariance == Spec => []Inv
PROOF
<1>1. Init => Inv
  <2> SUFFICES ASSUME Init PROVE Inv
    OBVIOUS
  <2>1. TypeOK
    <3>1. /\ 0 \in 0 .. MaxCredit /\ 0 <= MaxLedger
          /\ <<>> \in Seq(Entries) /\ Len(<<>>) = 0
      BY BudgetAssumption DEF BudgetAssumption
    <3> QED BY <3>1 DEF Init, TypeOK
  <2>2. LimitsKept /\ MethodsWithinDay
    BY BudgetAssumption DEF BudgetAssumption, Init, LimitsKept, MethodsWithinDay
  <2> QED BY <2>1, <2>2 DEF Inv
<1>2. Inv /\ [Next]_vars => Inv'
  <2> SUFFICES ASSUME Inv, [Next]_vars PROVE Inv'
    OBVIOUS
  <2>0. TypeOK /\ LimitsKept /\ MethodsWithinDay
    BY DEF Inv
  <2>1. ASSUME NEW r \in Requests, Request(r) PROVE Inv'
    <3>1. r \in AllRequests /\ CheckAndRecord(r) /\ UNCHANGED <<known, killSwitch, sent>>
      BY <2>1, BudgetAssumption DEF BudgetAssumption, Request
    <3>2. Charge(r)
      BY <3>1 DEF CheckAndRecord
    <3>3. /\ daily' \in 0 .. MaxCredit /\ monthly' \in 0 .. MaxCredit
          /\ perMethod' \in [Methods -> 0 .. MaxCredit] /\ LimitsKept' /\ MethodsWithinDay'
      BY <3>1, <3>2, ChargeKeepsLimits
    <3>4. ledger' \in Seq(Entries) /\ Len(ledger') <= MaxLedger
      BY <2>0, <3>1, RecordAppends
    <3> QED BY <2>0, <3>1, <3>3, <3>4 DEF Inv, TypeOK
  <2>2. CASE Submit
    <3>1. SendRequest \in AllRequests
      BY BudgetAssumption DEF BudgetAssumption
    <3>2. Charge(SendRequest) /\ CheckAndRecord(SendRequest)
      BY <2>2 DEF Submit, CheckAndRecord
    <3>3. /\ daily' \in 0 .. MaxCredit /\ monthly' \in 0 .. MaxCredit
          /\ perMethod' \in [Methods -> 0 .. MaxCredit] /\ LimitsKept' /\ MethodsWithinDay'
      BY <3>1, <3>2, ChargeKeepsLimits
    <3>4. ledger' \in Seq(Entries) /\ Len(ledger') <= MaxLedger
      BY <2>0, <3>1, <3>2, RecordAppends
    <3>5. sent' \in Nat /\ UNCHANGED <<known, killSwitch>>
      BY <2>0, <2>2 DEF Submit, TypeOK
    <3> QED BY <2>0, <3>3, <3>4, <3>5 DEF Inv, TypeOK
  <2>3. CASE MarkBudgetStateUnknown
    BY <2>0, <2>3 DEF MarkBudgetStateUnknown, Inv, TypeOK, LimitsKept, MethodsWithinDay
  <2>4. CASE SetKillSwitch
    BY <2>0, <2>4 DEF SetKillSwitch, Inv, TypeOK, LimitsKept, MethodsWithinDay
  <2>5. CASE UNCHANGED vars
    BY <2>0, <2>5 DEF vars, Inv, TypeOK, LimitsKept, MethodsWithinDay
  <2> QED BY <2>1, <2>2, <2>3, <2>4, <2>5 DEF Next
<1> QED BY <1>1, <1>2, PTL DEF Spec

(* The counters are u64 and the ledger a sequence of entries. *)
THEOREM BudgetTypeOK == Spec => []TypeOK
  BY Invariance, PTL DEF Inv

(* No sequence of calls spends into the reserve or passes a limit of the day, *)
(* of the month or of a method.                                               *)
THEOREM LimitsAreKept == Spec => []LimitsKept
  BY Invariance, PTL DEF Inv

-----------------------------------------------------------------------------
(* A charge of one credit that passed the gates shows in its method. *)
LEMMA ChargeOfOneCounts ==
  ASSUME Inv, RoomBelowMax, Charge(SendRequest), Verdict(SendRequest) = "charged"
  PROVE  perMethod'["sendTransaction"] = perMethod["sendTransaction"] + 1
PROOF
<1>1. "sendTransaction" \in Methods /\ SendRequest.method = "sendTransaction"
      /\ SendRequest.cost = 1
  BY BudgetAssumption DEF BudgetAssumption, AllRequests, SendRequest
<1>2. /\ daily \in 0 .. MaxCredit
      /\ perMethod \in [Methods -> 0 .. MaxCredit]
      /\ perMethod["sendTransaction"] \in 0 .. MaxCredit
      /\ perMethod["sendTransaction"] <= daily
  BY <1>1 DEF Inv, TypeOK, MethodsWithinDay
<1>3. /\ ~(Plus(daily, 1) > DailyLimit)
      /\ ~(Minus(DailyLimit, Plus(daily, 1)) < Reserve)
  BY <1>1, ChargedIsWithin DEF OverBudget
<1>4. daily + 1 <= MaxCredit
  BY <1>2, <1>3, BudgetAssumption DEF BudgetAssumption, RoomBelowMax, Plus, Minus
<1>5. Plus(perMethod["sendTransaction"], 1) = perMethod["sendTransaction"] + 1
  BY <1>2, <1>4, BudgetAssumption DEF BudgetAssumption, Plus
<1>6. perMethod' = [perMethod EXCEPT !["sendTransaction"] = Plus(@, 1)]
  BY <1>1 DEF Charge
<1> QED BY <1>1, <1>2, <1>5, <1>6

(* A transaction is sent in a step that the kill switch, the state of the   *)
(* budget and the limits allowed, and that was charged to its method; with   *)
(* room below the largest u64 the charge shows (LiveExecutor::submit).       *)
THEOREM TheExecutorPays ==
  ASSUME RoomBelowMax
  PROVE  Spec => SendsArePaid
PROOF
<1> DEFINE Paid ==
      sent' # sent =>
        /\ LiveEnabled /\ ~DryRun /\ ~killSwitch
        /\ DenyWhenUnknown => known
        /\ perMethod'["sendTransaction"] > perMethod["sendTransaction"]
        /\ daily' + Reserve <= DailyLimit
<1>1. Inv /\ [Next]_vars => [Paid]_vars
  <2> SUFFICES ASSUME Inv, [Next]_vars, sent' # sent PROVE Paid
    OBVIOUS
  <2>1. Submit
    BY DEF Next, Request, MarkBudgetStateUnknown, SetKillSwitch, vars
  <2>2. Verdict(SendRequest) = "charged" /\ LiveEnabled /\ ~DryRun /\ ~killSwitch
    BY <2>1 DEF Submit
  <2>3. Charge(SendRequest) /\ SendRequest \in AllRequests
    BY <2>1, BudgetAssumption DEF BudgetAssumption, Submit, CheckAndRecord
  <2>4. DenyWhenUnknown => known
    <3>1. ~LiveDenies(SendRequest) /\ SendRequest.live
      BY <2>2 DEF Verdict, Refused, SendRequest
    <3> QED
      BY <3>1 DEF LiveDenies
  <2>5. perMethod'["sendTransaction"] > perMethod["sendTransaction"]
    <3>1. perMethod["sendTransaction"] \in Nat
      BY <2>3, BudgetAssumption DEF BudgetAssumption, Inv, TypeOK, AllRequests, SendRequest
    <3> QED
      BY <2>2, <2>3, <3>1, ChargeOfOneCounts
  <2>6. daily' + Reserve <= DailyLimit
    <3>1. /\ daily' = Plus(daily, SendRequest.cost)
          /\ ~(Plus(daily, SendRequest.cost) > DailyLimit)
          /\ ~(Minus(DailyLimit, Plus(daily, SendRequest.cost)) < Reserve)
      BY <2>2, <2>3, ChargedIsWithin DEF Charge, OverBudget
    <3>2. daily' \in Nat /\ DailyLimit \in Nat /\ Reserve \in Nat
      BY <2>3, ChargeKeepsLimits, BudgetAssumption DEF BudgetAssumption
    <3> QED
      BY <3>1, <3>2, MinusKeepsReserve
  <2> QED
    BY <2>2, <2>4, <2>5, <2>6
<1> QED
  BY <1>1, Invariance, PTL DEF Spec, SendsArePaid

-----------------------------------------------------------------------------
(* A step that changes the ledger or a counter is a request that went through *)
(* check_and_record.                                                          *)
LEMMA OnlyRequestsRecord ==
  ASSUME [Next]_vars, ~UNCHANGED <<ledger, daily, monthly, perMethod>>
  PROVE  \E r \in AllRequests : CheckAndRecord(r)
  BY BudgetAssumption
     DEF BudgetAssumption, Next, Request, Submit, MarkBudgetStateUnknown, SetKillSwitch,
         vars

(* Once the state of the budget is unknown, every entry of a live request is a *)
(* denial.                                                                     *)
THEOREM UnknownBudgetCloses == Spec => FailsClosed
PROOF
<1> DEFINE Closed ==
      (DenyWhenUnknown /\ ~known /\ ledger' # ledger) =>
        LET e == ledger'[Len(ledger')]
        IN  e.request.live => e.verdict = "denied"
<1>1. Inv /\ [Next]_vars => [Closed]_vars
  <2> SUFFICES ASSUME Inv, [Next]_vars, DenyWhenUnknown, ~known, ledger' # ledger,
                      ledger'[Len(ledger')].request.live
               PROVE  ledger'[Len(ledger')].verdict = "denied"
    OBVIOUS
  <2>1. PICK r \in AllRequests : CheckAndRecord(r)
    BY OnlyRequestsRecord
  <2>2. ledger'[Len(ledger')] = [request |-> r, verdict |-> Verdict(r)]
    BY <2>1, RecordAppends DEF Inv
  <2>3. r.live
    BY <2>2
  <2>4. Verdict(r) = "denied"
    BY <2>3 DEF Verdict, Refused, LiveDenies
  <2> QED BY <2>2, <2>4
<1> QED BY <1>1, Invariance, PTL DEF Spec, FailsClosed

-----------------------------------------------------------------------------
(* The ledger and the counters. *)

Costs(L) == [i \in DOMAIN L |-> L[i].request.cost]

LedgerSum(L, S) == MapThenSumSet(LAMBDA i : L[i].request.cost, S)

ChargedIn(L) == {i \in DOMAIN L : L[i].verdict = "charged"}
ChargedTo(L, m) == {i \in DOMAIN L : L[i].verdict = "charged" /\ L[i].request.method = m}

(* The entries of a ledger are numbered, and cost credits. *)
LEMMA LedgerFacts ==
  ASSUME NEW L \in Seq(Entries)
  PROVE  /\ DOMAIN L = 1 .. Len(L) /\ Len(L) \in Nat /\ IsFiniteSet(DOMAIN L)
         /\ \A i \in DOMAIN L : L[i] \in Entries /\ Costs(L)[i] \in Nat
                                /\ Costs(L)[i] = L[i].request.cost
<1>1. DOMAIN L = 1 .. Len(L) /\ Len(L) \in Nat
  OBVIOUS
<1>2. IsFiniteSet(DOMAIN L)
  BY <1>1, FS_Interval
<1>3. \A i \in DOMAIN L : L[i] \in Entries
  OBVIOUS
<1>4. \A e \in Entries : e.request.cost \in Nat
  BY BudgetAssumption DEF BudgetAssumption, Entries, AllRequests
<1> QED
  BY <1>1, <1>2, <1>3, <1>4 DEF Costs

(* The sum of the ledger is the total of its costs. *)
LEMMA LedgerSumIsTotal ==
  ASSUME NEW L \in Seq(Entries), NEW S \in SUBSET DOMAIN L
  PROVE  LedgerSum(L, S) = Total(Costs(L), S)
<1> DEFINE w == Costs(L)
           iter[s \in SUBSET S] == IF s = {} THEN 0
              ELSE L[CHOOSE x \in s : TRUE].request.cost + iter[s \ {CHOOSE x \in s : TRUE}]
           Eqn(g) == g = [s \in SUBSET S |-> IF s = {} THEN 0
              ELSE L[CHOOSE x \in s : TRUE].request.cost + g[s \ {CHOOSE x \in s : TRUE}]]
<1>1. LedgerSum(L, S) = iter[S]
  BY DEF LedgerSum, MapThenSumSet, MapThenFoldSet
<1>2. IsFiniteSet(S) /\ \A x \in S : w[x] \in Nat
  BY LedgerFacts, FS_Subset
<1>3. \A s \in SUBSET S : s # {} =>
        w[CHOOSE x \in s : TRUE] = L[CHOOSE x \in s : TRUE].request.cost
  BY LedgerFacts
<1> HIDE DEF w
<1>4. ASSUME NEW g PROVE IsTotal(g, w, S) <=> Eqn(g)
  <2>1. \A s \in SUBSET S :
          (IF s = {} THEN 0 ELSE w[CHOOSE x \in s : TRUE] + g[s \ {CHOOSE x \in s : TRUE}])
        = (IF s = {} THEN 0 ELSE L[CHOOSE x \in s : TRUE].request.cost
                                   + g[s \ {CHOOSE x \in s : TRUE}])
    BY <1>3
  <2> QED
    BY <2>1 DEF IsTotal
<1>5. PICK g : IsTotal(g, w, S)
  BY <1>2, TotalIsFold
<1>6. iter = CHOOSE f : Eqn(f)
  OBVIOUS
<1>7. IsTotal(iter, w, S)
  <2> HIDE DEF Eqn, iter
  <2> QED BY <1>4, <1>5, <1>6
<1>8. PICK h : IsTotal(h, w, S) /\ LedgerSum(L, S) = h[S]
  <2> HIDE DEF iter
  <2> QED BY <1>1, <1>7
<1>9. h[S] = Total(w, S)
  BY <1>2, <1>8, TotalIs
<1> QED
  BY <1>8, <1>9 DEF w

(* A new entry adds its cost, if it was charged, and nothing otherwise. *)
LEMMA LedgerSumAppends ==
  ASSUME NEW L \in Seq(Entries), NEW M \in Seq(Entries), NEW e \in Entries,
         Len(M) = Len(L) + 1, \A i \in DOMAIN L : M[i] = L[i], M[Len(M)] = e,
         NEW S \in SUBSET DOMAIN L
  PROVE  /\ LedgerSum(M, S) = LedgerSum(L, S)
         /\ LedgerSum(M, S \cup {Len(M)}) = LedgerSum(L, S) + e.request.cost
         /\ LedgerSum(L, S) \in Nat
<1>1. /\ DOMAIN L = 1 .. Len(L) /\ DOMAIN M = 1 .. Len(M)
      /\ S \in SUBSET DOMAIN M /\ Len(M) \in DOMAIN M /\ Len(M) \notin S
      /\ IsFiniteSet(S)
  BY LedgerFacts, FS_Subset
<1>2. /\ \A i \in S : Costs(L)[i] \in Nat
      /\ \A i \in S : Costs(M)[i] = Costs(L)[i]
      /\ Costs(M)[Len(M)] = e.request.cost /\ Costs(M)[Len(M)] \in Nat
  BY <1>1, LedgerFacts
<1>3. Total(Costs(M), S) = Total(Costs(L), S)
  BY <1>1, <1>2, TotalSame
<1>4. Total(Costs(M), S \cup {Len(M)}) = Total(Costs(M), S) + Costs(M)[Len(M)]
  BY <1>1, <1>2, TotalAdds
<1>5. Total(Costs(L), S) \in Nat
  BY <1>1, <1>2, TotalType
<1>6. /\ LedgerSum(L, S) = Total(Costs(L), S)
      /\ LedgerSum(M, S) = Total(Costs(M), S)
      /\ LedgerSum(M, S \cup {Len(M)}) = Total(Costs(M), S \cup {Len(M)})
  BY <1>1, LedgerSumIsTotal
<1> QED
  BY <1>2, <1>3, <1>4, <1>5, <1>6

(* The sums after a request: those of what it is charged to grow by its cost. *)
LEMMA SumsAfterRequest ==
  ASSUME NEW L \in Seq(Entries), NEW M \in Seq(Entries), NEW e \in Entries,
         Len(M) = Len(L) + 1, \A i \in DOMAIN L : M[i] = L[i], M[Len(M)] = e
  PROVE  /\ LedgerSum(M, ChargedIn(M)) =
              LedgerSum(L, ChargedIn(L)) + (IF e.verdict = "charged" THEN e.request.cost ELSE 0)
         /\ \A m \in Methods :
              LedgerSum(M, ChargedTo(M, m)) =
                LedgerSum(L, ChargedTo(L, m)) +
                  (IF e.verdict = "charged" /\ e.request.method = m THEN e.request.cost ELSE 0)
<1>1. DOMAIN M = DOMAIN L \cup {Len(M)} /\ Len(M) \notin DOMAIN L
  OBVIOUS
<1>2. ASSUME NEW S \in SUBSET DOMAIN L
      PROVE  /\ LedgerSum(M, S) = LedgerSum(L, S) + 0
             /\ LedgerSum(M, S \cup {Len(M)}) = LedgerSum(L, S) + e.request.cost
  <2>1. /\ LedgerSum(M, S) = LedgerSum(L, S)
        /\ LedgerSum(M, S \cup {Len(M)}) = LedgerSum(L, S) + e.request.cost
        /\ LedgerSum(L, S) \in Nat
    BY LedgerSumAppends
  <2> QED
    BY <2>1
<1>3. /\ ChargedIn(L) \in SUBSET DOMAIN L
      /\ ChargedIn(M) = IF e.verdict = "charged" THEN ChargedIn(L) \cup {Len(M)} ELSE ChargedIn(L)
  BY <1>1 DEF ChargedIn
<1>4. LedgerSum(M, ChargedIn(M)) =
        LedgerSum(L, ChargedIn(L)) + (IF e.verdict = "charged" THEN e.request.cost ELSE 0)
  BY <1>2, <1>3
<1>5. ASSUME NEW m \in Methods
      PROVE  LedgerSum(M, ChargedTo(M, m)) =
               LedgerSum(L, ChargedTo(L, m)) +
                 (IF e.verdict = "charged" /\ e.request.method = m THEN e.request.cost ELSE 0)
  <2>1. /\ ChargedTo(L, m) \in SUBSET DOMAIN L
        /\ ChargedTo(M, m) = IF e.verdict = "charged" /\ e.request.method = m
                              THEN ChargedTo(L, m) \cup {Len(M)} ELSE ChargedTo(L, m)
    BY <1>1 DEF ChargedTo
  <2> QED
    BY <1>2, <2>1
<1> QED
  BY <1>4, <1>5

(* The counters are the sums of the ledger L. *)
Explained(L) ==
  /\ daily = LedgerSum(L, ChargedIn(L))
  /\ monthly = daily
  /\ \A m \in Methods : perMethod[m] = LedgerSum(L, ChargedTo(L, m))

(* A charge that passed the gates does not saturate. *)
LEMMA ChargesAdd ==
  ASSUME Inv, RoomBelowMax, NEW r \in AllRequests, Charge(r), Verdict(r) = "charged",
         monthly = daily
  PROVE  /\ daily' = daily + r.cost
         /\ monthly' = daily'
         /\ \A m \in Methods :
              perMethod'[m] = IF m = r.method THEN perMethod[m] + r.cost ELSE perMethod[m]
<1>1. /\ daily' = Plus(daily, r.cost) /\ monthly' = Plus(monthly, r.cost)
      /\ perMethod' = [perMethod EXCEPT ![r.method] = Plus(@, r.cost)]
  BY DEF Charge
<1>2. /\ r.method \in Methods /\ r.cost \in 0 .. MaxCredit
      /\ daily \in 0 .. MaxCredit
      /\ perMethod \in [Methods -> 0 .. MaxCredit]
      /\ \A m \in Methods : perMethod[m] <= daily
  BY RequestFields DEF Inv, TypeOK, MethodsWithinDay
<1>3. /\ ~(Plus(daily, r.cost) > DailyLimit)
      /\ ~(Minus(DailyLimit, Plus(daily, r.cost)) < Reserve)
  BY ChargedIsWithin DEF OverBudget
<1>4. daily + r.cost <= MaxCredit
  BY <1>2, <1>3, BudgetAssumption DEF BudgetAssumption, RoomBelowMax, Plus, Minus
<1>5. Plus(daily, r.cost) = daily + r.cost
  BY <1>2, <1>4, BudgetAssumption DEF BudgetAssumption, Plus
<1>6. \A m \in Methods : Plus(perMethod[m], r.cost) = perMethod[m] + r.cost
  <2> SUFFICES ASSUME NEW m \in Methods PROVE Plus(perMethod[m], r.cost) = perMethod[m] + r.cost
    OBVIOUS
  <2>1. perMethod[m] \in 0 .. MaxCredit /\ perMethod[m] <= daily
    BY <1>2
  <2>2. ~(perMethod[m] + r.cost > MaxCredit)
    BY <2>1, <1>2, <1>4, BudgetAssumption DEF BudgetAssumption
  <2> QED
    BY <2>2 DEF Plus
<1> QED
  BY <1>1, <1>2, <1>5, <1>6

(* A request keeps the counters explained. *)
LEMMA RecordExplains ==
  ASSUME Inv, RoomBelowMax, Explained(ledger), NEW r \in AllRequests, CheckAndRecord(r)
  PROVE  Explained(ledger)'
<1> DEFINE L == ledger
           M == ledger'
           e == [request |-> r, verdict |-> Verdict(r)]
<1>1. L \in Seq(Entries) /\ TypeOK
  BY DEF Inv, TypeOK
<1>2. /\ M \in Seq(Entries) /\ Len(M) = Len(L) + 1
      /\ \A i \in DOMAIN L : M[i] = L[i]
      /\ M[Len(M)] = e
  BY <1>1, RecordAppends
<1>3. e \in Entries /\ e.request.cost = r.cost /\ Charge(r)
  BY RequestFields DEF Entries, CheckAndRecord
<1>4. /\ LedgerSum(M, ChargedIn(M)) =
             LedgerSum(L, ChargedIn(L)) + (IF Verdict(r) = "charged" THEN r.cost ELSE 0)
      /\ \A m \in Methods :
           LedgerSum(M, ChargedTo(M, m)) =
             LedgerSum(L, ChargedTo(L, m)) +
               (IF Verdict(r) = "charged" /\ r.method = m THEN r.cost ELSE 0)
  <2>1. e.verdict = Verdict(r) /\ e.request.method = r.method
    OBVIOUS
  <2> HIDE DEF e
  <2> QED
    BY <1>1, <1>2, <1>3, <2>1, SumsAfterRequest
<1>5. daily \in Nat /\ \A m \in Methods : perMethod[m] \in Nat
  BY <1>1, BudgetAssumption DEF BudgetAssumption, TypeOK
<1>6. CASE Verdict(r) = "charged"
  <2>1. /\ daily' = daily + r.cost
        /\ monthly' = daily'
        /\ \A m \in Methods :
             perMethod'[m] = IF m = r.method THEN perMethod[m] + r.cost ELSE perMethod[m]
    BY <1>3, <1>6, ChargesAdd DEF Explained
  <2> QED
    BY <1>4, <1>5, <1>6, <2>1 DEF Explained
<1>7. CASE Verdict(r) # "charged"
  <2>1. UNCHANGED <<daily, monthly, perMethod>>
    BY <1>3, <1>7 DEF Charge
  <2> QED
    BY <1>4, <1>5, <1>7, <2>1 DEF Explained
<1> QED
  BY <1>6, <1>7

(***************************************************************************)
(* The credits used are those of the charged entries of the ledger, in all *)
(* and by method, for any sequence of requests of any cost                 *)
(* (check_and_record), given that a saturated counter is over the limit.   *)
(***************************************************************************)
THEOREM TheLedgerExplains ==
  ASSUME RoomBelowMax
  PROVE  Spec => []LedgerExplainsCounters
<1>1. Init => Explained(ledger)
  <2> SUFFICES ASSUME Init PROVE Explained(ledger)
    OBVIOUS
  <2>1. /\ ledger = <<>> /\ ledger \in Seq(Entries)
        /\ ChargedIn(ledger) = {} /\ \A m \in Methods : ChargedTo(ledger, m) = {}
    BY DEF Init, ChargedIn, ChargedTo
  <2>2. LedgerSum(ledger, {}) = 0
    <3>1. {} \in SUBSET DOMAIN ledger
      OBVIOUS
    <3> QED
      BY <2>1, <3>1, LedgerSumIsTotal, TotalEmpty
  <2> QED
    BY <2>1, <2>2 DEF Init, Explained
<1>2. Inv /\ Explained(ledger) /\ [Next]_vars => Explained(ledger)'
  <2> SUFFICES ASSUME Inv, Explained(ledger), [Next]_vars PROVE Explained(ledger)'
    OBVIOUS
  <2>1. CASE UNCHANGED <<ledger, daily, monthly, perMethod>>
    BY <2>1 DEF Explained
  <2>2. CASE ~UNCHANGED <<ledger, daily, monthly, perMethod>>
    BY <2>2, OnlyRequestsRecord, RecordExplains
  <2> QED
    BY <2>1, <2>2
<1>3. Explained(ledger) => LedgerExplainsCounters
  BY DEF Explained, LedgerExplainsCounters, LedgerSum, ChargedIn, ChargedTo, Charged, Cost
<1> QED
  BY <1>1, <1>2, <1>3, Invariance, PTL DEF Spec

(* What a charged request of a validated configuration is: no send, and free. *)
LEMMA ValidatedCharges ==
  ASSUME StreamOnlyValidated, TypeOK, NEW r \in AllRequests, Verdict(r) = "charged"
  PROVE  r.category \in {"Emergency", "Unknown"} /\ r.cost = 0
<1>1. Permitted(r.category)
  BY DEF Verdict, Refused, StreamOnlyDenies, StreamOnlyValidated
<1>2. \A c \in DOMAIN FlagOf : FlagOf[c] \in Allow => c = "Emergency"
  BY DEF FlagOf, StreamOnlyValidated
<1>3. r.category \in {"Emergency", "Unknown"}
  BY <1>1, <1>2 DEF Permitted, StreamOnlyValidated
<1>4. ~(Plus(daily, r.cost) > 0)
  BY ChargedIsWithin DEF OverBudget, StreamOnlyValidated
<1>5. daily \in Nat /\ r.cost \in Nat /\ MaxCredit \in Nat \ {0}
  BY RequestFields, BudgetAssumption DEF BudgetAssumption, TypeOK
<1> QED
  BY <1>3, <1>4, <1>5 DEF Plus

(* In a stream-only configuration that validate_stream_only accepts, no      *)
(* sequence of calls spends a credit or sends a transaction, the flag of     *)
(* emergencies and fail_on_unbudgeted_rpc as they may be (check_and_record,  *)
(* stream_only_denial_reason): docs/STREAM_ONLY_CONTRACT.md's promise.       *)
THEOREM StreamOnlySpendsNothing ==
  ASSUME StreamOnlyValidated
  PROVE  Spec => []NothingSpent
<1> DEFINE Quiet ==
      /\ sent = 0
      /\ \A i \in DOMAIN ledger :
           ledger[i].verdict = "charged" =>
             ledger[i].request.category \in {"Emergency", "Unknown"} /\ Cost(i) = 0
<1>1. Init => Quiet
  BY DEF Init
<1>2. Inv /\ Quiet /\ [Next]_vars => Quiet'
  <2> SUFFICES ASSUME Inv, Quiet, [Next]_vars PROVE Quiet'
    OBVIOUS
  <2>1. sent' = 0
    <3>1. CASE Submit
      <4>1. SendRequest \in AllRequests /\ SendRequest.category = "TransactionSend"
        BY BudgetAssumption DEF BudgetAssumption, SendRequest
      <4>2. Verdict(SendRequest) # "charged"
        BY <4>1, ValidatedCharges DEF Inv
      <4> QED
        BY <3>1, <4>2 DEF Submit
    <3>2. CASE ~Submit
      BY <3>2 DEF Next, Request, MarkBudgetStateUnknown, SetKillSwitch, vars
    <3> QED
      BY <3>1, <3>2
  <2>2. ASSUME NEW i \in DOMAIN ledger', ledger'[i].verdict = "charged"
        PROVE  ledger'[i].request.category \in {"Emergency", "Unknown"} /\ Cost(i)' = 0
    <3>1. CASE ledger' = ledger
      BY <2>2, <3>1 DEF Cost
    <3>2. CASE ledger' # ledger
      <4>1. PICK r \in AllRequests : CheckAndRecord(r)
        BY <3>2, OnlyRequestsRecord
      <4>2. /\ Len(ledger') = Len(ledger) + 1
            /\ ledger \in Seq(Entries) /\ ledger' \in Seq(Entries)
            /\ \A j \in DOMAIN ledger : ledger'[j] = ledger[j]
            /\ ledger'[Len(ledger')] = [request |-> r, verdict |-> Verdict(r)]
        BY <4>1, RecordAppends DEF Inv, TypeOK
      <4>3. i \in DOMAIN ledger \/ i = Len(ledger')
        BY <4>2
      <4>4. CASE i \in DOMAIN ledger
        BY <2>2, <4>2, <4>4 DEF Cost
      <4>5. CASE i = Len(ledger')
        <5>1. ledger'[i].request = r /\ Verdict(r) = "charged"
          BY <2>2, <4>2, <4>5
        <5> QED
          BY <5>1, ValidatedCharges DEF Cost, Inv
      <4> QED
        BY <4>3, <4>4, <4>5
    <3> QED
      BY <3>1, <3>2
  <2> QED
    BY <2>1, <2>2
<1>3. Inv /\ Quiet => NothingSpent
  <2> SUFFICES ASSUME Inv, Quiet PROVE NothingSpent
    OBVIOUS
  <2>1. daily = 0 /\ monthly = 0
    BY BudgetAssumption DEF BudgetAssumption, Inv, TypeOK, LimitsKept, StreamOnlyValidated
  <2>2. ASSUME NEW m \in Methods PROVE perMethod[m] = 0
    BY <2>1, BudgetAssumption DEF BudgetAssumption, Inv, TypeOK, MethodsWithinDay
  <2> QED
    BY <2>1, <2>2 DEF NothingSpent
<1> QED
  BY <1>1, <1>2, <1>3, Invariance, PTL DEF Spec
=============================================================================
