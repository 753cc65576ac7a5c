----------------------- MODULE ShredReconcilerProofs ------------------------
(***************************************************************************)
(* What the bookkeeping of ShredReconciler promises for every set of keys, *)
(* every ttl and every number of events: a record can be reached by        *)
(* expiry, and the counters never claim more than came in.                 *)
(*                                                                         *)
(* The invariant is the conjunction of the checked ones: each is inductive *)
(* next to the types.                                                      *)
(***************************************************************************)
EXTENDS ShredReconciler, FiniteSetTheorems, SequenceTheorems, TLAPS

Inv ==
  /\ ReconcilerTypeOK
  /\ RecordsAreQueued
  /\ OutcomesAreDisjoint
  /\ LateConfirmationsAreFailures

-----------------------------------------------------------------------------
(* The size of what is left of a finite set. *)
LEMMA SizeOfDifference ==
  ASSUME NEW S, IsFiniteSet(S), NEW T \in SUBSET S
  PROVE  /\ IsFiniteSet(S \ T) /\ IsFiniteSet(T)
         /\ Cardinality(S \ T) \in Nat /\ Cardinality(T) \in Nat
         /\ Cardinality(S) = Cardinality(S \ T) + Cardinality(T)
PROOF
<1>1. IsFiniteSet(T) /\ IsFiniteSet(S \ T)
  BY FS_Subset
<1>2. Cardinality(T) \in Nat /\ Cardinality(S \ T) \in Nat
  BY <1>1, FS_CardinalityType
<1>3. (S \ T) \cup T = S /\ (S \ T) \cap T = {}
  OBVIOUS
<1>4. Cardinality((S \ T) \cup T)
        = Cardinality(S \ T) + Cardinality(T) - Cardinality((S \ T) \cap T)
  BY <1>1, FS_Union
<1>5. Cardinality(S) = Cardinality(S \ T) + Cardinality(T) - Cardinality({})
  BY <1>3, <1>4, Zenon
<1>6. Cardinality({}) = 0
  BY FS_EmptySet
<1>7. Cardinality(S) = Cardinality(S \ T) + Cardinality(T)
  BY <1>2, <1>5, <1>6
<1> QED BY <1>1, <1>2, <1>7

(* The size of a union is at most the sum of the sizes. *)
LEMMA SizeOfUnion ==
  ASSUME NEW S, IsFiniteSet(S), NEW T, IsFiniteSet(T)
  PROVE  /\ Cardinality(S \cup T) \in Nat /\ Cardinality(S) \in Nat /\ Cardinality(T) \in Nat
         /\ Cardinality(S \cup T) <= Cardinality(S) + Cardinality(T)
PROOF
<1>1. IsFiniteSet(S \cup T) /\ IsFiniteSet(S \cap T)
  BY FS_Union, FS_Subset
<1>2. Cardinality(S \cup T) \in Nat /\ Cardinality(S \cap T) \in Nat
      /\ Cardinality(S) \in Nat /\ Cardinality(T) \in Nat
  BY <1>1, FS_CardinalityType
<1>3. Cardinality(S \cup T) = Cardinality(S) + Cardinality(T) - Cardinality(S \cap T)
  BY FS_Union
<1> QED BY <1>2, <1>3

(* What the types say of the sets that are counted. *)
LEMMA CountedSets ==
  ASSUME ReconcilerTypeOK
  PROVE  /\ IsFiniteSet(pending) /\ IsFiniteSet(expired)
         /\ Cardinality(pending) \in Nat /\ Cardinality(expired) \in Nat
PROOF
<1>1. pending \in SUBSET Keys /\ expired \in SUBSET Keys /\ IsFiniteSet(Keys)
  BY ReconcilerAssumption DEF ReconcilerAssumption, ReconcilerTypeOK
<1>2. IsFiniteSet(pending) /\ IsFiniteSet(expired)
  BY <1>1, FS_Subset
<1> QED BY <1>2, FS_CardinalityType

-----------------------------------------------------------------------------
LEMMA RecordKeepsInv ==
  ASSUME Inv, NEW k \in Keys, NEW a \in 0 .. Ttl, RecordTentative(k, a)
  PROVE  Inv'
PROOF
<1>0. ReconcilerTypeOK /\ RecordsAreQueued /\ OutcomesAreDisjoint /\ LateConfirmationsAreFailures
  BY DEF Inv
<1>1. ReconcilerTypeOK'
  <2>1. order' \in Seq(Keys)
    BY <1>0 DEF RecordTentative, ReconcilerTypeOK
  <2>2. tentative' \in 0 .. MaxTentative
    BY <1>0, ReconcilerAssumption DEF ReconcilerAssumption, RecordTentative, ReconcilerTypeOK
  <2>3. pending' \subseteq Keys /\ age' \in [Keys -> 0 .. Ttl]
    BY <1>0 DEF RecordTentative, ReconcilerTypeOK
  <2> QED BY <1>0, <2>1, <2>2, <2>3 DEF RecordTentative, ReconcilerTypeOK
<1>2. RecordsAreQueued'
  <2> SUFFICES ASSUME NEW x \in pending' PROVE \E i \in DOMAIN order' : order'[i] = x
    BY DEF RecordsAreQueued
  <2>1. order \in Seq(Keys) /\ order' = Append(order, k)
    BY <1>0 DEF RecordTentative, ReconcilerTypeOK
  <2>2. CASE x = k
    BY <2>1, <2>2
  <2>3. CASE x # k
    <3>1. x \in pending
      BY <2>3 DEF RecordTentative
    <3>2. PICK i \in DOMAIN order : order[i] = x
      BY <1>0, <3>1 DEF RecordsAreQueued
    <3> QED BY <2>1, <3>2
  <2> QED BY <2>2, <2>3
<1>3. OutcomesAreDisjoint'
  <2>1. IsFiniteSet(pending) /\ Cardinality(pending) \in Nat
    BY <1>0, CountedSets
  <2>2. Cardinality(pending \cup {k}) <= Cardinality(pending) + 1
        /\ Cardinality(pending \cup {k}) \in Nat
    <3>1. IsFiniteSet({k}) /\ Cardinality({k}) = 1
      BY FS_Singleton
    <3> QED BY <2>1, <3>1, SizeOfUnion
  <2>3. successes \in Nat /\ failures \in Nat /\ tentative \in Nat
    BY <1>0 DEF ReconcilerTypeOK
  <2>4. /\ pending' = pending \cup {k} /\ tentative' = tentative + 1
        /\ successes' = successes /\ failures' = failures
    BY DEF RecordTentative
  <2> QED BY <1>0, <2>1, <2>2, <2>3, <2>4 DEF OutcomesAreDisjoint
<1>4. LateConfirmationsAreFailures'
  BY <1>0 DEF RecordTentative, LateConfirmationsAreFailures
<1> QED BY <1>1, <1>2, <1>3, <1>4 DEF Inv

LEMMA ReconcileKeepsInv ==
  ASSUME Inv, NEW k \in Keys, ReconcileCanonical(k)
  PROVE  Inv'
PROOF
<1>0. ReconcilerTypeOK /\ RecordsAreQueued /\ OutcomesAreDisjoint /\ LateConfirmationsAreFailures
  BY DEF Inv
<1>1. /\ IsFiniteSet(pending) /\ IsFiniteSet(expired)
      /\ Cardinality(pending) \in Nat /\ Cardinality(expired) \in Nat
  BY <1>0, CountedSets
<1>2. /\ successes \in Nat /\ failures \in Nat /\ confirmed \in Nat /\ unseen \in Nat
      /\ tentative \in Nat
  BY <1>0 DEF ReconcilerTypeOK
<1>3. RecordsAreQueued'
  BY <1>0 DEF ReconcileCanonical, RecordsAreQueued
<1>4. CASE k \in pending
  <2>1. /\ pending' = pending \ {k} /\ age' = [age EXCEPT ![k] = 0]
        /\ successes' = successes + 1
        /\ successes + confirmed + unseen < MaxCanonical
        /\ UNCHANGED <<expired, confirmed, unseen, order, tentative, failures>>
    BY <1>4 DEF ReconcileCanonical
  <2>2. ReconcilerTypeOK'
    <3>1. 0 \in 0 .. Ttl
      BY ReconcilerAssumption DEF ReconcilerAssumption
    <3>2. pending' \subseteq Keys /\ age' \in [Keys -> 0 .. Ttl]
      BY <1>0, <2>1, <3>1 DEF ReconcilerTypeOK
    <3>3. successes' \in Nat /\ successes' + confirmed' + unseen' <= MaxCanonical
      BY <1>2, <2>1, ReconcilerAssumption DEF ReconcilerAssumption
    <3> QED BY <1>0, <2>1, <3>2, <3>3 DEF ReconcilerTypeOK
  <2>3. Cardinality(pending') = Cardinality(pending) - 1
    BY <1>1, <1>4, <2>1, FS_RemoveElement
  <2>4. OutcomesAreDisjoint'
    BY <1>0, <1>1, <1>2, <2>1, <2>3 DEF OutcomesAreDisjoint
  <2>5. LateConfirmationsAreFailures'
    BY <1>0, <2>1 DEF LateConfirmationsAreFailures
  <2> QED BY <1>3, <2>2, <2>4, <2>5 DEF Inv
<1>5. CASE k \notin pending
  <2>1. /\ expired' = expired \ {k}
        /\ confirmed' = IF k \in expired THEN confirmed + 1 ELSE confirmed
        /\ unseen' = IF k \in Signed \ expired THEN unseen + 1 ELSE unseen
        /\ successes + confirmed + unseen < MaxCanonical
        /\ UNCHANGED <<pending, age, successes, order, tentative, failures>>
    BY <1>5 DEF ReconcileCanonical
  <2>2. ReconcilerTypeOK'
    <3>1. /\ confirmed' \in Nat /\ unseen' \in Nat
          /\ successes' + confirmed' + unseen' <= MaxCanonical
      BY <1>2, <2>1, ReconcilerAssumption DEF ReconcilerAssumption
    <3> QED BY <1>0, <2>1, <3>1 DEF ReconcilerTypeOK
  <2>3. OutcomesAreDisjoint'
    BY <1>0, <2>1 DEF OutcomesAreDisjoint
  <2>4. LateConfirmationsAreFailures'
    <3>1. Cardinality(expired') = IF k \in expired THEN Cardinality(expired) - 1
                                  ELSE Cardinality(expired)
      BY <1>1, <2>1, FS_RemoveElement
    <3> QED BY <1>0, <1>1, <1>2, <2>1, <3>1 DEF LateConfirmationsAreFailures
  <2> QED BY <1>3, <2>2, <2>3, <2>4 DEF Inv
<1> QED BY <1>4, <1>5

LEMMA ExpireKeepsInv ==
  ASSUME Inv, NEW n \in 0 .. Len(order), Expire(n)
  PROVE  Inv'
PROOF
<1>0. ReconcilerTypeOK /\ RecordsAreQueued /\ OutcomesAreDisjoint /\ LateConfirmationsAreFailures
  BY DEF Inv
<1>1. /\ IsFiniteSet(pending) /\ IsFiniteSet(expired)
      /\ Cardinality(pending) \in Nat /\ Cardinality(expired) \in Nat
  BY <1>0, CountedSets
<1>2. /\ successes \in Nat /\ failures \in Nat /\ confirmed \in Nat /\ unseen \in Nat
      /\ tentative \in Nat /\ order \in Seq(Keys) /\ Len(order) \in Nat
  BY <1>0 DEF ReconcilerTypeOK
<1>3. /\ order' = SubSeq(order, n + 1, Len(order))
      /\ pending' = pending \ Passed(n)
      /\ age' = [k \in Keys |-> IF k \in Passed(n) THEN 0 ELSE age[k]]
      /\ expired' = expired \cup Signatures(Passed(n))
      /\ failures' = failures + Cardinality(Passed(n))
      /\ UNCHANGED <<tentative, successes, confirmed, unseen>>
  BY DEF Expire
<1>4. Passed(n) \in SUBSET pending
  BY DEF Passed
<1>5. /\ IsFiniteSet(Passed(n)) /\ Cardinality(Passed(n)) \in Nat
      /\ Cardinality(pending') \in Nat
      /\ Cardinality(pending) = Cardinality(pending') + Cardinality(Passed(n))
  BY <1>1, <1>3, <1>4, SizeOfDifference
<1>6. /\ order' \in Seq(Keys) /\ Len(order') = Len(order) - n
      /\ \A i \in 1 .. Len(order) - n : order'[i] = order[n + i]
  <2>1. \A i \in n + 1 .. Len(order) : order[i] \in Keys
    BY <1>2
  <2>2. n + 1 \in Int /\ Len(order) \in Int
    BY <1>2
  <2>3. /\ order' \in Seq(Keys)
        /\ Len(order') = IF n + 1 <= Len(order) THEN Len(order) - (n + 1) + 1 ELSE 0
        /\ \A i \in 1 .. Len(order) - (n + 1) + 1 : order'[i] = order[n + 1 + i - 1]
    BY <1>3, <2>1, <2>2, SubSeqProperties
  <2> QED BY <1>2, <2>3
<1>7. ReconcilerTypeOK'
  <2>1. 0 \in 0 .. Ttl
    BY ReconcilerAssumption DEF ReconcilerAssumption
  <2>2. age' \in [Keys -> 0 .. Ttl]
    BY <1>0, <1>3, <2>1 DEF ReconcilerTypeOK
  <2>3. pending' \subseteq Keys /\ expired' \subseteq Signed
    BY <1>0, <1>3 DEF ReconcilerTypeOK, Signatures
  <2>4. failures' \in Nat
    BY <1>2, <1>3, <1>5
  <2> QED BY <1>0, <1>3, <1>6, <2>2, <2>3, <2>4 DEF ReconcilerTypeOK
<1>8. RecordsAreQueued'
  <2> SUFFICES ASSUME NEW x \in pending' PROVE \E i \in DOMAIN order' : order'[i] = x
    BY DEF RecordsAreQueued
  <2>1. x \in pending /\ x \notin Passed(n)
    BY <1>3
  <2>2. PICK i \in DOMAIN order : order[i] = x
    BY <1>0, <2>1 DEF RecordsAreQueued
  <2>3. i \notin 1 .. n
    BY <2>1, <2>2 DEF Passed
  <2>4. i - n \in 1 .. Len(order) - n
    BY <1>2, <2>2, <2>3
  <2>5. order'[i - n] = x /\ i - n \in DOMAIN order'
    BY <1>2, <1>6, <2>2, <2>4
  <2> QED BY <2>5
<1>9. OutcomesAreDisjoint'
  BY <1>0, <1>2, <1>3, <1>5 DEF OutcomesAreDisjoint
<1>10. LateConfirmationsAreFailures'
  <2>1. Signatures(Passed(n)) \in SUBSET Passed(n)
    BY DEF Signatures
  <2>2. /\ IsFiniteSet(Signatures(Passed(n)))
        /\ Cardinality(Signatures(Passed(n))) \in Nat
        /\ Cardinality(Signatures(Passed(n))) <= Cardinality(Passed(n))
    BY <1>5, <2>1, FS_Subset, FS_CardinalityType
  <2>3. /\ Cardinality(expired') \in Nat
        /\ Cardinality(expired') <= Cardinality(expired) + Cardinality(Signatures(Passed(n)))
    BY <1>1, <1>3, <2>2, SizeOfUnion
  <2>4. Cardinality(expired) \in Nat /\ failures \in Nat /\ Cardinality(Passed(n)) \in Nat
    BY <1>1, <1>2, <1>5
  <2>5. confirmed + Cardinality(expired) <= failures /\ confirmed \in Nat
    BY <1>0, <1>2 DEF LateConfirmationsAreFailures
  <2>6. confirmed' = confirmed /\ failures' = failures + Cardinality(Passed(n))
    BY <1>3
  <2>7. confirmed' + Cardinality(expired') <= failures'
    BY <2>2, <2>3, <2>4, <2>5, <2>6
  <2> QED BY <2>7 DEF LateConfirmationsAreFailures
<1> QED BY <1>7, <1>8, <1>9, <1>10 DEF Inv

(* The initial state, and every step, keep the invariant. *)
THEOREM ReconcilerInvariance == ReconcilerSpec => []Inv
PROOF
<1>1. ReconcilerInit => Inv
  <2> SUFFICES ASSUME ReconcilerInit PROVE Inv
    OBVIOUS
  <2>1. Cardinality({}) = 0
    BY FS_EmptySet
  <2>2. ReconcilerTypeOK
    <3>1. 0 \in 0 .. Ttl /\ 0 \in 0 .. MaxTentative /\ 0 + 0 + 0 <= MaxCanonical
      BY ReconcilerAssumption DEF ReconcilerAssumption
    <3> QED BY <3>1 DEF ReconcilerInit, ReconcilerTypeOK
  <2>3. RecordsAreQueued
    BY DEF ReconcilerInit, RecordsAreQueued
  <2>4. OutcomesAreDisjoint /\ LateConfirmationsAreFailures
    BY <2>1 DEF ReconcilerInit, OutcomesAreDisjoint, LateConfirmationsAreFailures
  <2> QED BY <2>2, <2>3, <2>4 DEF Inv
<1>2. Inv /\ [ReconcilerNext]_reconcilerVars => Inv'
  <2> SUFFICES ASSUME Inv, [ReconcilerNext]_reconcilerVars PROVE Inv'
    OBVIOUS
  <2>0. /\ ReconcilerTypeOK /\ RecordsAreQueued /\ OutcomesAreDisjoint
        /\ LateConfirmationsAreFailures
    BY DEF Inv
  <2>1. ASSUME NEW k \in Keys, NEW a \in 0 .. Ttl, RecordTentative(k, a) PROVE Inv'
    BY <2>1, RecordKeepsInv
  <2>2. ASSUME NEW k \in Keys, ReconcileCanonical(k) PROVE Inv'
    BY <2>2, ReconcileKeepsInv
  <2>3. ASSUME NEW n \in 0 .. Len(order), Expire(n) PROVE Inv'
    BY <2>3, ExpireKeepsInv
  <2>4. CASE Tick
    <3>1. age' \in [Keys -> 0 .. Ttl]
      <4> SUFFICES ASSUME NEW k \in Keys
                   PROVE (IF k \in pending /\ age[k] < Ttl THEN age[k] + 1 ELSE age[k]) \in 0 .. Ttl
        BY <2>4 DEF Tick
      <4>1. age[k] \in 0 .. Ttl
        BY <2>0 DEF ReconcilerTypeOK
      <4> QED BY <4>1, ReconcilerAssumption DEF ReconcilerAssumption
    <3> QED BY <2>0, <2>4, <3>1
            DEF Tick, Inv, ReconcilerTypeOK, RecordsAreQueued, OutcomesAreDisjoint,
                LateConfirmationsAreFailures
  <2>5. CASE UNCHANGED reconcilerVars
    BY <2>0, <2>5
       DEF reconcilerVars, Inv, ReconcilerTypeOK, RecordsAreQueued, OutcomesAreDisjoint,
           LateConfirmationsAreFailures
  <2> QED BY <2>1, <2>2, <2>3, <2>4, <2>5 DEF ReconcilerNext
<1> QED BY <1>1, <1>2, PTL DEF ReconcilerSpec

(* The variables of the reconciler keep their types. *)
THEOREM ReconcilerTypesHold == ReconcilerSpec => []ReconcilerTypeOK
  BY ReconcilerInvariance, PTL DEF Inv

(* Expiry can reach every record. *)
THEOREM RecordsStayQueued == ReconcilerSpec => []RecordsAreQueued
  BY ReconcilerInvariance, PTL DEF Inv

(* No event from a shred is counted under two outcomes. *)
THEOREM OutcomesStayDisjoint == ReconcilerSpec => []OutcomesAreDisjoint
  BY ReconcilerInvariance, PTL DEF Inv

(* What is confirmed late was counted as a false positive before. *)
THEOREM LateConfirmationsFollowFailures == ReconcilerSpec => []LateConfirmationsAreFailures
  BY ReconcilerInvariance, PTL DEF Inv

-----------------------------------------------------------------------------
(* What is left of a queue after its first n places begins with the next.   *)
LEMMA RestBeginsNext ==
  ASSUME NEW K, NEW q \in Seq(K), NEW n \in Nat, n < Len(q)
  PROVE  SubSeq(q, n + 1, Len(q)) # <<>> /\ Head(SubSeq(q, n + 1, Len(q))) = q[n + 1]
PROOF
<1> DEFINE m == n + 1
           rest == SubSeq(q, m, Len(q))
<1>1. m \in 1 .. Len(q) /\ Len(q) \in m .. Len(q)
  OBVIOUS
<1>2. m \in Int /\ Len(q) \in Int /\ m <= Len(q) /\ \A j \in m .. Len(q) : q[j] \in K
  OBVIOUS
<1>3. Len(q) - m + 1 # 0
  BY <1>2
<1> HIDE DEF m
<1>4. Len(rest) = IF m <= Len(q) THEN Len(q) - m + 1 ELSE 0
  BY <1>2, SubSeqProperties, Zenon
<1>5. Len(rest) = Len(q) - m + 1
  BY <1>2, <1>4, Zenon
<1>6. Head(rest) = q[m]
  BY <1>1, HeadTailOfSubSeq, Zenon
<1> HIDE DEF rest
<1>7. rest # <<>>
  BY <1>3, <1>5
<1> QED
  BY <1>6, <1>7 DEF rest, m

(* An expiry that leaves a record leaves it behind a young one: the place   *)
(* where it stopped, which is now the head of the queue.                    *)
LEMMA ExpiryStopsAtYoung ==
  ASSUME ReconcilerTypeOK, RecordsAreQueued, NEW n \in 0 .. Len(order), Expire(n),
         NEW k \in pending'
  PROVE  order' # <<>> /\ Head(order') \in pending' /\ age'[Head(order')] < Ttl
PROOF
<1> DEFINE h == order[n + 1]
<1>0. /\ order \in Seq(Keys) /\ DOMAIN order = 1 .. Len(order) /\ Len(order) \in Nat
      /\ pending \subseteq Keys
  BY DEF ReconcilerTypeOK
<1>1. /\ pending' = pending \ Passed(n)
      /\ order' = SubSeq(order, n + 1, Len(order))
      /\ age' = [x \in Keys |-> IF x \in Passed(n) THEN 0 ELSE age[x]]
      /\ \A i \in 1 .. n : ~Young(order[i])
      /\ n < Len(order) => Young(h)
  BY DEF Expire, Stops
<1>2. PICK i \in DOMAIN order : order[i] = k
  BY <1>1 DEF RecordsAreQueued
<1>3. i \notin 1 .. n
  BY <1>1, <1>2 DEF Passed
<1>4. n < Len(order)
  BY <1>0, <1>3
<1>5. h \in pending /\ age[h] < Ttl
  BY <1>1, <1>4 DEF Young
<1>6. h \notin Passed(n)
  BY <1>1, <1>5 DEF Passed, Young
<1>7. h \in pending' /\ age'[h] < Ttl
  BY <1>0, <1>1, <1>5, <1>6
<1>8. order' # <<>> /\ Head(order') = h
  <2>1. SubSeq(order, n + 1, Len(order)) # <<>> /\ Head(SubSeq(order, n + 1, Len(order))) = h
    BY <1>0, <1>4, RestBeginsNext
  <2> QED
    BY <1>1, <2>1
<1> QED
  BY <1>7, <1>8

(* A record outlives its time only behind a younger one. *)
THEOREM OverdueStaysShielded == ReconcilerSpec => OverdueIsShielded
PROOF
<1> DEFINE Shielded ==
      (\E n \in 0 .. Len(order) : Expire(n)) =>
        \A k \in pending' : age'[k] = Ttl =>
          order' # <<>> /\ Head(order') \in pending' /\ age'[Head(order')] < Ttl
<1>1. Inv => Shielded
  <2> SUFFICES ASSUME Inv, NEW n \in 0 .. Len(order), Expire(n), NEW k \in pending'
               PROVE  order' # <<>> /\ Head(order') \in pending' /\ age'[Head(order')] < Ttl
    OBVIOUS
  <2> QED
    BY ExpiryStopsAtYoung DEF Inv
<1>2. ReconcilerSpec => [][Shielded]_reconcilerVars
  <2>1. Inv /\ [ReconcilerNext]_reconcilerVars => [Shielded]_reconcilerVars
    BY <1>1
  <2> HIDE DEF Shielded
  <2> QED
    BY <2>1, ReconcilerInvariance, PTL DEF ReconcilerSpec
<1> QED
  BY <1>2 DEF OverdueIsShielded
=============================================================================
