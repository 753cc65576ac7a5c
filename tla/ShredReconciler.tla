-------------------------- MODULE ShredReconciler ---------------------------
(***************************************************************************)
(* ShredReconciler (crates/ingest-shred/src/lib.rs): the events guessed    *)
(* from shreds wait under a key for a canonical event with the same key,   *)
(* and are counted as false positives when none comes within the ttl.      *)
(*                                                                         *)
(* A key is the signature of the transaction or, without one, its slot and *)
(* kind.  Wall time is kept as the age of each record, capped at the ttl:  *)
(* nothing tells older records apart.                                      *)
(***************************************************************************)
EXTENDS Integers, Sequences, FiniteSets

CONSTANTS
  Keys,          \* reconciliation keys
  Signed,        \* those that hold a signature
  Ttl,           \* ReconciliationConfig.ttl, in ticks
  MaxTentative,  \* bound on the tentative events
  MaxCanonical   \* bound on the canonical events

ASSUME ReconcilerAssumption ==
  /\ IsFiniteSet(Keys) /\ Signed \subseteq Keys
  /\ Ttl \in Nat /\ MaxTentative \in Nat /\ MaxCanonical \in Nat

VARIABLES
  pending,    \* the keys of `records`
  age,        \* time since inserted_at of each record, 0 for a key without one
  order,      \* order: keys in the order they were recorded
  expired,    \* expired_signatures
  tentative,  \* events_tentative_total
  successes,  \* reconciliation_success_total
  failures,   \* reconciliation_failure_total, which is false_positive_tentative_total
  confirmed,  \* missing_later_confirmed_total
  unseen      \* geyser_without_shred_total

reconcilerVars ==
  <<pending, age, order, expired, tentative, successes, failures, confirmed, unseen>>

ReconcilerInit ==
  /\ pending = {} /\ age = [k \in Keys |-> 0]
  /\ order = <<>> /\ expired = {}
  /\ tentative = 0 /\ successes = 0 /\ failures = 0 /\ confirmed = 0 /\ unseen = 0

-----------------------------------------------------------------------------
(* Slip: a key that has expired once is not queued again. *)
RecordTentativeUnqueued(k, a) ==
  /\ tentative < MaxTentative
  /\ pending' = pending \cup {k}
  /\ age' = [age EXCEPT ![k] = a]
  /\ order' = IF k \in expired THEN order ELSE Append(order, k)
  /\ tentative' = tentative + 1
  /\ UNCHANGED <<expired, successes, failures, confirmed, unseen>>

(* record_tentative, in process_packet: a record of the same key is       *)
(* replaced, and the key is queued once more.  The packet was received    *)
(* `a` ago.                                                               *)
RecordTentative(k, a) ==
  /\ tentative < MaxTentative
  /\ pending' = pending \cup {k}
  /\ age' = [age EXCEPT ![k] = a]
  /\ order' = Append(order, k)
  /\ tentative' = tentative + 1
  /\ UNCHANGED <<expired, successes, failures, confirmed, unseen>>

(* Slip: the signature of a late confirmation is not forgotten. *)
ReconcileCanonicalKeeps(k) ==
  /\ successes + confirmed + unseen < MaxCanonical
  /\ IF k \in pending
     THEN /\ pending' = pending \ {k} /\ age' = [age EXCEPT ![k] = 0]
          /\ successes' = successes + 1
          /\ UNCHANGED <<confirmed, unseen>>
     ELSE /\ confirmed' = IF k \in expired THEN confirmed + 1 ELSE confirmed
          /\ unseen' = IF k \in Signed \ expired THEN unseen + 1 ELSE unseen
          /\ UNCHANGED <<pending, age, successes>>
  /\ UNCHANGED <<order, expired, tentative, failures>>

(* Slip: the record stays after its confirmation. *)
ReconcileCanonicalStays(k) ==
  /\ successes + confirmed + unseen < MaxCanonical
  /\ IF k \in pending
     THEN /\ successes' = successes + 1
          /\ UNCHANGED <<pending, age, expired, confirmed, unseen>>
     ELSE /\ expired' = expired \ {k}
          /\ confirmed' = IF k \in expired THEN confirmed + 1 ELSE confirmed
          /\ unseen' = IF k \in Signed \ expired THEN unseen + 1 ELSE unseen
          /\ UNCHANGED <<pending, age, successes>>
  /\ UNCHANGED <<order, tentative, failures>>

(* reconcile_canonical; the place in the queue stays. *)
ReconcileCanonical(k) ==
  /\ successes + confirmed + unseen < MaxCanonical
  /\ IF k \in pending
     THEN /\ pending' = pending \ {k} /\ age' = [age EXCEPT ![k] = 0]
          /\ successes' = successes + 1
          /\ UNCHANGED <<expired, confirmed, unseen>>
     ELSE /\ expired' = expired \ {k}
          /\ confirmed' = IF k \in expired THEN confirmed + 1 ELSE confirmed
          /\ unseen' = IF k \in Signed \ expired THEN unseen + 1 ELSE unseen
          /\ UNCHANGED <<pending, age, successes>>
  /\ UNCHANGED <<order, tentative, failures>>

Young(k) == k \in pending /\ age[k] < Ttl

(* Slip: expiry stops at a place whose record is gone, too. *)
StopsGone(i) == Young(order[i]) \/ order[i] \notin pending

(* Expiry stops at the first place whose record is young; a place whose    *)
(* record is gone is passed over.                                          *)
Stops(i) == Young(order[i])

(* What is kept of the records that expire: their signatures. *)
Signatures(passed) == passed \cap Signed

(* The records taken out with the first n places of the queue. *)
Passed(n) == {order[i] : i \in 1 .. n} \cap pending

(* expire, when it takes n places off the head of the queue *)
Expire(n) ==
  /\ n \in 0 .. Len(order)
  /\ \A i \in 1 .. n : ~Stops(i)
  /\ n < Len(order) => Stops(n + 1)
  /\ order' = SubSeq(order, n + 1, Len(order))
  /\ pending' = pending \ Passed(n)
  /\ age' = [k \in Keys |-> IF k \in Passed(n) THEN 0 ELSE age[k]]
  /\ expired' = expired \cup Signatures(Passed(n))
  /\ failures' = failures + Cardinality(Passed(n))
  /\ UNCHANGED <<tentative, successes, confirmed, unseen>>

(* Time passes. *)
Tick ==
  /\ age' = [k \in Keys |-> IF k \in pending /\ age[k] < Ttl THEN age[k] + 1 ELSE age[k]]
  /\ UNCHANGED <<pending, order, expired, tentative, successes, failures, confirmed, unseen>>

ReconcilerNext ==
  \/ \E k \in Keys, a \in 0 .. Ttl : RecordTentative(k, a)
  \/ \E k \in Keys : ReconcileCanonical(k)
  \/ \E n \in 0 .. Len(order) : Expire(n)
  \/ Tick

(* Time passes, and drain_pipeline calls expire each time it runs dry. *)
ReconcilerFairness ==
  WF_reconcilerVars(\E n \in 0 .. Len(order) : Expire(n)) /\ WF_reconcilerVars(Tick)

ReconcilerSpec == ReconcilerInit /\ [][ReconcilerNext]_reconcilerVars

FairReconcilerSpec == ReconcilerSpec /\ ReconcilerFairness

-----------------------------------------------------------------------------
(* Every variable holds what the program can hold. *)
ReconcilerTypeOK ==
  /\ pending \subseteq Keys /\ age \in [Keys -> 0 .. Ttl]
  /\ order \in Seq(Keys)
  /\ expired \subseteq Signed
  /\ tentative \in 0 .. MaxTentative
  /\ successes \in Nat /\ failures \in Nat /\ confirmed \in Nat /\ unseen \in Nat
  /\ successes + confirmed + unseen <= MaxCanonical

(* Every record has a place in the queue, so that expiry can reach it, however *)
(* often its key came, expired and came again.                                 *)
RecordsAreQueued == \A k \in pending : \E i \in DOMAIN order : order[i] = k

(* The counters never claim more than came in: an event from a shred is a      *)
(* success, a false positive or still open, and never two of these (it is none *)
(* when a later event took over its key).                                      *)
OutcomesAreDisjoint == successes + failures + Cardinality(pending) <= tentative

(* A late confirmation answers a false positive of its own: what was confirmed *)
(* late, and what may still be, is covered by what expired.                    *)
LateConfirmationsAreFailures == confirmed + Cardinality(expired) <= failures

(* From some time on no key is recorded that still has a place in the queue.   *)
(* Nothing in the program sees to that: the unsigned events of one slot and    *)
(* kind share a key, and each of them makes its record young again.            *)
RepeatsEnd ==
  <>[][\A k \in Keys : order' = Append(order, k) => \A i \in DOMAIN order : order[i] # k]_reconcilerVars

(* A record settles, by a confirmation or by its expiry, once the keys in the  *)
(* queue are no longer recorded again: the younger records before it age, and  *)
(* the places whose record is gone are passed over.  While a key at the head   *)
(* comes again and again those behind it stay (OverdueIsShielded).             *)
RecordsSettle == RepeatsEnd => \A k \in Keys : k \in pending ~> k \notin pending

(* A record outlives its time only behind a younger one: after an expiry the   *)
(* head of the queue is a young record, or no record is overdue.               *)
OverdueIsShielded ==
  [][(\E n \in 0 .. Len(order) : Expire(n)) =>
        \A k \in pending' : age'[k] = Ttl =>
          order' # <<>> /\ Head(order') \in pending' /\ age'[Head(order')] < Ttl]_reconcilerVars
=============================================================================
