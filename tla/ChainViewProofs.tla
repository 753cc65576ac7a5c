--------------------------- MODULE ChainViewProofs --------------------------
(***************************************************************************)
(* The filter of the Geyser stream, the holders and the curve, for every   *)
(* capacity of the Deduplicator, every chain and every order of delivery.  *)
(*                                                                         *)
(* The filter: the queue holds the last messages that passed, Capacity of  *)
(* them once there are as many, and no two are the same.  A message that   *)
(* passed before and is not in the queue any more therefore lies behind    *)
(* Capacity different ones; and a write of the curve that passed is no     *)
(* newer than what write_versions remembers of its slot.                   *)
(*                                                                         *)
(* The holders: what passed was applied, and a stream without a gap has    *)
(* delivered a prefix of the chain.                                        *)
(*                                                                         *)
(* The curve: what the curve account becomes when the waiting writes are   *)
(* applied is the newest delivered write at all times.                     *)
(***************************************************************************)
EXTENDS ChainView, FoldLemmas, TLAPS

Messages == [kind : {"tx", "curve"}, slot : Nat, n : Nat]

Post == [Accounts -> [owner : Owners, balance : Int]]

Transactions ==
  [slot : Nat, touched : SUBSET Accounts, trader : SUBSET Owners, post : Post]

LedgerTypeOK ==
  /\ ledger \in Seq(Transactions)
  /\ Len(ledger) > 0

FilterTypeOK ==
  /\ queue \in Seq(Messages)
  /\ passed \in Seq(Messages)
  /\ DOMAIN versions \subseteq Nat
  /\ \A s \in DOMAIN versions : versions[s] \in Nat

(* The queue is the tail of what passed, of Capacity messages at most. *)
QueueIsTail ==
  /\ Len(queue) <= Len(passed)
  /\ Len(queue) <= Capacity
  /\ Len(queue) < Capacity => Len(queue) = Len(passed)
  /\ \A k \in 1 .. Len(queue) : queue[k] = passed[Len(passed) - Len(queue) + k]

QueueIsDistinct ==
  \A k, l \in 1 .. Len(queue) : queue[k] = queue[l] => k = l

(* write_versions covers every write of the curve that passed. *)
WritesAreRemembered ==
  \A i \in 1 .. Len(passed) :
    passed[i].kind = "curve" =>
      /\ passed[i].slot \in DOMAIN versions
      /\ passed[i].n <= versions[passed[i].slot]

FilterInv ==
  /\ LedgerTypeOK
  /\ FilterTypeOK
  /\ QueueIsTail
  /\ QueueIsDistinct
  /\ WritesAreRemembered
  /\ RepeatsNeedAFlood

-----------------------------------------------------------------------------
(* The Deduplicator keeps the shape of its queue. *)
LEMMA QueueKeepsShape ==
  ASSUME FilterTypeOK, QueueIsTail, QueueIsDistinct, Capacity \in Nat,
         NEW key \in Messages, ~Seen(key), Pass(key)
  PROVE  /\ queue' \in Seq(Messages)
         /\ passed' \in Seq(Messages)
         /\ QueueIsTail'
         /\ QueueIsDistinct'
PROOF
<1> DEFINE q == Append(queue, key)
<1>1. /\ q \in Seq(Messages)
      /\ Len(q) = Len(queue) + 1
      /\ \A k \in 1 .. Len(queue) : q[k] = queue[k]
      /\ q[Len(queue) + 1] = key
  BY DEF FilterTypeOK
<1>2. /\ passed' \in Seq(Messages)
      /\ Len(passed') = Len(passed) + 1
      /\ \A k \in 1 .. Len(passed) : passed'[k] = passed[k]
      /\ passed'[Len(passed) + 1] = key
  BY DEF FilterTypeOK, Pass
<1>3. Len(queue) \in Nat /\ Len(passed) \in Nat
  BY DEF FilterTypeOK
<1>4. \A k, l \in 1 .. Len(q) : q[k] = q[l] => k = l
  BY <1>1, <1>3 DEF QueueIsDistinct, Seen
<1>5. \A k \in 1 .. Len(q) : q[k] = passed'[Len(passed') - Len(q) + k]
  <2> SUFFICES ASSUME NEW k \in 1 .. Len(q)
               PROVE  q[k] = passed'[Len(passed') - Len(q) + k]
    OBVIOUS
  <2>1. CASE k = Len(queue) + 1
    BY <2>1, <1>1, <1>2, <1>3
  <2>2. CASE k \in 1 .. Len(queue)
    <3>1. /\ Len(passed') - Len(q) + k = Len(passed) - Len(queue) + k
          /\ Len(passed) - Len(queue) + k \in 1 .. Len(passed)
      BY <2>2, <1>1, <1>2, <1>3 DEF QueueIsTail
    <3> QED
      BY <2>2, <3>1, <1>1, <1>2 DEF QueueIsTail
  <2> QED
    BY <2>1, <2>2, <1>1, <1>3
<1>6. CASE Len(q) > Capacity
  <2>1. queue' = Tail(q)
    BY <1>6 DEF Pass, Remembered
  <2>2. /\ queue' \in Seq(Messages)
        /\ Len(queue') = Len(q) - 1
        /\ \A k \in 1 .. Len(queue') : queue'[k] = q[k + 1]
    BY <2>1, <1>1, <1>3
  <2>3. Len(queue') = Capacity
    BY <1>6, <2>2, <1>1, <1>3 DEF QueueIsTail
  <2>4. \A k \in 1 .. Len(queue') : queue'[k] = passed'[Len(passed') - Len(queue') + k]
    <3> SUFFICES ASSUME NEW k \in 1 .. Len(queue')
                 PROVE  queue'[k] = passed'[Len(passed') - Len(queue') + k]
      OBVIOUS
    <3>1. k + 1 \in 1 .. Len(q)
      BY <2>2, <1>1, <1>3
    <3>2. Len(passed') - Len(q) + (k + 1) = Len(passed') - Len(queue') + k
      BY <2>2, <1>1, <1>2, <1>3
    <3> QED
      BY <3>1, <3>2, <2>2, <1>5
  <2>5. QueueIsTail'
    <3>1. Len(queue') <= Len(passed') /\ Len(queue') <= Capacity /\ ~(Len(queue') < Capacity)
      BY <2>3, <1>2, <1>3, <2>2, <1>1 DEF QueueIsTail
    <3> QED
      BY <3>1, <2>4 DEF QueueIsTail
  <2>6. QueueIsDistinct'
    BY <2>2, <1>4, <1>1, <1>3, SMTT(30) DEF QueueIsDistinct
  <2> QED
    BY <2>2, <2>5, <2>6, <1>2
<1>7. CASE ~(Len(q) > Capacity)
  <2>1. queue' = q
    BY <1>7 DEF Pass, Remembered
  <2>2. QueueIsTail'
    <3>1. Len(queue') <= Len(passed') /\ Len(queue') <= Capacity
      BY <2>1, <1>7, <1>1, <1>2, <1>3 DEF QueueIsTail
    <3>2. Len(queue') < Capacity => Len(queue') = Len(passed')
      BY <2>1, <1>7, <1>1, <1>2, <1>3 DEF QueueIsTail
    <3>3. \A k \in 1 .. Len(queue') : queue'[k] = passed'[Len(passed') - Len(queue') + k]
      BY <2>1, <1>5
    <3> QED
      BY <3>1, <3>2, <3>3 DEF QueueIsTail
  <2>3. QueueIsDistinct'
    BY <2>1, <1>4 DEF QueueIsDistinct
  <2> QED
    BY <2>1, <2>2, <2>3, <1>1, <1>2
<1> QED
  BY <1>6, <1>7

(* What passes again lies behind Capacity different messages. *)
LEMMA ForgottenBehindAFlood ==
  ASSUME FilterTypeOK, QueueIsTail, QueueIsDistinct, Capacity \in Nat,
         NEW key, ~Seen(key), NEW i \in 1 .. Len(passed), passed[i] = key
  PROVE  Cardinality({passed[k] : k \in i + 1 .. Len(passed)}) >= Capacity
PROOF
<1> DEFINE S == {passed[k] : k \in i + 1 .. Len(passed)}
           T == {queue[k] : k \in 1 .. Len(queue)}
           f == [k \in i + 1 .. Len(passed) |-> passed[k]]
           g == [k \in 1 .. Len(queue) |-> queue[k]]
<1>1. Len(queue) \in Nat /\ Len(passed) \in Nat
  BY DEF FilterTypeOK
<1>2. i <= Len(passed) - Len(queue)
  <2> DEFINE k == i - (Len(passed) - Len(queue))
  <2>1. SUFFICES ASSUME i > Len(passed) - Len(queue) PROVE FALSE
    BY <1>1
  <2>2. k \in 1 .. Len(queue)
    BY <2>1, <1>1
  <2>3. queue[k] = passed[i]
    <3>1. Len(passed) - Len(queue) + k = i
      BY <1>1
    <3> HIDE DEF k
    <3> QED
      BY <2>2, <3>1 DEF QueueIsTail
  <2>4. DOMAIN queue = 1 .. Len(queue)
    BY DEF FilterTypeOK
  <2> QED
    BY <2>2, <2>3, <2>4 DEF Seen
<1>3. Len(queue) = Capacity
  BY <1>1, <1>2 DEF QueueIsTail
<1>4. IsFiniteSet(i + 1 .. Len(passed)) /\ IsFiniteSet(1 .. Len(queue))
  BY <1>1, FS_Interval
<1>5. f \in Surjection(i + 1 .. Len(passed), S)
  BY DEF Surjection
<1>6. IsFiniteSet(S)
  BY <1>4, <1>5, FS_Surjection
<1>7. g \in Surjection(1 .. Len(queue), T) /\ g \in Injection(1 .. Len(queue), T)
  BY DEF Surjection, Injection, IsInjective, QueueIsDistinct
<1>8. Cardinality(T) = Cardinality(1 .. Len(queue))
  BY <1>4, <1>7, FS_Surjection
<1>9. Cardinality(1 .. Len(queue)) = Capacity
  BY <1>1, <1>3, FS_Interval
<1>10. T \subseteq S
  <2> SUFFICES ASSUME NEW k \in 1 .. Len(queue) PROVE queue[k] \in S
    OBVIOUS
  <2>1. Len(passed) - Len(queue) + k \in i + 1 .. Len(passed)
    BY <1>1, <1>2
  <2> QED
    BY <2>1 DEF QueueIsTail
<1>11. Cardinality(T) <= Cardinality(S)
  BY <1>6, <1>10, FS_Subset
<1> HIDE DEF S, T
<1>12. Cardinality(S) \in Nat
  BY <1>6, FS_CardinalityType
<1>13. Cardinality(S) >= Capacity
  BY <1>8, <1>9, <1>11, <1>12
<1> QED
  BY <1>13 DEF S

(* The Deduplicator keeps RepeatsNeedAFlood when what passes again is a    *)
(* transaction.                                                            *)
LEMMA PassKeepsFlood ==
  ASSUME FilterTypeOK, QueueIsTail, QueueIsDistinct, RepeatsNeedAFlood,
         Capacity \in Nat,
         NEW key \in Messages, ~Seen(key), Pass(key),
         \A i \in 1 .. Len(passed) : passed[i] = key => key.kind = "tx"
  PROVE  RepeatsNeedAFlood'
PROOF
<1>1. /\ passed' \in Seq(Messages)
      /\ Len(passed') = Len(passed) + 1
      /\ \A k \in 1 .. Len(passed) : passed'[k] = passed[k]
      /\ passed'[Len(passed) + 1] = key
      /\ Len(passed) \in Nat
  BY DEF FilterTypeOK, Pass
<1>2. SUFFICES ASSUME NEW i \in 1 .. Len(passed'), NEW j \in 1 .. Len(passed'),
                      i < j, passed'[i] = passed'[j]
               PROVE  /\ passed'[i].kind = "tx"
                      /\ Cardinality({passed'[k] : k \in i + 1 .. j - 1}) >= Capacity
  BY DEF RepeatsNeedAFlood
<1>3. i \in 1 .. Len(passed) /\ passed'[i] = passed[i]
  BY <1>1, <1>2
<1>4. {passed'[k] : k \in i + 1 .. j - 1} = {passed[k] : k \in i + 1 .. j - 1}
  <2>1. \A k \in i + 1 .. j - 1 : passed'[k] = passed[k]
    BY <1>1, <1>2, <1>3
  <2> QED
    BY <2>1
<1>5. CASE j \in 1 .. Len(passed)
  BY <1>1, <1>2, <1>3, <1>4, <1>5 DEF RepeatsNeedAFlood
<1>6. CASE j = Len(passed) + 1
  <2>1. passed[i] = key
    BY <1>1, <1>2, <1>3, <1>6
  <2>2. Cardinality({passed[k] : k \in i + 1 .. Len(passed)}) >= Capacity
    BY <2>1, <1>3, ForgottenBehindAFlood
  <2>3. j - 1 = Len(passed)
    BY <1>1, <1>6
  <2>4. Cardinality({passed[k] : k \in i + 1 .. j - 1}) >= Capacity
    BY <2>2, <2>3
  <2> QED
    BY <2>1, <2>4, <1>3, <1>4
<1> QED
  BY <1>1, <1>2, <1>5, <1>6

(* What the queue and the passed messages determine. *)
LEMMA UnchangedQueue ==
  ASSUME FilterTypeOK, QueueIsTail, QueueIsDistinct, RepeatsNeedAFlood,
         UNCHANGED <<queue, passed>>
  PROVE  /\ queue' \in Seq(Messages) /\ passed' \in Seq(Messages)
         /\ QueueIsTail' /\ QueueIsDistinct' /\ RepeatsNeedAFlood'
PROOF
<1>1. queue' = queue /\ passed' = passed
  OBVIOUS
<1>2. QueueIsTail' /\ QueueIsDistinct'
  BY <1>1 DEF QueueIsTail, QueueIsDistinct
<1>3. RepeatsNeedAFlood'
  <2> SUFFICES ASSUME NEW i \in 1 .. Len(passed'), NEW j \in 1 .. Len(passed'),
                      i < j, passed'[i] = passed'[j]
               PROVE  /\ passed'[i].kind = "tx"
                      /\ Cardinality({passed'[k] : k \in i + 1 .. j - 1}) >= Capacity
    BY DEF RepeatsNeedAFlood
  <2>1. {passed'[k] : k \in i + 1 .. j - 1} = {passed[k] : k \in i + 1 .. j - 1}
    BY <1>1
  <2>2. /\ passed[i].kind = "tx"
        /\ Cardinality({passed[k] : k \in i + 1 .. j - 1}) >= Capacity
    BY <1>1 DEF RepeatsNeedAFlood
  <2> QED
    BY <1>1, <2>1, <2>2
<1> QED
  BY <1>1, <1>2, <1>3 DEF FilterTypeOK

(* A transaction of the chain. *)
LEMMA LedgerIsTyped ==
  ASSUME LedgerTypeOK
  PROVE  /\ Len(ledger) \in 1 .. Len(ledger)
         /\ \A n \in 1 .. Len(ledger) :
              n \in Nat /\ ledger[n].slot \in Nat /\ ledger[n].post \in Post
PROOF
<1>1. Len(ledger) \in 1 .. Len(ledger)
  BY DEF LedgerTypeOK
<1>2. \A n \in 1 .. Len(ledger) : n \in Nat /\ ledger[n] \in Transactions
  BY DEF LedgerTypeOK
<1>3. \A t \in Transactions : t.slot \in Nat /\ t.post \in Post
  BY DEF Transactions
<1> QED
  BY <1>1, <1>2, <1>3

(* A message of the chain. *)
LEMMA MessagesAreTyped ==
  ASSUME LedgerTypeOK, NEW n \in 1 .. Len(ledger)
  PROVE  Message("tx", n) \in Messages /\ Message("curve", n) \in Messages
  BY LedgerIsTyped DEF Message, Messages

-----------------------------------------------------------------------------
(* The chain goes on: only the ledger changes. *)
LEMMA ExecuteKeepsInv ==
  ASSUME FilterInv, MaxSlot \in Nat,
         NEW touched \in SUBSET Accounts, NEW trader \in SUBSET Owners,
         NEW post \in Post, Execute(touched, trader, post)
  PROVE  FilterInv'
PROOF
<1>1. LedgerTypeOK'
  <2>1. PICK s \in ledger[Len(ledger)].slot .. MaxSlot :
          ledger' = Append(ledger, [slot |-> s, touched |-> touched,
                                    trader |-> trader, post |-> post])
    BY DEF Execute
  <2>2. ledger[Len(ledger)].slot \in Nat
    BY LedgerIsTyped DEF FilterInv
  <2>3. s \in Nat
    BY <2>1, <2>2
  <2> QED
    BY <2>1, <2>3 DEF FilterInv, LedgerTypeOK, Transactions
<1>2. UNCHANGED <<queue, passed, versions>>
  BY DEF Execute, filterVars
<1>3. WritesAreRemembered'
  BY <1>2 DEF FilterInv, WritesAreRemembered
<1>4. FilterTypeOK'
  BY <1>2 DEF FilterInv, FilterTypeOK
<1> QED
  BY <1>1, <1>2, <1>3, <1>4, UnchangedQueue DEF FilterInv

LEMMA TransferKeepsInv ==
  ASSUME FilterInv, MaxSlot \in Nat, Program \in Owners,
         NEW from \in Accounts, NEW to \in Accounts, Transfer(from, to)
  PROVE  FilterInv'
PROOF
<1>1. Held \in Post
  BY LedgerIsTyped DEF FilterInv, Held
<1>2. PICK o \in Owners \ {Program} :
        LET owner == IF to = Vault \/ Held[to].balance > 0 THEN Held[to].owner ELSE o
            traders == CASE from = Vault -> {owner}
                         [] to = Vault -> {Held[from].owner}
                         [] OTHER -> {}
        IN Execute({from, to}, traders,
             [Held EXCEPT ![from].balance = @ - 1,
                          ![to] = [owner |-> owner, balance |-> @.balance + 1]])
  BY DEF Transfer
<1> DEFINE owner == IF to = Vault \/ Held[to].balance > 0 THEN Held[to].owner ELSE o
           traders == CASE from = Vault -> {owner}
                        [] to = Vault -> {Held[from].owner}
                        [] OTHER -> {}
           post == [Held EXCEPT ![from].balance = @ - 1,
                                ![to] = [owner |-> owner, balance |-> @.balance + 1]]
<1>3. owner \in Owners /\ Held[from].owner \in Owners
  BY <1>1 DEF Post
<1>4. traders \in SUBSET Owners
  BY <1>3
<1>5. post \in Post
  BY <1>1, <1>3 DEF Post
<1>6. Execute({from, to}, traders, post)
  BY <1>2
<1> HIDE DEF owner, traders, post
<1> QED
  BY <1>4, <1>5, <1>6, ExecuteKeepsInv

LEMMA AssignKeepsInv ==
  ASSUME FilterInv, MaxSlot \in Nat,
         NEW a \in Accounts, NEW o \in Owners, Assign(a, o)
  PROVE  FilterInv'
PROOF
<1>1. Held \in Post
  BY LedgerIsTyped DEF FilterInv, Held
<1>2. [Held EXCEPT ![a].owner = o] \in Post
  BY <1>1 DEF Post
<1>3. Execute({a}, {}, [Held EXCEPT ![a].owner = o])
  BY DEF Assign
<1> QED
  BY <1>2, <1>3, ExecuteKeepsInv

(* A transaction arrives. *)
LEMMA HearTransactionKeepsInv ==
  ASSUME FilterInv, Capacity \in Nat,
         NEW n \in 1 .. Len(ledger), HearTransaction(n)
  PROVE  FilterInv'
PROOF
<1> DEFINE m == Message("tx", n)
<1>1. m \in Messages /\ m.kind = "tx"
  BY MessagesAreTyped DEF FilterInv, Message
<1>2. ledger' = ledger /\ versions' = versions
  BY DEF HearTransaction, chainVars
<1>3. LedgerTypeOK'
  BY <1>2 DEF FilterInv, LedgerTypeOK
<1>4. CASE Seen(m)
  <2>1. queue' = queue /\ passed' = passed
    BY <1>4 DEF HearTransaction
  <2>2. WritesAreRemembered' /\ FilterTypeOK'
    BY <2>1, <1>2 DEF FilterInv, FilterTypeOK, WritesAreRemembered
  <2> QED
    BY <2>1, <2>2, <1>3, UnchangedQueue DEF FilterInv
<1>5. CASE ~Seen(m)
  <2>1. Pass(m)
    BY <1>5 DEF HearTransaction
  <2> HIDE DEF m
  <2>2. /\ queue' \in Seq(Messages) /\ passed' \in Seq(Messages)
        /\ QueueIsTail' /\ QueueIsDistinct'
    BY <2>1, <1>1, <1>5, QueueKeepsShape DEF FilterInv
  <2>3. RepeatsNeedAFlood'
    BY <2>1, <1>1, <1>5, PassKeepsFlood DEF FilterInv
  <2>4. WritesAreRemembered'
    BY <2>1, <1>1, <1>2 DEF Pass, FilterInv, FilterTypeOK, WritesAreRemembered
  <2> QED
    BY <2>2, <2>3, <2>4, <1>2, <1>3 DEF FilterInv, FilterTypeOK
<1> QED
  BY <1>4, <1>5

(* A write of the curve arrives: one that passed before is not newer. *)
LEMMA HearWriteKeepsInv ==
  ASSUME FilterInv, Capacity \in Nat,
         NEW n \in 1 .. Len(ledger), HearWrite(n)
  PROVE  FilterInv'
PROOF
<1> DEFINE m == Message("curve", n)
<1>1. m \in Messages /\ m.kind = "curve" /\ m.n = n /\ m.slot \in Nat /\ n \in Nat
  BY MessagesAreTyped, LedgerIsTyped DEF FilterInv, Message, Messages
<1>2. ledger' = ledger
  BY DEF HearWrite, chainVars
<1>3. LedgerTypeOK'
  BY <1>2 DEF FilterInv, LedgerTypeOK
<1>4. CASE ~NewerWrite(m)
  <2>1. queue' = queue /\ passed' = passed /\ versions' = versions
    BY <1>4 DEF HearWrite, filterVars
  <2>2. WritesAreRemembered' /\ FilterTypeOK'
    BY <2>1 DEF FilterInv, FilterTypeOK, WritesAreRemembered
  <2> QED
    BY <2>1, <2>2, <1>3, UnchangedQueue DEF FilterInv
<1>5. CASE NewerWrite(m)
  <2>1. versions' = [s \in DOMAIN versions \cup {m.slot} |->
                       IF s = m.slot THEN n ELSE versions[s]]
    BY <1>5 DEF HearWrite
  <2>2. /\ DOMAIN versions' \subseteq Nat
        /\ \A s \in DOMAIN versions' : versions'[s] \in Nat
    BY <2>1, <1>1 DEF FilterInv, FilterTypeOK
  <2>3. \A i \in 1 .. Len(passed) :
          passed[i].kind = "curve" =>
            /\ passed[i].slot \in DOMAIN versions'
            /\ passed[i].n <= versions'[passed[i].slot]
    <3> SUFFICES ASSUME NEW i \in 1 .. Len(passed), passed[i].kind = "curve"
                 PROVE  /\ passed[i].slot \in DOMAIN versions'
                        /\ passed[i].n <= versions'[passed[i].slot]
      OBVIOUS
    <3>1. passed[i] \in Messages
      BY DEF FilterInv, FilterTypeOK
    <3>4. /\ passed[i].slot \in DOMAIN versions
          /\ passed[i].n <= versions[passed[i].slot]
      BY DEF FilterInv, WritesAreRemembered
    <3>5. passed[i].n \in Nat /\ versions[passed[i].slot] \in Nat
      BY <3>1, <3>4 DEF FilterInv, FilterTypeOK, Messages
    <3>2. CASE passed[i].slot = m.slot
      <4>1. n > versions[m.slot]
        BY <3>4, <3>2, <1>1, <1>5 DEF NewerWrite
      <4> HIDE DEF m
      <4>2. versions'[m.slot] = n
        BY <2>1
      <4> QED
        BY <3>4, <3>5, <3>2, <4>1, <4>2, <2>1, <1>1
    <3>3. CASE passed[i].slot # m.slot
      <4> HIDE DEF m
      <4> QED
        BY <3>4, <3>5, <3>3, <2>1
    <3> QED
      BY <3>2, <3>3
  <2>4. CASE Seen(m)
    <3>1. queue' = queue /\ passed' = passed
      BY <1>5, <2>4 DEF HearWrite
    <3>2. WritesAreRemembered'
      BY <3>1, <2>3 DEF WritesAreRemembered
    <3>3. FilterTypeOK'
      BY <3>1, <2>2 DEF FilterInv, FilterTypeOK
    <3> QED
      BY <3>1, <3>2, <3>3, <1>3, UnchangedQueue DEF FilterInv
  <2>5. CASE ~Seen(m)
    <3>1. Pass(m)
      BY <1>5, <2>5 DEF HearWrite
    <3>2. \A i \in 1 .. Len(passed) : passed[i] # m
      BY <1>1, <1>5
         DEF NewerWrite, FilterInv, FilterTypeOK, WritesAreRemembered
    <3> HIDE DEF m
    <3>3. /\ queue' \in Seq(Messages) /\ passed' \in Seq(Messages)
          /\ QueueIsTail' /\ QueueIsDistinct'
      BY <3>1, <1>1, <2>5, QueueKeepsShape DEF FilterInv
    <3>4. RepeatsNeedAFlood'
      BY <3>1, <3>2, <1>1, <2>5, PassKeepsFlood DEF FilterInv
    <3>5. m.slot \in DOMAIN versions' /\ m.n <= versions'[m.slot]
      BY <2>1, <1>1
    <3>6. WritesAreRemembered'
      <4>1. /\ passed \in Seq(Messages)
            /\ passed' = Append(passed, m)
        BY <3>1 DEF Pass, FilterInv, FilterTypeOK
      <4>2. /\ Len(passed') = Len(passed) + 1
            /\ passed'[Len(passed) + 1] = m
            /\ \A i \in 1 .. Len(passed) : passed'[i] = passed[i]
            /\ Len(passed) \in Nat
        BY <4>1, <1>1
      <4>3. \A i \in 1 .. Len(passed') : i \in 1 .. Len(passed) \/ i = Len(passed) + 1
        BY <4>2
      <4> QED
        BY <4>2, <4>3, <2>3, <3>5 DEF WritesAreRemembered
    <3> QED
      BY <3>3, <3>4, <3>6, <2>2, <1>3 DEF FilterInv, FilterTypeOK
  <2> QED
    BY <2>4, <2>5
<1> QED
  BY <1>4, <1>5

LEMMA InitKeepsFilter ==
  ASSUME Init PROVE FilterInv
PROOF
<1> USE ViewAssumption
<1>1. Supply \in Int /\ Capacity \in Nat
  OBVIOUS
<1>2. [Empty EXCEPT ![Vault].balance = Supply] \in Post
  BY <1>1 DEF Empty, Post
<1>3. LedgerTypeOK
  BY <1>2, ViewAssumption DEF Init, LedgerTypeOK, Transactions
<1>4. queue = <<>> /\ passed = <<>> /\ versions = <<>> /\ Len(<<>>) = 0
  BY DEF Init
<1> QED
  BY <1>1, <1>3, <1>4
     DEF FilterInv, FilterTypeOK, QueueIsTail, QueueIsDistinct,
         WritesAreRemembered, RepeatsNeedAFlood

LEMMA NextKeepsFilter ==
  ASSUME FilterInv, [Next]_vars PROVE FilterInv'
PROOF
<1>1. Capacity \in Nat /\ MaxSlot \in Nat /\ Program \in Owners
  BY ViewAssumption
<1>2. CASE \E x, y \in Accounts : Transfer(x, y)
  BY <1>1, <1>2, TransferKeepsInv
<1>3. CASE \E a \in Accounts, o \in Owners : Assign(a, o)
  BY <1>1, <1>3, AssignKeepsInv
<1>4. CASE \E n \in 1 .. Len(ledger) : HearTransaction(n)
  BY <1>1, <1>4, HearTransactionKeepsInv
<1>5. CASE \E n \in 1 .. Len(ledger) : HearWrite(n)
  BY <1>1, <1>5, HearWriteKeepsInv
<1>6. CASE UNCHANGED vars
  <2>1. UNCHANGED <<ledger, queue, passed, versions>>
    BY <1>6 DEF vars, chainVars, filterVars
  <2>2. LedgerTypeOK' /\ FilterTypeOK' /\ WritesAreRemembered'
    BY <2>1 DEF FilterInv, LedgerTypeOK, FilterTypeOK, WritesAreRemembered
  <2> QED
    BY <2>1, <2>2, UnchangedQueue DEF FilterInv
<1> QED
  BY <1>2, <1>3, <1>4, <1>5, <1>6 DEF Next

-----------------------------------------------------------------------------
(***************************************************************************)
(* For every capacity: a message passes the filter again only when it is a *)
(* transaction and Capacity other messages passed in between.  The proof   *)
(* keeps FilterInv through the steps of the chain and of the stream.       *)
(***************************************************************************)
THEOREM RepeatsAreRare == Spec => []RepeatsNeedAFlood
PROOF
<1>1. Init => FilterInv
  BY InitKeepsFilter
<1>2. FilterInv /\ [Next]_vars => FilterInv'
  BY NextKeepsFilter
<1>3. FilterInv => RepeatsNeedAFlood
  BY DEF FilterInv
<1> QED
  BY <1>1, <1>2, <1>3, PTL DEF Spec

-----------------------------------------------------------------------------
(* The holders.  A transaction changes only the accounts it touches.       *)
LedgerOK ==
  /\ ledger[1].post = [a \in Accounts |->
       IF a \in ledger[1].touched THEN ledger[1].post[a] ELSE Empty[a]]
  /\ \A n \in 1 .. Len(ledger) : n > 1 =>
       ledger[n].post = [a \in Accounts |->
         IF a \in ledger[n].touched THEN ledger[n].post[a] ELSE ledger[n - 1].post[a]]

(* What passed, and what was applied, was heard; and the other way round. *)
HeardIsApplied ==
  /\ heard \subseteq 1 .. Len(ledger)
  /\ \A i \in 1 .. Len(passed) : passed[i].kind = "tx" => passed[i].n \in heard
  /\ \A u \in applied : u.n \in heard
  /\ \A n \in heard : HolderUpdates(n) \subseteq applied

(* The owners hold the sums of their accounts. *)
OwnersMatch(truth) ==
  /\ \A o \in DOMAIN truth : o \in DOMAIN owners /\ owners[o] = truth[o]
  /\ \A o \in DOMAIN owners \ DOMAIN truth : owners[o] = 0

(* A gapless stream has delivered a prefix of the chain. *)
PrefixIsHeld ==
  gapless => \E h \in Nat :
    /\ heard = 1 .. h
    /\ accounts = IF h = 0 THEN Empty ELSE ledger[h].post

HolderInv ==
  /\ FilterInv
  /\ LedgerOK
  /\ HeardIsApplied
  /\ accounts = [a \in Accounts |-> accounts[a]]
  /\ OwnersMatch(Rebuilt(accounts))
  /\ PrefixIsHeld

(* The chain goes on: the transactions so far stay. *)
LEMMA ExecuteKeepsHolders ==
  ASSUME HolderInv, FilterInv',
         NEW touched, NEW trader, NEW post, Execute(touched, trader, post),
         post = [a \in Accounts |-> IF a \in touched THEN post[a] ELSE Held[a]]
  PROVE  HolderInv'
PROOF
<1>1. PICK s : ledger' = Append(ledger, [slot |-> s, touched |-> touched,
                                         trader |-> trader, post |-> post])
  BY DEF Execute
<1> DEFINE t == [slot |-> s, touched |-> touched, trader |-> trader, post |-> post]
<1>2. t.post = post /\ t.touched = touched
  OBVIOUS
<1> HIDE DEF t
<1>3. ledger' = Append(ledger, t)
  BY <1>1 DEF t
<1>4. ledger \in Seq(Transactions) /\ Len(ledger) \in Nat /\ Len(ledger) > 0
  BY DEF HolderInv, FilterInv, LedgerTypeOK
<1>5. ledger' \in Seq(Transactions)
  BY DEF FilterInv, LedgerTypeOK
<1>6. /\ Len(ledger') = Len(ledger) + 1
      /\ ledger'[Len(ledger) + 1] = t
      /\ \A n \in 1 .. Len(ledger) : ledger'[n] = ledger[n]
  BY <1>3, <1>4
<1>7. UNCHANGED <<heard, gapless, queue, passed, accounts, owners, applied>>
  BY DEF Execute, filterVars, tokenVars
<1>8. LedgerOK'
  <2>1. ledger'[1].post = [a \in Accounts |->
          IF a \in ledger'[1].touched THEN ledger'[1].post[a] ELSE Empty[a]]
    <3>1. 1 \in 1 .. Len(ledger)
      BY <1>4
    <3>2. ledger'[1] = ledger[1]
      BY <3>1, <1>6
    <3> QED
      BY <3>2 DEF HolderInv, LedgerOK
  <2>2. ASSUME NEW n \in 1 .. Len(ledger'), n > 1
        PROVE  ledger'[n].post = [a \in Accounts |->
          IF a \in ledger'[n].touched THEN ledger'[n].post[a] ELSE ledger'[n - 1].post[a]]
    <3>1. CASE n \in 1 .. Len(ledger)
      <4>1. n - 1 \in 1 .. Len(ledger)
        BY <2>2, <3>1, <1>4
      <4>2. ledger[n].post = [a \in Accounts |->
              IF a \in ledger[n].touched THEN ledger[n].post[a] ELSE ledger[n - 1].post[a]]
        BY <2>2, <3>1 DEF HolderInv, LedgerOK
      <4> QED
        BY <4>1, <4>2, <3>1, <1>6
    <3>2. CASE n = Len(ledger) + 1
      <4>1. n - 1 = Len(ledger) /\ Len(ledger) \in 1 .. Len(ledger)
        BY <3>2, <1>4
      <4>2. ledger'[n] = t /\ ledger'[n - 1] = ledger[Len(ledger)]
        BY <4>1, <3>2, <1>6
      <4> QED
        BY <4>2, <1>2 DEF Held
    <3> QED
      BY <3>1, <3>2, <1>4, <1>6
  <2> QED
    BY <2>1, <2>2 DEF LedgerOK
<1>9. HeardIsApplied'
  <2>1. \A n \in heard : n \in 1 .. Len(ledger) /\ ledger'[n] = ledger[n]
    BY <1>6 DEF HolderInv, HeardIsApplied
  <2>2. \A n \in heard : HolderUpdates(n)' = HolderUpdates(n)
    BY <2>1 DEF HolderUpdates
  <2>3. heard' \subseteq 1 .. Len(ledger')
    BY <2>1, <1>4, <1>6, <1>7
  <2>4. \A n \in heard : HolderUpdates(n) \subseteq applied
    BY DEF HolderInv, HeardIsApplied
  <2>5. \A n \in heard' : HolderUpdates(n)' \subseteq applied'
    BY <2>2, <2>4, <1>7
  <2> QED
    BY <2>3, <2>5, <1>7 DEF HolderInv, HeardIsApplied
<1>10. PrefixIsHeld'
  <2> SUFFICES ASSUME gapless PROVE \E h \in Nat :
        /\ heard' = 1 .. h
        /\ accounts' = IF h = 0 THEN Empty ELSE ledger'[h].post
    BY <1>7 DEF PrefixIsHeld
  <2>1. PICK h \in Nat : /\ heard = 1 .. h
                         /\ accounts = IF h = 0 THEN Empty ELSE ledger[h].post
    BY DEF HolderInv, PrefixIsHeld
  <2>2. h # 0 => h \in 1 .. Len(ledger)
    BY <2>1 DEF HolderInv, HeardIsApplied
  <2> QED
    BY <2>1, <2>2, <1>6, <1>7
<1>11. OwnersMatch(Rebuilt(accounts))' /\ accounts' = [a \in Accounts |-> accounts'[a]]
  <2>1. Rebuilt(accounts') = Rebuilt(accounts)
    BY <1>7
  <2> QED
    BY <2>1, <1>7 DEF HolderInv, OwnersMatch
<1> QED
  BY <1>8, <1>9, <1>10, <1>11 DEF HolderInv

(* What Transfer and Assign write: nothing but the accounts they touch. *)
LEMMA TransferKeepsHolders ==
  ASSUME HolderInv, FilterInv', NEW from \in Accounts, NEW to \in Accounts,
         Transfer(from, to)
  PROVE  HolderInv'
PROOF
<1>1. Held \in Post
  BY LedgerIsTyped DEF HolderInv, FilterInv, Held
<1>2. PICK o \in Owners \ {Program} :
        LET owner == IF to = Vault \/ Held[to].balance > 0 THEN Held[to].owner ELSE o
            traders == CASE from = Vault -> {owner}
                         [] to = Vault -> {Held[from].owner}
                         [] OTHER -> {}
        IN Execute({from, to}, traders,
             [Held EXCEPT ![from].balance = @ - 1,
                          ![to] = [owner |-> owner, balance |-> @.balance + 1]])
  BY DEF Transfer
<1> DEFINE owner == IF to = Vault \/ Held[to].balance > 0 THEN Held[to].owner ELSE o
           traders == CASE from = Vault -> {owner}
                        [] to = Vault -> {Held[from].owner}
                        [] OTHER -> {}
           post == [Held EXCEPT ![from].balance = @ - 1,
                                ![to] = [owner |-> owner, balance |-> @.balance + 1]]
<1>3. Execute({from, to}, traders, post)
  BY <1>2
<1> HIDE DEF owner, traders
<1>4. post = [a \in Accounts |-> IF a \in {from, to} THEN post[a] ELSE Held[a]]
  BY <1>1 DEF Post
<1> HIDE DEF post
<1> QED
  BY <1>3, <1>4, ExecuteKeepsHolders

LEMMA AssignKeepsHolders ==
  ASSUME HolderInv, FilterInv', NEW a \in Accounts, NEW o \in Owners, Assign(a, o)
  PROVE  HolderInv'
PROOF
<1> DEFINE post == [Held EXCEPT ![a].owner = o]
<1>1. Held \in Post
  BY LedgerIsTyped DEF HolderInv, FilterInv, Held
<1>2. post = [b \in Accounts |-> IF b \in {a} THEN post[b] ELSE Held[b]]
  BY <1>1 DEF Post
<1>3. Execute({a}, {}, post)
  BY DEF Assign
<1> HIDE DEF post
<1> QED
  BY <1>2, <1>3, ExecuteKeepsHolders

(* A transaction arrives, for the first time or again. *)
LEMMA HearTransactionKeepsHolders ==
  ASSUME HolderInv, FilterInv', NEW n \in 1 .. Len(ledger), HearTransaction(n)
  PROVE  HolderInv'
PROOF
<1> DEFINE m == Message("tx", n)
<1>1. /\ ledger' = ledger /\ heard' = heard \cup {n}
      /\ gapless' = (gapless /\ (n \in heard \/ n = Cardinality(heard) + 1))
  BY DEF HearTransaction, chainVars
<1>2. \A k : HolderUpdates(k)' = HolderUpdates(k)
  BY <1>1 DEF HolderUpdates
<1>3. LedgerOK'
  BY <1>1 DEF HolderInv, LedgerOK
<1>4. passed \in Seq(Messages) /\ queue \in Seq(Messages)
  BY DEF HolderInv, FilterInv, FilterTypeOK
<1>5. CASE Seen(m)
  <2>1. UNCHANGED <<queue, passed, accounts, owners, applied>>
    BY <1>5 DEF HearTransaction, tokenVars
  <2>2. n \in heard
    <3>1. PICK i \in DOMAIN queue : queue[i] = m
      BY <1>5 DEF Seen
    <3>2. i \in 1 .. Len(queue) /\ Len(queue) \in Nat /\ Len(passed) \in Nat
      BY <3>1, <1>4
    <3>3. Len(passed) - Len(queue) + i \in 1 .. Len(passed)
      BY <3>2 DEF HolderInv, FilterInv, QueueIsTail
    <3>4. passed[Len(passed) - Len(queue) + i] = m
      BY <3>1, <3>2 DEF HolderInv, FilterInv, QueueIsTail
    <3>5. m.kind = "tx" /\ m.n = n
      BY DEF Message
    <3> HIDE DEF m
    <3> QED
      BY <3>3, <3>4, <3>5 DEF HolderInv, HeardIsApplied
  <2>3. heard' = heard /\ (gapless' => gapless)
    BY <2>2, <1>1
  <2>4. Rebuilt(accounts') = Rebuilt(accounts)
    BY <2>1
  <2>5. HeardIsApplied'
    BY <2>1, <2>3, <1>1, <1>2 DEF HolderInv, HeardIsApplied
  <2>6. PrefixIsHeld'
    BY <2>1, <2>3, <1>1 DEF HolderInv, PrefixIsHeld
  <2> QED
    BY <2>1, <2>4, <2>5, <2>6, <1>3 DEF HolderInv, OwnersMatch
<1>6. CASE ~Seen(m)
  <2>1. Pass(m) /\ ApplyTransaction(n)
    BY <1>6 DEF HearTransaction
  <2>2. \A i \in 1 .. Len(passed') : passed'[i].kind = "tx" => passed'[i].n \in heard'
    <3>1. passed' = Append(passed, m)
      BY <2>1 DEF Pass
    <3>2. m.n = n
      BY DEF Message
    <3>3. \A i \in 1 .. Len(passed') :
            \/ i \in 1 .. Len(passed) /\ passed'[i] = passed[i]
            \/ passed'[i] = m
      BY <3>1, <1>4
    <3> HIDE DEF m
    <3> QED
      BY <3>2, <3>3, <1>1 DEF HolderInv, HeardIsApplied
  <2>3. /\ applied' = applied \cup HolderUpdates(n)
        /\ heard' \subseteq 1 .. Len(ledger')
    BY <2>1, <1>1 DEF ApplyTransaction, Fresh, HolderInv, HeardIsApplied
  <2>4. \A u \in HolderUpdates(n) : u.n = n
    BY DEF HolderUpdates
  <2>5. HeardIsApplied'
    BY <2>2, <2>3, <2>4, <1>1, <1>2 DEF HolderInv, HeardIsApplied
  <2>6. accounts' = [a \in Accounts |-> accounts'[a]]
    BY <2>1 DEF ApplyTransaction
  <2>7. OwnersMatch(Rebuilt(accounts))'
    <3>1. CASE Fresh(n) # {}
      <4>1. owners' = Rebuilt(accounts')
        BY <2>1, <3>1 DEF ApplyTransaction
      <4> QED
        BY <4>1 DEF OwnersMatch
    <3>2. CASE Fresh(n) = {}
      <4>1. owners' = [o \in DOMAIN owners \cup ledger[n].trader |->
                         IF o \in DOMAIN owners THEN owners[o] ELSE 0]
        BY <2>1, <3>2 DEF ApplyTransaction
      <4>2. accounts' = accounts
        BY <2>1, <3>2 DEF ApplyTransaction, HolderInv
      <4>3. Rebuilt(accounts') = Rebuilt(accounts)
        BY <4>2
      <4> QED
        BY <4>1, <4>3 DEF OwnersMatch, HolderInv
    <3> QED
      BY <3>1, <3>2
  <2>8. PrefixIsHeld'
    <3> SUFFICES ASSUME gapless' PROVE \E h \in Nat :
          /\ heard' = 1 .. h
          /\ accounts' = IF h = 0 THEN Empty ELSE ledger'[h].post
      BY DEF PrefixIsHeld
    <3>1. gapless /\ (n \in heard \/ n = Cardinality(heard) + 1)
      BY <1>1
    <3>2. PICK h \in Nat : /\ heard = 1 .. h
                           /\ accounts = IF h = 0 THEN Empty ELSE ledger[h].post
      BY <3>1 DEF HolderInv, PrefixIsHeld
    <3>3. Cardinality(heard) = h
      BY <3>2, FS_Interval
    <3>4. CASE n \in heard
      <4>1. Fresh(n) = {}
        BY <3>4 DEF Fresh, HolderInv, HeardIsApplied
      <4>2. accounts' = accounts /\ heard' = heard
        BY <2>1, <4>1, <3>4, <1>1 DEF ApplyTransaction, HolderInv
      <4> QED
        BY <4>2, <3>2, <1>1
    <3>5. CASE n \notin heard
      <4>1. n = h + 1 /\ heard' = 1 .. h + 1
        BY <3>1, <3>2, <3>3, <3>5, <1>1
      <4>2. Fresh(n) = HolderUpdates(n)
        BY <2>4, <3>5 DEF Fresh, HolderInv, HeardIsApplied
      <4>3. \A a \in Accounts :
              (\E u \in HolderUpdates(n) : u.account = a) <=> a \in ledger[n].touched
        <5> TAKE a \in Accounts
        <5>1. ASSUME a \in ledger[n].touched
              PROVE  \E u \in HolderUpdates(n) : u.account = a
          <6> DEFINE u == [account |-> a, holding |-> ledger[n].post[a], n |-> n]
          <6>1. u \in HolderUpdates(n) /\ u.account = a
            BY <5>1 DEF HolderUpdates
          <6> QED
            BY <6>1
        <5>2. ASSUME NEW u \in HolderUpdates(n), u.account = a
              PROVE  a \in ledger[n].touched
          BY <5>2 DEF HolderUpdates
        <5> QED
          BY <5>1, <5>2
      <4>4. accounts' = [a \in Accounts |->
              IF a \in ledger[n].touched THEN ledger[n].post[a] ELSE accounts[a]]
        BY <2>1, <4>2, <4>3 DEF ApplyTransaction
      <4>5. accounts' = ledger[n].post
        <5>1. CASE h = 0
          BY <4>1, <4>4, <3>2, <5>1 DEF HolderInv, LedgerOK
        <5>2. CASE h # 0
          <6>1. n > 1 /\ n - 1 = h
            BY <4>1, <5>2
          <6>2. accounts = ledger[n - 1].post
            BY <6>1, <3>2, <5>2
          <6> QED
            BY <6>1, <6>2, <4>4 DEF HolderInv, LedgerOK
        <5> QED
          BY <5>1, <5>2
      <4> QED
        BY <4>1, <4>5, <1>1
    <3> QED
      BY <3>4, <3>5
  <2> QED
    BY <2>5, <2>6, <2>7, <2>8, <1>3 DEF HolderInv
<1> QED
  BY <1>5, <1>6

(* A write of the curve leaves the holders alone. *)
LEMMA HearWriteKeepsHolders ==
  ASSUME HolderInv, FilterInv', NEW n \in 1 .. Len(ledger), HearWrite(n)
  PROVE  HolderInv'
PROOF
<1> DEFINE m == Message("curve", n)
<1>1. UNCHANGED <<ledger, heard, gapless, accounts, owners, applied>>
  BY DEF HearWrite, chainVars
<1>2. passed \in Seq(Messages)
  BY DEF HolderInv, FilterInv, FilterTypeOK
<1>3. passed' = passed \/ passed' = Append(passed, m)
  BY DEF HearWrite, Pass, filterVars
<1>4. m.kind = "curve"
  BY DEF Message
<1> HIDE DEF m
<1>5. \A i \in 1 .. Len(passed') :
        passed'[i].kind = "tx" => i \in 1 .. Len(passed) /\ passed'[i] = passed[i]
  <2>1. CASE passed' = passed
    BY <2>1
  <2>2. CASE passed' = Append(passed, m)
    <3>1. \A i \in 1 .. Len(passed') :
            \/ i \in 1 .. Len(passed) /\ passed'[i] = passed[i]
            \/ passed'[i] = m
      BY <2>2, <1>2
    <3> QED
      BY <3>1, <1>4
  <2> QED
    BY <1>3, <2>1, <2>2
<1>6. HeardIsApplied'
  <2>1. \A k : HolderUpdates(k)' = HolderUpdates(k)
    BY <1>1 DEF HolderUpdates
  <2> QED
    BY <2>1, <1>1, <1>5 DEF HolderInv, HeardIsApplied
<1>7. Rebuilt(accounts') = Rebuilt(accounts)
  BY <1>1
<1> QED
  BY <1>1, <1>6, <1>7 DEF HolderInv, LedgerOK, OwnersMatch, PrefixIsHeld

-----------------------------------------------------------------------------
(* The holders, in every state. *)
LEMMA HoldersInvariance == Spec => []HolderInv
PROOF
<1>1. Init => HolderInv
  <2> SUFFICES ASSUME Init PROVE HolderInv
    OBVIOUS
  <2>1. FilterInv
    BY InitKeepsFilter
  <2>2. LedgerOK
    <3>1. Len(ledger) = 1 /\ ledger[1].touched = {Vault}
          /\ ledger[1].post = [Empty EXCEPT ![Vault].balance = Supply]
      BY DEF Init
    <3> QED
      BY <3>1 DEF LedgerOK, Empty
  <2>3. HeardIsApplied
    BY DEF Init, HeardIsApplied
  <2>4. accounts = Empty /\ owners = <<>>
    BY DEF Init
  <2>5. DOMAIN Rebuilt(accounts) = {}
    BY <2>4 DEF Rebuilt, Empty
  <2>6. DOMAIN owners = {}
    BY <2>4
  <2>7. OwnersMatch(Rebuilt(accounts))
    BY <2>5, <2>6 DEF OwnersMatch
  <2>8. PrefixIsHeld
    BY <2>4 DEF Init, PrefixIsHeld
  <2> QED
    BY <2>1, <2>2, <2>3, <2>4, <2>7, <2>8 DEF HolderInv, Empty
<1>2. HolderInv /\ [Next]_vars => HolderInv'
  <2> SUFFICES ASSUME HolderInv, [Next]_vars PROVE HolderInv'
    OBVIOUS
  <2>1. FilterInv'
    BY NextKeepsFilter DEF HolderInv
  <2>2. CASE \E x, y \in Accounts : Transfer(x, y)
    BY <2>1, <2>2, TransferKeepsHolders
  <2>3. CASE \E a \in Accounts, o \in Owners : Assign(a, o)
    BY <2>1, <2>3, AssignKeepsHolders
  <2>4. CASE \E n \in 1 .. Len(ledger) : HearTransaction(n)
    BY <2>1, <2>4, HearTransactionKeepsHolders
  <2>5. CASE \E n \in 1 .. Len(ledger) : HearWrite(n)
    BY <2>1, <2>5, HearWriteKeepsHolders
  <2>6. CASE UNCHANGED vars
    <3>1. UNCHANGED <<ledger, heard, gapless, passed, accounts, owners, applied>>
      BY <2>6 DEF vars, chainVars, filterVars, tokenVars
    <3>2. Rebuilt(accounts') = Rebuilt(accounts)
      BY <3>1
    <3>3. \A k : HolderUpdates(k)' = HolderUpdates(k)
      BY <3>1 DEF HolderUpdates
    <3>4. HeardIsApplied'
      BY <3>1, <3>3 DEF HolderInv, HeardIsApplied
    <3> QED
      BY <2>1, <3>1, <3>2, <3>4 DEF HolderInv, LedgerOK, OwnersMatch, PrefixIsHeld
  <2> QED
    BY <2>2, <2>3, <2>4, <2>5, <2>6 DEF Next
<1> QED
  BY <1>1, <1>2, PTL DEF Spec

(***************************************************************************)
(* For every chain, every number of accounts and owners, and every         *)
(* capacity: as long as the stream has no gap, apply_balance_update gives  *)
(* every owner what the chain says, however often transactions come again. *)
(***************************************************************************)
THEOREM HoldersFollowTheChain == Spec => []HoldersAreTrue
PROOF
<1>1. HolderInv => HoldersAreTrue
  <2> SUFFICES ASSUME HolderInv, gapless, heard # {}
               PROVE  OwnersMatch(Rebuilt(ledger[Cardinality(heard)].post))
    BY DEF HoldersAreTrue, OwnersMatch
  <2>1. PICK h \in Nat : /\ heard = 1 .. h
                         /\ accounts = IF h = 0 THEN Empty ELSE ledger[h].post
    BY DEF HolderInv, PrefixIsHeld
  <2>2. Cardinality(heard) = h /\ h # 0
    BY <2>1, FS_Interval
  <2>3. Rebuilt(ledger[Cardinality(heard)].post) = Rebuilt(accounts)
    BY <2>1, <2>2
  <2> QED
    BY <2>3 DEF HolderInv
<1> QED
  BY <1>1, HoldersInvariance, PTL

-----------------------------------------------------------------------------
(***************************************************************************)
(* The supply.  Units move between the accounts of the chain and are       *)
(* neither made nor lost; an owner holds the units of the accounts that    *)
(* were heard of, each counted once.                                       *)
(***************************************************************************)
Holdings == [Accounts -> [owner : Owners, balance : Nat]]

Balances(held) == [a \in Accounts |-> held[a].balance]

Units(held) == Total(Balances(held), Accounts)

(* observed_holder_supply: no balance is below zero here.                  *)
HolderSupply == Total(owners, DOMAIN owners)

SumOf(held, S) == MapThenSumSet(LAMBDA a : held[a].balance, S)

(* The sum of some accounts is the total of their balances. *)
LEMMA SumIsTotal ==
  ASSUME NEW held \in Holdings, NEW S \in SUBSET Accounts
  PROVE  SumOf(held, S) = Total(Balances(held), S)
<1> DEFINE w == Balances(held)
           iter[s \in SUBSET S] == IF s = {} THEN 0
              ELSE held[CHOOSE x \in s : TRUE].balance + iter[s \ {CHOOSE x \in s : TRUE}]
           Eqn(g) == g = [s \in SUBSET S |-> IF s = {} THEN 0
              ELSE held[CHOOSE x \in s : TRUE].balance + g[s \ {CHOOSE x \in s : TRUE}]]
<1>1. SumOf(held, S) = iter[S]
  BY DEF SumOf, MapThenSumSet, MapThenFoldSet
<1>2. IsFiniteSet(S) /\ \A x \in S : w[x] \in Nat
  BY FS_Subset, ViewAssumption DEF Balances, Holdings
<1>3. \A s \in SUBSET S : s # {} =>
        w[CHOOSE x \in s : TRUE] = held[CHOOSE x \in s : TRUE].balance
  BY DEF Balances
<1> HIDE DEF w
<1>4. ASSUME NEW g PROVE IsTotal(g, w, S) <=> Eqn(g)
  <2>1. \A s \in SUBSET S :
          (IF s = {} THEN 0 ELSE w[CHOOSE x \in s : TRUE] + g[s \ {CHOOSE x \in s : TRUE}])
        = (IF s = {} THEN 0 ELSE held[CHOOSE x \in s : TRUE].balance
                                   + g[s \ {CHOOSE x \in s : TRUE}])
    BY <1>3
  <2> QED
    BY <2>1 DEF IsTotal
<1>5. PICK g : IsTotal(g, w, S)
  BY <1>2, TotalIsFold
<1>6. iter = CHOOSE f : Eqn(f)
  OBVIOUS
<1>7. IsTotal(iter, w, S)
  <2> HIDE DEF Eqn, iter
  <2> QED BY <1>4, <1>5, <1>6
<1>8. PICK h : IsTotal(h, w, S) /\ SumOf(held, S) = h[S]
  <2> HIDE DEF iter
  <2> QED BY <1>1, <1>7
<1>9. h[S] = Total(w, S)
  BY <1>2, <1>8, TotalIs
<1> QED
  BY <1>8, <1>9 DEF w

(* The owners of rebuild_owner_balances_from_token_accounts share what the *)
(* accounts hold.                                                          *)
LEMMA RebuiltSharesUnits ==
  ASSUME NEW held \in Holdings
  PROVE  /\ DOMAIN Rebuilt(held) \subseteq Owners
         /\ \A o \in DOMAIN Rebuilt(held) : Rebuilt(held)[o] \in Nat
         /\ Total(Rebuilt(held), DOMAIN Rebuilt(held)) = Units(held)
<1> DEFINE w == Balances(held)
           t == Rebuilt(held)
           S == {a \in Accounts : held[a].balance > 0}
           class == [a \in S |-> held[a].owner]
           OfOwner(o) == {a \in Accounts : held[a].owner = o /\ held[a].balance > 0}
           O == {o \in Owners : OfOwner(o) # {}}
<1>1. \A a \in Accounts : w[a] = held[a].balance /\ w[a] \in Nat /\ held[a].owner \in Owners
  BY DEF Balances, Holdings
<1>2. IsFiniteSet(Accounts) /\ S \in SUBSET Accounts /\ IsFiniteSet(S)
  BY FS_Subset, ViewAssumption
<1>3. IsFiniteSet(O)
  BY FS_Subset, ViewAssumption
<1>4. t = [o \in O |-> SumOf(held, OfOwner(o))]
  BY DEF Rebuilt, SumOf
<1>5. ASSUME NEW o \in O
      PROVE  t[o] = Total(w, {a \in S : class[a] = o}) /\ t[o] \in Nat
  <2>1. OfOwner(o) \in SUBSET Accounts /\ OfOwner(o) = {a \in S : class[a] = o}
    OBVIOUS
  <2>2. t[o] = SumOf(held, OfOwner(o))
    BY <1>4
  <2>3. SumOf(held, OfOwner(o)) = Total(w, OfOwner(o))
    BY <2>1, SumIsTotal
  <2>4. Total(w, OfOwner(o)) \in Nat
    <3>1. IsFiniteSet(OfOwner(o))
      BY <1>2, <2>1, FS_Subset
    <3> HIDE DEF OfOwner, w
    <3> QED
      BY <1>1, <2>1, <3>1, TotalType
  <2> QED
    BY <2>1, <2>2, <2>3, <2>4
<1>6. \A a \in S : class[a] \in O
  BY <1>1
<1>7. \A a \in Accounts \ S : w[a] = 0
  BY <1>1
<1>8. DOMAIN t = O /\ O \subseteq Owners
  BY <1>4
<1>9. \A a \in S : w[a] \in Nat
  BY <1>1, <1>2
<1> HIDE DEF w, t, S, class, O
<1>10. Total(t, O) = Total(w, S)
  BY <1>2, <1>3, <1>5, <1>6, <1>9, TotalByClass
<1>11. Total(w, Accounts) = Total(w, S)
  BY <1>1, <1>2, <1>7, TotalSupport
<1> QED
  BY <1>5, <1>8, <1>10, <1>11 DEF w, t, Units

(* A unit that moves is not lost. *)
LEMMA MoveKeepsUnits ==
  ASSUME NEW held \in Holdings, NEW post \in Holdings,
         NEW x \in Accounts, NEW y \in Accounts, x # y,
         post[x].balance = held[x].balance - 1,
         post[y].balance = held[y].balance + 1,
         \A a \in Accounts \ {x, y} : post[a].balance = held[a].balance
  PROVE  Units(post) = Units(held)
<1> DEFINE v == Balances(held)
           w == Balances(post)
           R == (Accounts \ {x}) \ {y}
<1>1. /\ \A a \in Accounts : v[a] \in Nat /\ w[a] \in Nat
      /\ w[x] = v[x] - 1 /\ w[y] = v[y] + 1
      /\ \A a \in R : w[a] = v[a]
  BY DEF Balances, Holdings
<1>2. IsFiniteSet(Accounts) /\ IsFiniteSet(Accounts \ {x}) /\ IsFiniteSet(R)
  BY FS_Subset, ViewAssumption
<1>3. x \in Accounts /\ y \in Accounts \ {x}
  OBVIOUS
<1>4. /\ \A a \in Accounts : v[a] \in Nat
      /\ \A a \in Accounts : w[a] \in Nat
      /\ \A a \in Accounts \ {x} : v[a] \in Nat
      /\ \A a \in Accounts \ {x} : w[a] \in Nat
      /\ \A a \in R : v[a] \in Nat /\ w[a] \in Nat
  BY <1>1
<1> HIDE DEF v, w
<1>5. /\ Total(v, Accounts) = v[x] + Total(v, Accounts \ {x})
      /\ Total(w, Accounts) = w[x] + Total(w, Accounts \ {x})
  <2>1. Total(v, Accounts) = v[x] + Total(v, Accounts \ {x})
    BY <1>2, <1>4, TotalWithout
  <2>2. Total(w, Accounts) = w[x] + Total(w, Accounts \ {x})
    BY <1>2, <1>4, TotalWithout
  <2> QED
    BY <2>1, <2>2
<1>6. /\ Total(v, Accounts \ {x}) = v[y] + Total(v, R)
      /\ Total(w, Accounts \ {x}) = w[y] + Total(w, R)
  <2>1. Total(v, Accounts \ {x}) = v[y] + Total(v, R)
    BY <1>2, <1>3, <1>4, TotalWithout
  <2>2. Total(w, Accounts \ {x}) = w[y] + Total(w, R)
    BY <1>2, <1>3, <1>4, TotalWithout
  <2> QED
    BY <2>1, <2>2
<1> HIDE DEF R
<1>7. Total(w, R) = Total(v, R) /\ Total(v, R) \in Nat
  <2>1. Total(w, R) = Total(v, R)
    BY <1>1, <1>2, <1>4, TotalSame
  <2>2. Total(v, R) \in Nat
    BY <1>2, <1>4, TotalType
  <2> QED
    BY <2>1, <2>2
<1>8. v[x] \in Nat /\ v[y] \in Nat
  BY <1>1
<1>9. Total(w, Accounts) = Total(v, Accounts)
  BY <1>1, <1>5, <1>6, <1>7, <1>8
<1> QED
  BY <1>9 DEF v, w, Units

(* The chain keeps the supply; what is believed are natural balances. *)
SupplyInv ==
  /\ \A n \in 1 .. Len(ledger) :
       ledger[n].post \in Holdings /\ Units(ledger[n].post) = Supply
  /\ accounts \in Holdings
  /\ DOMAIN owners \subseteq Owners

(* The chain goes on with the same supply. *)
LEMMA ExecuteKeepsSupply ==
  ASSUME HolderInv, SupplyInv, NEW touched, NEW trader, NEW post \in Holdings,
         Execute(touched, trader, post), Units(post) = Units(Held)
  PROVE  SupplyInv'
<1>1. PICK s : ledger' = Append(ledger, [slot |-> s, touched |-> touched,
                                         trader |-> trader, post |-> post])
  BY DEF Execute
<1> DEFINE t == [slot |-> s, touched |-> touched, trader |-> trader, post |-> post]
<1>2. t.post = post
  OBVIOUS
<1> HIDE DEF t
<1>3. ledger' = Append(ledger, t)
  BY <1>1 DEF t
<1>4. ledger \in Seq(Transactions) /\ Len(ledger) \in Nat /\ Len(ledger) > 0
  BY DEF HolderInv, FilterInv, LedgerTypeOK
<1>5. /\ Len(ledger') = Len(ledger) + 1
      /\ ledger'[Len(ledger) + 1] = t
      /\ \A n \in 1 .. Len(ledger) : ledger'[n] = ledger[n]
  BY <1>3, <1>4
<1>6. Len(ledger) \in 1 .. Len(ledger)
  BY <1>4
<1>7. Units(post) = Supply
  BY <1>6 DEF SupplyInv, Held
<1>8. ASSUME NEW n \in 1 .. Len(ledger')
      PROVE  ledger'[n].post \in Holdings /\ Units(ledger'[n].post) = Supply
  <2>1. n \in 1 .. Len(ledger) \/ n = Len(ledger) + 1
    BY <1>4, <1>5
  <2> QED
    BY <1>2, <1>5, <1>7, <2>1 DEF SupplyInv
<1>9. UNCHANGED <<accounts, owners>>
  BY DEF Execute, tokenVars
<1> QED
  BY <1>8, <1>9 DEF SupplyInv, Units, Balances

(* What the chain holds now. *)
LEMMA HeldIsHoldings == ASSUME HolderInv, SupplyInv PROVE Held \in Holdings
<1>1. Len(ledger) \in 1 .. Len(ledger)
  BY DEF HolderInv, FilterInv, LedgerTypeOK
<1> QED
  BY <1>1 DEF SupplyInv, Held

LEMMA TransferKeepsSupply ==
  ASSUME HolderInv, SupplyInv, NEW from \in Accounts, NEW to \in Accounts,
         Transfer(from, to)
  PROVE  SupplyInv'
<1>1. Held \in Holdings /\ from # to /\ Held[from].balance > 0
  BY HeldIsHoldings DEF Transfer
<1>2. PICK o \in Owners \ {Program} :
        LET owner == IF to = Vault \/ Held[to].balance > 0 THEN Held[to].owner ELSE o
            traders == CASE from = Vault -> {owner}
                         [] to = Vault -> {Held[from].owner}
                         [] OTHER -> {}
        IN Execute({from, to}, traders,
             [Held EXCEPT ![from].balance = @ - 1,
                          ![to] = [owner |-> owner, balance |-> @.balance + 1]])
  BY DEF Transfer
<1> DEFINE owner == IF to = Vault \/ Held[to].balance > 0 THEN Held[to].owner ELSE o
           traders == CASE from = Vault -> {owner}
                        [] to = Vault -> {Held[from].owner}
                        [] OTHER -> {}
           post == [Held EXCEPT ![from].balance = @ - 1,
                                ![to] = [owner |-> owner, balance |-> @.balance + 1]]
<1>3. Execute({from, to}, traders, post)
  BY <1>2
<1>4. owner \in Owners
  BY <1>1 DEF Holdings
<1> HIDE DEF owner, traders
<1>5. /\ post[from] = [owner |-> Held[from].owner, balance |-> Held[from].balance - 1]
      /\ post[to] = [owner |-> owner, balance |-> Held[to].balance + 1]
      /\ \A a \in Accounts \ {from, to} : post[a] = Held[a]
      /\ post = [a \in Accounts |-> post[a]]
  BY <1>1 DEF Holdings
<1> HIDE DEF post
<1>6. \A a \in Accounts : post[a] \in [owner : Owners, balance : Nat]
  <2>1. \A a \in Accounts : Held[a].owner \in Owners /\ Held[a].balance \in Nat
    BY <1>1 DEF Holdings
  <2>2. Held[from].balance - 1 \in Nat /\ Held[to].balance + 1 \in Nat
    BY <1>1, <2>1
  <2>3. \A a \in Accounts \ {from, to} : post[a] \in [owner : Owners, balance : Nat]
    BY <1>1, <1>5 DEF Holdings
  <2> QED
    BY <1>4, <1>5, <2>1, <2>2, <2>3
<1>7. post \in Holdings
  BY <1>5, <1>6 DEF Holdings
<1>8. /\ post[from].balance = Held[from].balance - 1
      /\ post[to].balance = Held[to].balance + 1
      /\ \A a \in Accounts \ {from, to} : post[a].balance = Held[a].balance
  BY <1>5
<1>9. Units(post) = Units(Held)
  BY <1>1, <1>7, <1>8, MoveKeepsUnits
<1> QED
  BY <1>3, <1>7, <1>9, ExecuteKeepsSupply

LEMMA AssignKeepsSupply ==
  ASSUME HolderInv, SupplyInv, NEW a \in Accounts, NEW o \in Owners, Assign(a, o)
  PROVE  SupplyInv'
<1> DEFINE post == [Held EXCEPT ![a].owner = o]
<1>1. Held \in Holdings
  BY HeldIsHoldings
<1>2. post \in Holdings /\ Balances(post) = Balances(Held)
  BY <1>1 DEF Holdings, Balances
<1>3. Execute({a}, {}, post)
  BY DEF Assign
<1> HIDE DEF post
<1>4. Units(post) = Units(Held)
  BY <1>2 DEF Units
<1> QED
  BY <1>2, <1>3, <1>4, ExecuteKeepsSupply

LEMMA HearTransactionKeepsSupply ==
  ASSUME HolderInv, SupplyInv, NEW n \in 1 .. Len(ledger), HearTransaction(n)
  PROVE  SupplyInv'
<1> DEFINE fresh == Fresh(n)
<1>1. ledger' = ledger
  BY DEF HearTransaction, chainVars
<1>2. UNCHANGED <<accounts, owners>> \/ ApplyTransaction(n)
  BY DEF HearTransaction, tokenVars
<1>3. ASSUME ApplyTransaction(n)
      PROVE  accounts' \in Holdings /\ DOMAIN owners' \subseteq Owners
  <2>1. accounts' = [a \in Accounts |->
          IF \E u \in fresh : u.account = a THEN ledger[n].post[a] ELSE accounts[a]]
    BY <1>3 DEF ApplyTransaction
  <2>2. ledger[n].post \in Holdings /\ accounts \in Holdings
    BY DEF SupplyInv
  <2> HIDE DEF fresh
  <2>3. accounts' \in Holdings
    BY <2>1, <2>2 DEF Holdings
  <2>4. ledger[n].trader \subseteq Owners
    <3>1. ledger[n] \in Transactions
      BY DEF HolderInv, FilterInv, LedgerTypeOK
    <3> QED
      BY <3>1 DEF Transactions
  <2>5. CASE fresh # {}
    <3>1. owners' = Rebuilt(accounts')
      BY <1>3, <2>5 DEF ApplyTransaction, fresh
    <3> QED
      BY <2>3, <3>1, RebuiltSharesUnits
  <2>6. CASE fresh = {}
    <3>1. DOMAIN owners' = DOMAIN owners \cup ledger[n].trader
      BY <1>3, <2>6 DEF ApplyTransaction, fresh
    <3> QED
      BY <2>3, <2>4, <3>1 DEF SupplyInv
  <2> QED
    BY <2>5, <2>6
<1> QED
  BY <1>1, <1>2, <1>3 DEF SupplyInv

(* The first state: the vault of the curve holds the supply. *)
LEMMA SupplyInit == Init => SupplyInv
<1> SUFFICES ASSUME Init PROVE SupplyInv
  OBVIOUS
<1> DEFINE post == [Empty EXCEPT ![Vault].balance = Supply]
           w == Balances(post)
<1>1. Len(ledger) = 1 /\ ledger[1].post = post /\ accounts = Empty /\ owners = <<>>
  BY DEF Init
<1>2. Supply \in Nat /\ Vault \in Accounts /\ Program \in Owners /\ IsFiniteSet(Accounts)
  BY ViewAssumption
<1>3. Empty \in Holdings /\ post \in Holdings
  BY <1>2 DEF Empty, Holdings
<1>4. w[Vault] = Supply /\ \A a \in Accounts \ {Vault} : w[a] = 0
  <2>1. /\ post[Vault].balance = Supply
        /\ \A a \in Accounts \ {Vault} : post[a].balance = 0
    BY <1>2 DEF Empty
  <2>2. \A a \in Accounts : w[a] = post[a].balance
    BY DEF Balances
  <2> QED
    BY <1>2, <2>1, <2>2
<1> HIDE DEF post, w
<1>5. \A a \in Accounts : w[a] \in Nat
  BY <1>2, <1>4
<1>6. Total(w, Accounts) = w[Vault] + Total(w, Accounts \ {Vault})
  BY <1>2, <1>5, TotalWithout
<1>7. Total(w, Accounts \ {Vault}) = 0
  BY <1>2, <1>4, FS_Subset, TotalZero
<1>8. Units(post) = Supply
  BY <1>2, <1>4, <1>6, <1>7 DEF Units, w
<1>9. DOMAIN owners \subseteq Owners
  BY <1>1
<1> QED
  BY <1>1, <1>3, <1>8, <1>9 DEF SupplyInv

(* The holders and the supply, in every state. *)
LEMMA SupplyInvariance == Spec => [](HolderInv /\ SupplyInv)
<1>1. Init => SupplyInv
  BY SupplyInit
<1>2. HolderInv /\ SupplyInv /\ [Next]_vars => SupplyInv'
  <2> SUFFICES ASSUME HolderInv, SupplyInv, [Next]_vars PROVE SupplyInv'
    OBVIOUS
  <2>1. CASE \E x, y \in Accounts : Transfer(x, y)
    BY <2>1, TransferKeepsSupply
  <2>2. CASE \E a \in Accounts, o \in Owners : Assign(a, o)
    BY <2>2, AssignKeepsSupply
  <2>3. CASE \E n \in 1 .. Len(ledger) : HearTransaction(n)
    BY <2>3, HearTransactionKeepsSupply
  <2>4. CASE \/ \E n \in 1 .. Len(ledger) : HearWrite(n)
             \/ UNCHANGED vars
    <3>1. UNCHANGED <<ledger, accounts, owners>>
      BY <2>4 DEF HearWrite, vars, chainVars, tokenVars
    <3> QED
      BY <3>1 DEF SupplyInv, Units, Balances
  <2> QED
    BY <2>1, <2>2, <2>3, <2>4 DEF Next
<1> QED
  BY <1>1, <1>2, HoldersInvariance, PTL DEF Spec

(* The entries of the owners sum to what the accounts hold. *)
LEMMA OwnersShareUnits ==
  ASSUME HolderInv, SupplyInv
  PROVE  HolderSupply = Units(accounts)
<1> DEFINE t == Rebuilt(accounts)
<1>1. /\ DOMAIN t \subseteq Owners /\ \A o \in DOMAIN t : t[o] \in Nat
      /\ Total(t, DOMAIN t) = Units(accounts)
  BY RebuiltSharesUnits DEF SupplyInv
<1>2. OwnersMatch(t)
  BY DEF HolderInv
<1> HIDE DEF t
<1>3. /\ DOMAIN t \in SUBSET DOMAIN owners
      /\ \A o \in DOMAIN t : owners[o] = t[o]
      /\ \A o \in DOMAIN owners \ DOMAIN t : owners[o] = 0
  BY <1>2 DEF OwnersMatch
<1>4. IsFiniteSet(DOMAIN owners) /\ IsFiniteSet(DOMAIN t)
  BY <1>3, FS_Subset, ViewAssumption DEF SupplyInv
<1>5. \A o \in DOMAIN owners : owners[o] \in Nat
  BY <1>1, <1>3
<1>6. Total(owners, DOMAIN owners) = Total(owners, DOMAIN t)
  BY <1>3, <1>4, <1>5, TotalSupport
<1>7. Total(owners, DOMAIN t) = Total(t, DOMAIN t)
  BY <1>1, <1>3, <1>4, TotalSame
<1> QED
  BY <1>1, <1>6, <1>7 DEF HolderSupply

(***************************************************************************)
(* What the owners of a token hold is what its token accounts hold, every  *)
(* unit counted once: whatever the order, the repetitions and the gaps of  *)
(* the stream, apply_trade_cost_basis and                                  *)
(* rebuild_owner_balances_from_token_accounts leave no unit behind with an *)
(* owner that lost it.                                                     *)
(***************************************************************************)
THEOREM OwnersShareTheirAccounts == Spec => [](HolderSupply = Units(accounts))
<1>1. HolderInv /\ SupplyInv => HolderSupply = Units(accounts)
  BY OwnersShareUnits
<1> QED
  BY <1>1, SupplyInvariance, PTL

(***************************************************************************)
(* As long as the stream has no gap, the owners hold the supply of the     *)
(* token, neither more nor less, so holder_invariant_violations finds no   *)
(* observed_owner_supply_raw_exceeds_total_supply.  With a gap they can    *)
(* hold more: a balance from before a transfer next to one from after it.  *)
(***************************************************************************)
THEOREM HoldersHoldTheSupply == Spec => [](gapless /\ heard # {} => HolderSupply = Supply)
<1>1. HolderInv /\ SupplyInv => (gapless /\ heard # {} => HolderSupply = Supply)
  <2> SUFFICES ASSUME HolderInv, SupplyInv, gapless, heard # {}
               PROVE  HolderSupply = Supply
    OBVIOUS
  <2>1. PICK h \in Nat : /\ heard = 1 .. h
                         /\ accounts = IF h = 0 THEN Empty ELSE ledger[h].post
    BY DEF HolderInv, PrefixIsHeld
  <2>2. h # 0 /\ heard \subseteq 1 .. Len(ledger)
    BY <2>1 DEF HolderInv, HeardIsApplied
  <2>3. h \in 1 .. Len(ledger) /\ accounts = ledger[h].post
    BY <2>1, <2>2
  <2> QED
    BY <2>3, OwnersShareUnits DEF SupplyInv
<1> QED
  BY <1>1, SupplyInvariance, PTL

-----------------------------------------------------------------------------
(***************************************************************************)
(* The curve.  What is believed of it is the curve account, as the writes  *)
(* that wait for the launch will leave it; the newest write delivered is   *)
(* the one with the highest version, whatever arrived after it.            *)
(***************************************************************************)
Curves == [slot : Nat, version : Nat]

Unwritten == [slot |-> 0, version |-> 0]

Believed(c, L) == FoldLeft(AfterWrite, c, L)

Newest(W) ==
  IF W = {} THEN Unwritten ELSE [slot |-> ledger[Max(W)].slot, version |-> Max(W)]

(* Time does not go back on the chain. *)
SlotsGrow ==
  \A i, j \in 1 .. Len(ledger) : i <= j => ledger[i].slot <= ledger[j].slot

(* write_versions holds the newest delivered write of every slot. *)
VersionsAreNewest ==
  /\ \A s \in DOMAIN versions : versions[s] \in written /\ ledger[versions[s]].slot = s
  /\ \A n \in written :
       ledger[n].slot \in DOMAIN versions /\ n <= versions[ledger[n].slot]

CurveTypeOK ==
  /\ written \subseteq 1 .. Len(ledger)
  /\ pending \in Seq(Messages)
  /\ curve \in Curves
  /\ launched \in BOOLEAN

CurveInv ==
  /\ FilterInv
  /\ CurveTypeOK
  /\ SlotsGrow
  /\ VersionsAreNewest
  /\ launched => pending = <<>>
  /\ Believed(curve, pending) = Newest(written)

(* apply_update as a function, which the lemmas on folds speak of. *)
WriteStep == [p \in Curves \X Messages |-> AfterWrite(p[1], p[2])]

LEMMA WriteStepType ==
  /\ WriteStep \in [Curves \X Messages -> Curves]
  /\ \A c \in Curves, m \in Messages :
       WriteStep[<<c, m>>] = AfterWrite(c, m) /\ AfterWrite(c, m) \in Curves
PROOF
<1>1. \A c \in Curves, m \in Messages : AfterWrite(c, m) \in Curves
  BY DEF AfterWrite, Curves, Messages
<1> QED
  BY <1>1 DEF WriteStep

(* The writes that wait are folded from the oldest to the newest. *)
LEMMA BelievedIsFold ==
  ASSUME NEW c \in Curves, NEW L \in Seq(Messages)
  PROVE  Believed(c, L) = SeqFold(c, WriteStep, L)
PROOF
<1> DEFINE S == DOMAIN L
           iter[s \in SUBSET S] ==
             IF s = {} THEN c ELSE AfterWrite(iter[s \ {Max(s)}], L[Max(s)])
           Eqn(f) == f = [s \in SUBSET S |->
             IF s = {} THEN c ELSE AfterWrite(f[s \ {Max(s)}], L[Max(s)])]
<1>1. Believed(c, L) = iter[S]
  BY DEF Believed, FoldLeft, MapThenFoldSet
<1>2. iter = CHOOSE f : Eqn(f)
  OBVIOUS
<1> HIDE DEF iter
<1>3. PICK g \in [SUBSET DOMAIN L -> Curves] : FoldsLeft(g, c, WriteStep, L)
  BY WriteStepType, FoldLeftExists
<1>4. ASSUME NEW s \in SUBSET S, s # {}
      PROVE  Max(s) \in s /\ L[Max(s)] \in Messages
  BY <1>4, LastOfPlaces
<1>5. ASSUME NEW s \in SUBSET S
      PROVE  g[s] = IF s = {} THEN c ELSE AfterWrite(g[s \ {Max(s)}], L[Max(s)])
  <2>1. g[s] = IF s = {} THEN c ELSE WriteStep[<<g[s \ {Max(s)}], L[Max(s)]>>]
    BY <1>3 DEF FoldsLeft
  <2>2. CASE s = {}
    BY <2>1, <2>2
  <2>3. CASE s # {}
    <3>1. g[s \ {Max(s)}] \in Curves /\ L[Max(s)] \in Messages
      BY <1>3, <1>4, <2>3
    <3> QED
      BY <2>1, <2>3, <3>1, WriteStepType
  <2> QED
    BY <2>2, <2>3
<1>6. Eqn(g)
  <2>1. g = [s \in SUBSET S |-> g[s]]
    BY <1>3
  <2> QED
    BY <1>5, <2>1
<1>7. Eqn(iter)
  <2> HIDE DEF Eqn
  <2> QED BY <1>2, <1>6
<1>8. \A s \in SUBSET S :
        iter[s] = IF s = {} THEN c ELSE AfterWrite(iter[s \ {Max(s)}], L[Max(s)])
  BY <1>7
<1> HIDE DEF Eqn
<1>9. iter[S] = g[S]
  <2> DEFINE B == {s \in SUBSET S : iter[s] # g[s]}
  <2>1. SUFFICES ASSUME B # {} PROVE FALSE
    OBVIOUS
  <2>2. IsFiniteSet(S) /\ B \in SUBSET (SUBSET S)
    <3>1. S = 1 .. Len(L) /\ Len(L) \in Nat
      OBVIOUS
    <3> QED
      BY <3>1, FS_Interval
  <2>3. PICK T \in B : \A U \in SUBSET T : U # T => U \notin B
    <3> HIDE DEF B, S
    <3> QED BY <2>1, <2>2, MinimalSet
  <2>4. T \in SUBSET S /\ iter[T] # g[T]
    BY <2>3
  <2>5. T # {}
    BY <1>5, <1>8, <2>4
  <2>6. iter[T \ {Max(T)}] = g[T \ {Max(T)}]
    BY <1>4, <2>3, <2>4, <2>5
  <2>7. /\ iter[T] = AfterWrite(iter[T \ {Max(T)}], L[Max(T)])
        /\ g[T] = AfterWrite(g[T \ {Max(T)}], L[Max(T)])
    BY <1>5, <1>8, <2>4, <2>5
  <2> QED
    BY <2>4, <2>6, <2>7
<1>10. SeqFold(c, WriteStep, L) = g[S]
  BY <1>3, SeqFoldIs
<1> QED
  BY <1>1, <1>9, <1>10

(* One write more is one update more, and no write leaves the curve. *)
LEMMA BelievedAppends ==
  ASSUME NEW c \in Curves, NEW L \in Seq(Messages), NEW m \in Messages
  PROVE  /\ Believed(c, Append(L, m)) = AfterWrite(Believed(c, L), m)
         /\ Believed(c, L) \in Curves
PROOF
<1>1. Append(L, m) \in Seq(Messages)
  OBVIOUS
<1>2. /\ Believed(c, L) = SeqFold(c, WriteStep, L)
      /\ Believed(c, Append(L, m)) = SeqFold(c, WriteStep, Append(L, m))
  BY <1>1, BelievedIsFold
<1>3. /\ SeqFold(c, WriteStep, Append(L, m)) = WriteStep[<<SeqFold(c, WriteStep, L), m>>]
      /\ SeqFold(c, WriteStep, L) \in Curves
  BY WriteStepType, SeqFoldAppends
<1> QED
  BY <1>2, <1>3, WriteStepType

LEMMA BelievedBegins == ASSUME NEW c \in Curves PROVE Believed(c, <<>>) = c
PROOF
<1>1. <<>> \in Seq(Messages)
  OBVIOUS
<1> QED
  BY <1>1, BelievedIsFold, WriteStepType, SeqFoldEmpty

(* What is believed is a curve. *)
LEMMA BelievedType ==
  ASSUME NEW c \in Curves, NEW L \in Seq(Messages)
  PROVE  Believed(c, L) \in Curves
PROOF
<1>1. PICK m \in Messages : TRUE
  <2>1. [kind |-> "tx", slot |-> 0, n |-> 0] \in Messages
    BY DEF Messages
  <2> QED
    BY <2>1
<1> QED
  BY <1>1, BelievedAppends

(* The newest of the delivered writes is one of them. *)
LEMMA NewestIsWritten ==
  ASSUME LedgerTypeOK, NEW W \in SUBSET (1 .. Len(ledger)), W # {}
  PROVE  /\ Max(W) \in W /\ Max(W) \in Nat /\ ledger[Max(W)].slot \in Nat
         /\ \A n \in W : n \in Nat /\ Max(W) >= n
PROOF
<1>1. Len(ledger) \in Nat
  BY DEF LedgerTypeOK
<1>2. Max(W) \in W /\ \A n \in W : Max(W) >= n
  BY <1>1, LastPlace
<1> QED
  BY <1>2, LedgerIsTyped

(***************************************************************************)
(* A write arrives.  One that is newer than what write_versions remembers  *)
(* of its slot makes the belief newest again; one that is not is older     *)
(* than a delivered one of its slot, and changes nothing.                  *)
(***************************************************************************)
LEMMA NewestAfterWrite ==
  ASSUME LedgerTypeOK, SlotsGrow, VersionsAreNewest, written \subseteq 1 .. Len(ledger),
         NEW n \in 1 .. Len(ledger), NewerWrite(Message("curve", n))
  PROVE  Newest(written \cup {n}) = AfterWrite(Newest(written), Message("curve", n))
PROOF
<1> DEFINE m == Message("curve", n)
           W == written \cup {n}
<1>1. m.slot = ledger[n].slot /\ m.n = n
  BY DEF Message
<1>2. n \in Nat /\ ledger[n].slot \in Nat
  BY LedgerIsTyped
<1>3. W \in SUBSET (1 .. Len(ledger)) /\ W # {}
  OBVIOUS
<1>4. Max(W) \in W /\ Max(W) \in Nat /\ \A k \in W : k \in Nat /\ Max(W) >= k
  BY <1>3, NewestIsWritten
<1>5. Newest(W) = [slot |-> ledger[Max(W)].slot, version |-> Max(W)]
  BY DEF Newest
<1>6. CASE written = {}
  <2>1. Max(W) = n
    BY <1>4, <1>6
  <2>2. Newest(written) = Unwritten
    BY <1>6 DEF Newest
  <2>3. AfterWrite(Newest(written), m) = [slot |-> ledger[n].slot, version |-> n]
    BY <2>2, <1>1, <1>2 DEF AfterWrite, Unwritten
  <2> QED
    BY <2>1, <2>3, <1>5
<1>7. CASE written # {}
  <2>1. PICK x : x = Max(written)
    OBVIOUS
  <2>2. /\ x \in written /\ x \in Nat /\ ledger[x].slot \in Nat
        /\ \A k \in written : k \in Nat /\ x >= k
    BY <2>1, <1>7, NewestIsWritten
  <2>3. Newest(written) = [slot |-> ledger[x].slot, version |-> x]
    BY <2>1, <1>7 DEF Newest
  <2>4. ledger[n].slot = ledger[x].slot => n > x
    <3>1. ledger[x].slot \in DOMAIN versions /\ x <= versions[ledger[x].slot]
      BY <2>2 DEF VersionsAreNewest
    <3>2. versions[ledger[x].slot] \in written
      BY <3>1 DEF VersionsAreNewest
    <3>3. versions[ledger[x].slot] \in Nat
      BY <2>2, <3>2
    <3>4. ledger[n].slot = ledger[x].slot => n > versions[ledger[x].slot]
      BY <3>1, <1>1 DEF NewerWrite
    <3> QED
      BY <3>1, <3>3, <3>4, <2>2, <1>2
  <2>5. x \in 1 .. Len(ledger)
    BY <2>2
  <2>6. CASE n > x
    <3>1. ledger[x].slot <= ledger[n].slot
      BY <2>5, <2>6, <2>2, <1>2 DEF SlotsGrow
    <3>2. AfterWrite(Newest(written), m) = [slot |-> ledger[n].slot, version |-> n]
      BY <3>1, <2>3, <2>6, <2>2, <1>1, <1>2 DEF AfterWrite
    <3>3. Max(W) = n
      <4>1. Max(W) >= n /\ (Max(W) = n \/ Max(W) \in written)
        BY <1>4
      <4> QED
        BY <4>1, <1>4, <1>2, <2>2, <2>6
    <3> QED
      BY <3>2, <3>3, <1>5
  <2>7. CASE ~(n > x)
    <3>1. ledger[n].slot <= ledger[x].slot
      BY <2>5, <2>7, <2>2, <1>2 DEF SlotsGrow
    <3>2. ledger[n].slot < ledger[x].slot
      BY <3>1, <2>4, <2>7, <2>2, <1>2
    <3>3. AfterWrite(Newest(written), m) = Newest(written)
      BY <3>2, <2>3, <1>1 DEF AfterWrite
    <3>4. Max(W) = x
      <4>1. Max(W) >= x /\ (Max(W) = n \/ Max(W) \in written)
        BY <1>4, <2>2
      <4> QED
        BY <4>1, <1>4, <1>2, <2>2, <2>7
    <3> QED
      BY <3>3, <3>4, <2>3, <1>5
  <2> QED
    BY <2>6, <2>7
<1> QED
  BY <1>6, <1>7

LEMMA NewestAfterOldWrite ==
  ASSUME LedgerTypeOK, VersionsAreNewest, written \subseteq 1 .. Len(ledger),
         NEW n \in 1 .. Len(ledger), ~NewerWrite(Message("curve", n))
  PROVE  Newest(written \cup {n}) = Newest(written)
PROOF
<1> DEFINE m == Message("curve", n)
           W == written \cup {n}
<1>1. m.slot = ledger[n].slot /\ m.n = n
  BY DEF Message
<1>2. n \in Nat
  BY LedgerIsTyped
<1>3. ledger[n].slot \in DOMAIN versions /\ ~(n > versions[ledger[n].slot])
  BY <1>1 DEF NewerWrite
<1>4. PICK v : v = versions[ledger[n].slot]
  OBVIOUS
<1>5. v \in written
  BY <1>3, <1>4 DEF VersionsAreNewest
<1>6. PICK x : x = Max(written)
  OBVIOUS
<1>7. x \in written /\ x \in Nat /\ \A k \in written : k \in Nat /\ x >= k
  BY <1>5, <1>6, NewestIsWritten
<1>8. W \in SUBSET (1 .. Len(ledger)) /\ W # {}
  OBVIOUS
<1>9. Max(W) \in W /\ Max(W) \in Nat /\ \A k \in W : Max(W) >= k
  BY <1>8, NewestIsWritten
<1>10. v \in Nat /\ x >= v /\ v >= n
  BY <1>2, <1>3, <1>4, <1>5, <1>7
<1>11. Max(W) = x
  <2>1. Max(W) >= x /\ (Max(W) = n \/ Max(W) \in written)
    BY <1>7, <1>9
  <2> QED
    BY <2>1, <1>2, <1>7, <1>9, <1>10
<1> QED
  BY <1>5, <1>6, <1>11 DEF Newest

(* The chain goes on. *)
LEMMA ExecuteKeepsCurve ==
  ASSUME CurveInv, FilterInv', MaxSlot \in Nat,
         NEW touched, NEW trader, NEW post, Execute(touched, trader, post)
  PROVE  CurveInv'
PROOF
<1>1. PICK s \in ledger[Len(ledger)].slot .. MaxSlot :
        ledger' = Append(ledger, [slot |-> s, touched |-> touched,
                                  trader |-> trader, post |-> post])
  BY DEF Execute
<1> DEFINE t == [slot |-> s, touched |-> touched, trader |-> trader, post |-> post]
<1>2. t.slot = s
  OBVIOUS
<1> HIDE DEF t
<1>3. ledger' = Append(ledger, t)
  BY <1>1 DEF t
<1>4. LedgerTypeOK
  BY DEF CurveInv, FilterInv
<1>5. ledger \in Seq(Transactions) /\ Len(ledger) \in Nat /\ Len(ledger) > 0
  BY <1>4 DEF LedgerTypeOK
<1>6. /\ Len(ledger') = Len(ledger) + 1
      /\ ledger'[Len(ledger) + 1] = t
      /\ \A n \in 1 .. Len(ledger) : ledger'[n] = ledger[n]
  BY <1>3, <1>5
<1>7. UNCHANGED <<written, versions, launched, pending, curve>>
  BY DEF Execute, filterVars, tokenVars
<1>8. Len(ledger) \in 1 .. Len(ledger) /\ \A n \in 1 .. Len(ledger) : ledger[n].slot \in Nat
  BY <1>4, LedgerIsTyped
<1>9. s \in Nat /\ ledger[Len(ledger)].slot <= s
  BY <1>1, <1>8
<1>10. \A n \in 1 .. Len(ledger) : ledger[n].slot <= s
  <2>1. \A n \in 1 .. Len(ledger) : n <= Len(ledger)
    BY <1>5
  <2>2. \A n \in 1 .. Len(ledger) : ledger[n].slot <= ledger[Len(ledger)].slot
    BY <1>8, <2>1 DEF CurveInv, SlotsGrow
  <2> QED
    BY <1>8, <1>9, <2>2
<1>11. SlotsGrow'
  <2> SUFFICES ASSUME NEW i \in 1 .. Len(ledger'), NEW j \in 1 .. Len(ledger'), i <= j
               PROVE  ledger'[i].slot <= ledger'[j].slot
    BY DEF SlotsGrow
  <2>1. CASE j \in 1 .. Len(ledger)
    <3>1. i \in 1 .. Len(ledger)
      BY <2>1, <1>5
    <3>2. ledger[i].slot <= ledger[j].slot
      BY <2>1, <3>1 DEF CurveInv, SlotsGrow
    <3> QED
      BY <2>1, <3>1, <3>2, <1>6
  <2>2. CASE j = Len(ledger) + 1
    <3>1. ledger'[j].slot = s
      BY <2>2, <1>2, <1>6
    <3>2. i = j \/ i \in 1 .. Len(ledger)
      BY <2>2, <1>5
    <3>3. i = j => ledger'[i].slot <= s
      BY <3>1, <1>9
    <3>4. i \in 1 .. Len(ledger) => ledger'[i].slot <= s
      BY <1>6, <1>10
    <3> QED
      BY <3>1, <3>2, <3>3, <3>4
  <2> QED
    BY <2>1, <2>2, <1>5, <1>6
<1>12. written \subseteq 1 .. Len(ledger) /\ written \subseteq 1 .. Len(ledger')
  BY <1>5, <1>6 DEF CurveInv, CurveTypeOK
<1>13. \A n \in written : ledger'[n] = ledger[n]
  BY <1>6, <1>12
<1>14. VersionsAreNewest'
  BY <1>7, <1>13 DEF CurveInv, VersionsAreNewest
<1>15. Newest(written)' = Newest(written)
  <2>1. CASE written = {}
    BY <2>1, <1>7 DEF Newest
  <2>2. CASE written # {}
    <3>1. Max(written) \in written
      BY <2>2, <1>4, <1>12, NewestIsWritten
    <3>2. ledger'[Max(written)] = ledger[Max(written)]
      BY <3>1, <1>13
    <3> QED
      BY <2>2, <3>2, <1>7 DEF Newest
  <2> QED
    BY <2>1, <2>2
<1>16. Believed(curve', pending') = Believed(curve, pending)
  BY <1>7
<1> QED
  BY <1>7, <1>11, <1>12, <1>14, <1>15, <1>16 DEF CurveInv, CurveTypeOK

LEMMA TransferKeepsCurve ==
  ASSUME CurveInv, FilterInv', MaxSlot \in Nat,
         NEW from \in Accounts, NEW to \in Accounts, Transfer(from, to)
  PROVE  CurveInv'
PROOF
<1>1. \E touched, trader, post : Execute(touched, trader, post)
  BY DEF Transfer
<1> QED
  BY <1>1, ExecuteKeepsCurve

LEMMA AssignKeepsCurve ==
  ASSUME CurveInv, FilterInv', MaxSlot \in Nat,
         NEW a \in Accounts, NEW o \in Owners, Assign(a, o)
  PROVE  CurveInv'
PROOF
<1>1. \E touched, trader, post : Execute(touched, trader, post)
  BY DEF Assign
<1> QED
  BY <1>1, ExecuteKeepsCurve

(* A transaction arrives: the launch applies the writes that wait. *)
LEMMA HearTransactionKeepsCurve ==
  ASSUME CurveInv, FilterInv', NEW n \in 1 .. Len(ledger), HearTransaction(n)
  PROVE  CurveInv'
PROOF
<1>1. UNCHANGED <<ledger, written, versions>>
  BY DEF HearTransaction, chainVars
<1>2. SlotsGrow' /\ VersionsAreNewest' /\ Newest(written)' = Newest(written)
  BY <1>1 DEF CurveInv, SlotsGrow, VersionsAreNewest, Newest
<1>3. curve \in Curves /\ pending \in Seq(Messages)
  BY DEF CurveInv, CurveTypeOK
<1>4. CASE UNCHANGED <<launched, pending, curve>>
  <2>1. Believed(curve', pending') = Believed(curve, pending)
    BY <1>4
  <2> QED
    BY <1>1, <1>2, <1>4, <2>1 DEF CurveInv, CurveTypeOK
<1>5. CASE /\ launched' = TRUE /\ pending' = <<>>
           /\ curve' = FoldLeft(AfterWrite, curve, pending)
  <2>1. curve' = Believed(curve, pending)
    BY <1>5 DEF Believed
  <2>2. curve' \in Curves
    BY <2>1, <1>3, BelievedType
  <2>3. Believed(curve', pending') = curve'
    BY <2>2, <1>5, BelievedBegins
  <2> QED
    BY <1>1, <1>2, <1>5, <2>1, <2>2, <2>3 DEF CurveInv, CurveTypeOK
<1>6. \/ UNCHANGED <<launched, pending, curve>>
      \/ /\ launched' = TRUE /\ pending' = <<>>
         /\ curve' = FoldLeft(AfterWrite, curve, pending)
  <2>1. CASE Seen(Message("tx", n))
    BY <2>1 DEF HearTransaction, tokenVars
  <2>2. CASE ~Seen(Message("tx", n)) /\ n = 1
    <3>1. /\ launched' = (launched \/ n = 1)
          /\ pending' = IF n = 1 THEN <<>> ELSE pending
          /\ curve' = IF n = 1 THEN FoldLeft(AfterWrite, curve, pending) ELSE curve
      BY <2>2 DEF HearTransaction
    <3> QED
      BY <2>2, <3>1
  <2>3. CASE ~Seen(Message("tx", n)) /\ n # 1
    <3>1. /\ launched' = (launched \/ n = 1)
          /\ pending' = IF n = 1 THEN <<>> ELSE pending
          /\ curve' = IF n = 1 THEN FoldLeft(AfterWrite, curve, pending) ELSE curve
      BY <2>3 DEF HearTransaction
    <3>2. launched \in BOOLEAN
      BY DEF CurveInv, CurveTypeOK
    <3> QED
      BY <2>3, <3>1, <3>2
  <2> QED
    BY <2>1, <2>2, <2>3
<1> QED
  BY <1>4, <1>5, <1>6

(* A write arrives. *)
LEMMA HearWriteKeepsCurve ==
  ASSUME CurveInv, FilterInv', NEW n \in 1 .. Len(ledger), HearWrite(n)
  PROVE  CurveInv'
PROOF
<1> DEFINE m == Message("curve", n)
<1>1. /\ ledger' = ledger /\ launched' = launched
      /\ written' = written \cup {n}
  BY DEF HearWrite, chainVars
<1>2. m \in Messages /\ m.slot = ledger[n].slot /\ m.n = n /\ n \in Nat
  BY MessagesAreTyped, LedgerIsTyped DEF CurveInv, FilterInv, Message
<1>3. LedgerTypeOK /\ written \subseteq 1 .. Len(ledger) /\ SlotsGrow /\ VersionsAreNewest
  BY DEF CurveInv, CurveTypeOK, FilterInv
<1>4. SlotsGrow' /\ written' \subseteq 1 .. Len(ledger')
  BY <1>1, <1>3 DEF SlotsGrow
<1>5. Newest(written)' = Newest(written \cup {n})
  BY <1>1 DEF Newest
<1>6. curve \in Curves /\ pending \in Seq(Messages) /\ launched \in BOOLEAN
  BY DEF CurveInv, CurveTypeOK
<1>7. CASE ~NewerWrite(m)
  <2>1. UNCHANGED <<versions, pending, curve>>
    BY <1>7 DEF HearWrite, filterVars
  <2>2. Newest(written)' = Newest(written)
    BY <1>3, <1>5, <1>7, NewestAfterOldWrite
  <2>3. VersionsAreNewest'
    <3>1. ledger[n].slot \in DOMAIN versions /\ ~(n > versions[ledger[n].slot])
      BY <1>2, <1>7 DEF NewerWrite
    <3>2. versions[ledger[n].slot] \in Nat
      BY <3>1, <1>3, LedgerIsTyped DEF VersionsAreNewest
    <3>3. n <= versions[ledger[n].slot]
      BY <3>1, <3>2, <1>2
    <3> QED
      BY <1>1, <1>3, <2>1, <3>1, <3>3 DEF VersionsAreNewest
  <2>4. Believed(curve', pending') = Believed(curve, pending)
    BY <2>1
  <2> QED
    BY <1>1, <1>4, <2>1, <2>2, <2>3, <2>4 DEF CurveInv, CurveTypeOK
<1>8. CASE NewerWrite(m)
  <2>1. versions' = [s \in DOMAIN versions \cup {m.slot} |->
                       IF s = m.slot THEN n ELSE versions[s]]
    BY <1>8 DEF HearWrite
  <2>2. VersionsAreNewest'
    <3>1. \A s \in DOMAIN versions' : versions'[s] \in written' /\ ledger'[versions'[s]].slot = s
      BY <2>1, <1>1, <1>2, <1>3 DEF VersionsAreNewest
    <3>2. ASSUME NEW k \in written'
          PROVE  ledger[k].slot \in DOMAIN versions' /\ k <= versions'[ledger[k].slot]
      <4>1. CASE k = n
        BY <4>1, <2>1, <1>2
      <4>2. CASE k \in written
        <5>1. ledger[k].slot \in DOMAIN versions /\ k <= versions[ledger[k].slot]
          BY <4>2, <1>3 DEF VersionsAreNewest
        <5>2. versions[ledger[k].slot] \in Nat /\ k \in Nat
          BY <5>1, <4>2, <1>3, LedgerIsTyped DEF VersionsAreNewest
        <5>3. ledger[k].slot = m.slot => n > versions[ledger[k].slot]
          BY <5>1, <1>2, <1>8 DEF NewerWrite
        <5>4. CASE ledger[k].slot = m.slot
          <6>1. versions'[ledger[k].slot] = n /\ ledger[k].slot \in DOMAIN versions'
            BY <2>1, <5>4
          <6> QED
            BY <6>1, <5>1, <5>2, <5>3, <5>4, <1>2
        <5>5. CASE ledger[k].slot # m.slot
          <6>1. /\ versions'[ledger[k].slot] = versions[ledger[k].slot]
                /\ ledger[k].slot \in DOMAIN versions'
            BY <2>1, <5>1, <5>5
          <6> QED
            BY <6>1, <5>1
        <5> QED
          BY <5>4, <5>5
      <4> QED
        BY <4>1, <4>2, <1>1
    <3> QED
      BY <3>1, <3>2, <1>1 DEF VersionsAreNewest
  <2>3. Newest(written)' = AfterWrite(Newest(written), m)
    BY <1>3, <1>5, <1>8, NewestAfterWrite
  <2>4. ~Seen(m)
    <3>1. SUFFICES ASSUME NEW i \in DOMAIN queue, queue[i] = m PROVE FALSE
      BY DEF Seen
    <3>2. queue \in Seq(Messages) /\ passed \in Seq(Messages)
      BY DEF CurveInv, FilterInv, FilterTypeOK
    <3>3. /\ i \in 1 .. Len(queue) /\ Len(queue) \in Nat /\ Len(passed) \in Nat
          /\ Len(queue) <= Len(passed)
      BY <3>2 DEF CurveInv, FilterInv, QueueIsTail
    <3>4. PICK j : j = Len(passed) - Len(queue) + i
      OBVIOUS
    <3>5. j \in 1 .. Len(passed)
      BY <3>3, <3>4
    <3>6. passed[j] = m
      BY <3>1, <3>3, <3>4 DEF CurveInv, FilterInv, QueueIsTail
    <3>7. m.kind = "curve"
      BY DEF Message
    <3>8. m.slot \in DOMAIN versions /\ m.n <= versions[m.slot]
      <4> HIDE DEF m
      <4> QED
        BY <3>5, <3>6, <3>7 DEF CurveInv, FilterInv, WritesAreRemembered
    <3>9. m.n > versions[m.slot]
      BY <3>8, <1>8 DEF NewerWrite
    <3>10. versions[m.slot] \in Nat
      BY <3>8, <1>3, LedgerIsTyped DEF VersionsAreNewest
    <3> QED
      BY <3>8, <3>9, <3>10, <1>2
  <2>5. CASE launched
    <3>1. pending' = pending /\ curve' = AfterWrite(curve, m)
      BY <2>4, <2>5, <1>8 DEF HearWrite
    <3>2. pending = <<>>
      BY <2>5 DEF CurveInv
    <3>3. Believed(curve, pending) = curve
      BY <3>2, <1>6, BelievedBegins
    <3>4. curve' \in Curves
      BY <3>1, <1>6, <1>2, WriteStepType
    <3>5. Believed(curve', pending') = curve'
      BY <3>1, <3>2, <3>4, BelievedBegins
    <3>6. Believed(curve', pending') = Newest(written)'
      BY <3>1, <3>3, <3>5, <2>3 DEF CurveInv
    <3> QED
      BY <3>1, <3>2, <3>4, <3>6, <2>2, <1>1, <1>4, <1>6 DEF CurveInv, CurveTypeOK
  <2>6. CASE ~launched
    <3>1. pending' = Append(pending, m) /\ curve' = curve
      BY <2>4, <2>6, <1>8 DEF HearWrite
    <3>2. Believed(curve', pending') = AfterWrite(Believed(curve, pending), m)
      BY <3>1, <1>2, <1>6, BelievedAppends
    <3>3. Believed(curve', pending') = Newest(written)'
      BY <3>2, <2>3 DEF CurveInv
    <3>4. pending' \in Seq(Messages)
      BY <3>1, <1>2, <1>6
    <3> QED
      BY <3>1, <3>3, <3>4, <2>6, <2>2, <1>1, <1>4, <1>6 DEF CurveInv, CurveTypeOK
  <2> QED
    BY <2>5, <2>6
<1> QED
  BY <1>7, <1>8

(***************************************************************************)
(* For every chain, every capacity of the Deduplicator and every order of  *)
(* delivery: once the launch is known the curve is the newest of the       *)
(* writes that were delivered.  The proof follows what is believed of the  *)
(* curve before the launch too, when the writes still wait: their fold is  *)
(* the newest as well, so that the launch finds it.                        *)
(***************************************************************************)
THEOREM CurveFollowsTheChain == Spec => []CurveIsNewest
PROOF
<1>1. Init => CurveInv
  <2> SUFFICES ASSUME Init PROVE CurveInv
    OBVIOUS
  <2>1. FilterInv
    BY InitKeepsFilter
  <2>2. /\ written = {} /\ versions = <<>> /\ launched = FALSE /\ pending = <<>>
        /\ curve = Unwritten /\ Len(ledger) = 1
    BY DEF Init, Unwritten
  <2>3. SlotsGrow
    <3>1. LedgerTypeOK
      BY <2>1 DEF FilterInv
    <3>2. \A i \in 1 .. Len(ledger) : i = 1 /\ ledger[i].slot \in Nat
      BY <3>1, <2>2, LedgerIsTyped
    <3> QED
      BY <3>2 DEF SlotsGrow
  <2>4. VersionsAreNewest
    BY <2>2 DEF VersionsAreNewest
  <2>5. curve \in Curves
    BY <2>2 DEF Unwritten, Curves
  <2>6. Believed(curve, pending) = Newest(written)
    BY <2>2, <2>5, BelievedBegins DEF Newest
  <2>7. pending \in Seq(Messages)
    BY <2>2
  <2> QED
    BY <2>1, <2>2, <2>3, <2>4, <2>5, <2>6, <2>7 DEF CurveInv, CurveTypeOK
<1>2. CurveInv /\ [Next]_vars => CurveInv'
  <2> SUFFICES ASSUME CurveInv, [Next]_vars PROVE CurveInv'
    OBVIOUS
  <2>1. FilterInv' /\ MaxSlot \in Nat
    BY NextKeepsFilter, ViewAssumption DEF CurveInv
  <2>2. CASE \E x, y \in Accounts : Transfer(x, y)
    BY <2>1, <2>2, TransferKeepsCurve
  <2>3. CASE \E a \in Accounts, o \in Owners : Assign(a, o)
    BY <2>1, <2>3, AssignKeepsCurve
  <2>4. CASE \E n \in 1 .. Len(ledger) : HearTransaction(n)
    BY <2>1, <2>4, HearTransactionKeepsCurve
  <2>5. CASE \E n \in 1 .. Len(ledger) : HearWrite(n)
    BY <2>1, <2>5, HearWriteKeepsCurve
  <2>6. CASE UNCHANGED vars
    <3>1. UNCHANGED <<ledger, written, versions, launched, pending, curve>>
      BY <2>6 DEF vars, chainVars, filterVars, tokenVars
    <3>2. /\ Believed(curve', pending') = Believed(curve, pending)
          /\ Newest(written)' = Newest(written)
      BY <3>1 DEF Newest
    <3> QED
      BY <2>1, <3>1, <3>2 DEF CurveInv, CurveTypeOK, SlotsGrow, VersionsAreNewest
  <2> QED
    BY <2>2, <2>3, <2>4, <2>5, <2>6 DEF Next
<1>3. CurveInv => CurveIsNewest
  <2> SUFFICES ASSUME CurveInv, launched, written # {}
               PROVE  curve = [slot |-> ledger[Max(written)].slot, version |-> Max(written)]
    BY DEF CurveIsNewest
  <2>1. curve \in Curves /\ pending = <<>>
    BY DEF CurveInv, CurveTypeOK
  <2>2. Believed(curve, pending) = curve
    BY <2>1, BelievedBegins
  <2> QED
    BY <2>2 DEF CurveInv, Newest
<1> QED
  BY <1>1, <1>2, <1>3, PTL DEF Spec
=============================================================================
