------------------------------ MODULE ChainView -----------------------------
(***************************************************************************)
(* What the trader believes of one token, from the Geyser stream: the      *)
(* filter of GeyserIngestor (crates/ingest-geyser/src/lib.rs), the         *)
(* GeyserEventNormalizer (crates/runtime/src/live_source.rs), and the      *)
(* curve and holders of the TokenState (crates/state/src/lib.rs).          *)
(*                                                                         *)
(* The chain is outside: transactions move units of the token between      *)
(* token accounts, and those that touch the vault of the curve also write  *)
(* the curve account.  The stream delivers transactions and writes in any  *)
(* order, again after a reconnection, or never.  Filter, normalizer and    *)
(* state are one step: a first-in first-out channel connects them, and     *)
(* nothing flows back.                                                     *)
(***************************************************************************)
EXTENDS Integers, SequencesExt

CONSTANTS
  Accounts,   \* token accounts of the mint
  Owners,     \* their owners
  Vault,      \* the token account of the bonding curve
  Program,    \* its owner
  Supply,     \* units minted at the launch
  Capacity,   \* capacity of the Deduplicator
  MaxTx,      \* bound on the transactions of the chain
  MaxSlot,    \* bound on the slots of the chain
  MaxPassed   \* bound on the messages that pass the filter

ASSUME ViewAssumption ==
  /\ IsFiniteSet(Accounts) /\ Vault \in Accounts
  /\ IsFiniteSet(Owners) /\ Program \in Owners
  /\ {Supply, Capacity, MaxTx, MaxSlot, MaxPassed} \subseteq Nat

VARIABLES
  ledger,    \* the chain: per transaction its slot, who trades in it, the
             \* token accounts it touches and what every account holds after
  heard,     \* transactions delivered at least once
  written,   \* writes of the curve account delivered at least once
  gapless,   \* no transaction was delivered before an earlier one
  queue,     \* Deduplicator.queue, which orders Deduplicator.seen
  passed,    \* every message that passed the filter, in order
  versions,  \* write_versions: per slot, of the curve account
  launched,  \* curve_to_mint knows the mint of the curve
  pending,   \* pending_curve_updates_by_curve_pubkey
  curve,     \* slot and write version of BondingCurveState
  accounts,  \* token_accounts, an absent one has balance 0
  owners,    \* owner_balances
  applied    \* applied_holder_update_keys

chainVars == <<ledger>>
filterVars == <<queue, passed, versions>>
tokenVars == <<launched, pending, curve, accounts, owners, applied>>
vars == <<chainVars, heard, written, gapless, filterVars, tokenVars>>

Empty == [a \in Accounts |-> [owner |-> Program, balance |-> 0]]

Init ==
  /\ ledger = << [slot |-> 1, touched |-> {Vault}, trader |-> {},
                  post |-> [Empty EXCEPT ![Vault].balance = Supply]] >>
  /\ heard = {} /\ written = {} /\ gapless = TRUE
  /\ queue = <<>> /\ passed = <<>> /\ versions = <<>>
  /\ launched = FALSE /\ pending = <<>>
  /\ curve = [slot |-> 0, version |-> 0]
  /\ accounts = Empty /\ owners = <<>> /\ applied = {}

-----------------------------------------------------------------------------
(* The chain.                                                              *)
Held == ledger[Len(ledger)].post

Execute(touched, trader, post) ==
  /\ Len(ledger) < MaxTx
  /\ \E s \in ledger[Len(ledger)].slot .. MaxSlot :
       ledger' = Append(ledger, [slot |-> s, touched |-> touched,
                                 trader |-> trader, post |-> post])
  /\ UNCHANGED <<heard, written, gapless, filterVars, tokenVars>>

(* A unit moves; it is a trade of the other owner when the vault is at one *)
(* end.  An empty account may have been closed and opened for anyone.      *)
Transfer(from, to) ==
  /\ from # to /\ Held[from].balance > 0
  /\ \E o \in Owners \ {Program} :
       LET owner == IF to = Vault \/ Held[to].balance > 0 THEN Held[to].owner ELSE o
           traders == CASE from = Vault -> {owner}
                        [] to = Vault -> {Held[from].owner}
                        [] OTHER -> {}
       IN Execute({from, to}, traders,
            [Held EXCEPT ![from].balance = @ - 1,
                         ![to] = [owner |-> owner, balance |-> @.balance + 1]])

(* A token account changes its owner.                                      *)
Assign(a, o) ==
  /\ a # Vault /\ Held[a].balance > 0 /\ o \in Owners \ {Program, Held[a].owner}
  /\ Execute({a}, {}, [Held EXCEPT ![a].owner = o])

-----------------------------------------------------------------------------
(* process_envelope.                                                       *)
Message(kind, n) == [kind |-> kind, slot |-> ledger[n].slot, n |-> n]

(* Slip: room is made for a key one key too early.                         *)
RememberedShort(key) ==
  LET q == Append(queue, key)
  IN IF Len(q) >= Capacity THEN Tail(q) ELSE q

(* Deduplicator::insert of a key it has not seen: the oldest makes room.   *)
Remembered(key) ==
  LET q == Append(queue, key)
  IN IF Len(q) > Capacity THEN Tail(q) ELSE q

Seen(key) == \E i \in DOMAIN queue : queue[i] = key

Pass(message) ==
  /\ Len(passed) < MaxPassed
  /\ passed' = Append(passed, message)
  /\ queue' = Remembered(message)

(* Only a write that is newer than the last of its slot is looked at.      *)
NewerWrite(message) ==
  message.slot \in DOMAIN versions => message.n > versions[message.slot]

-----------------------------------------------------------------------------
(* The token.                                                              *)

(* Slip: the slots are not compared.                                       *)
AfterWriteOfAnySlot(old, message) ==
  IF message.slot = old.slot /\ message.n < old.version THEN old
  ELSE [slot |-> message.slot, version |-> message.n]

(* BondingCurveState::apply_update.                                        *)
AfterWrite(old, message) ==
  IF \/ message.slot < old.slot
     \/ message.slot = old.slot /\ message.n < old.version
  THEN old
  ELSE [slot |-> message.slot, version |-> message.n]

(* The holder updates of transaction n, with the key each is applied once  *)
(* under: account, owner, balance and the transaction.                     *)
HolderUpdates(n) ==
  {[account |-> a, holding |-> ledger[n].post[a], n |-> n] : a \in ledger[n].touched}

(* Slip: the transaction is left out of the key.                           *)
FreshByBalance(n) ==
  {u \in HolderUpdates(n) :
     ~ \E v \in applied : v.account = u.account /\ v.holding = u.holding}

Fresh(n) == HolderUpdates(n) \ applied

(* rebuild_owner_balances_from_token_accounts: owners without a unit have  *)
(* no entry.                                                               *)
Rebuilt(held) ==
  LET ofOwner(o) == {a \in Accounts : held[a].owner = o /\ held[a].balance > 0}
  IN [o \in {o \in Owners : ofOwner(o) # {}} |->
        MapThenSumSet(LAMBDA a : held[a].balance, ofOwner(o))]

(* apply_trade_cost_basis gives the trader an entry, which the holder      *)
(* updates of the transaction then rebuild, if any is new.                 *)
ApplyTransaction(n) ==
  LET fresh == Fresh(n)
  IN /\ applied' = applied \cup fresh
     /\ accounts' = [a \in Accounts |->
          IF \E u \in fresh : u.account = a THEN ledger[n].post[a] ELSE accounts[a]]
     /\ owners' =
          IF fresh # {} THEN Rebuilt(accounts')
          ELSE [o \in DOMAIN owners \cup ledger[n].trader |->
                  IF o \in DOMAIN owners THEN owners[o] ELSE 0]

-----------------------------------------------------------------------------
(* The launch is the first transaction: it maps the curve to its mint, and *)
(* the writes that waited for it are applied.                              *)
HearTransaction(n) ==
  LET message == Message("tx", n)
  IN /\ heard' = heard \cup {n}
     /\ gapless' = (gapless /\ (n \in heard \/ n = Cardinality(heard) + 1))
     /\ UNCHANGED <<chainVars, written, versions>>
     /\ IF Seen(message)
        THEN UNCHANGED <<queue, passed, tokenVars>>
        ELSE /\ Pass(message)
             /\ launched' = (launched \/ n = 1)
             /\ pending' = IF n = 1 THEN <<>> ELSE pending
             /\ curve' = IF n = 1 THEN FoldLeft(AfterWrite, curve, pending) ELSE curve
             /\ ApplyTransaction(n)

(* A write of the curve account, by transaction n.                         *)
HearWrite(n) ==
  LET message == Message("curve", n)
  IN /\ Vault \in ledger[n].touched
     /\ written' = written \cup {n}
     /\ UNCHANGED <<chainVars, heard, gapless, accounts, owners, applied, launched>>
     /\ IF NewerWrite(message)
        THEN /\ versions' = [s \in DOMAIN versions \cup {message.slot} |->
                               IF s = message.slot THEN n ELSE versions[s]]
             /\ IF Seen(message)
                THEN UNCHANGED <<queue, passed, pending, curve>>
                ELSE /\ Pass(message)
                     /\ pending' = IF launched THEN pending ELSE Append(pending, message)
                     /\ curve' = IF launched THEN AfterWrite(curve, message) ELSE curve
        ELSE UNCHANGED <<filterVars, pending, curve>>

Next ==
  \/ \E x, y \in Accounts : Transfer(x, y)
  \/ \E a \in Accounts, o \in Owners : Assign(a, o)
  \/ \E n \in 1 .. Len(ledger) : HearTransaction(n) \/ HearWrite(n)

Spec == Init /\ [][Next]_vars

-----------------------------------------------------------------------------
(***************************************************************************)
(* The Deduplicator forgets its oldest keys.  A message passes the filter  *)
(* a second time only when it is a transaction and at least Capacity other *)
(* messages passed in between; a write of the curve never does, because    *)
(* write_versions is not forgotten.                                        *)
(***************************************************************************)
RepeatsNeedAFlood ==
  \A i, j \in 1 .. Len(passed) :
    i < j /\ passed[i] = passed[j] =>
      /\ passed[i].kind = "tx"
      /\ Cardinality({passed[k] : k \in i + 1 .. j - 1}) >= Capacity

(***************************************************************************)
(* Once the launch is known the curve is the newest of the writes that     *)
(* were delivered, whatever their order, those that waited for the launch  *)
(* and those the filter dropped included.                                  *)
(***************************************************************************)
CurveIsNewest ==
  launched /\ written # {} =>
    curve = [slot |-> ledger[Max(written)].slot, version |-> Max(written)]

(***************************************************************************)
(* As long as no transaction is delivered before an earlier one, every     *)
(* owner holds what the chain says, however often transactions are         *)
(* delivered again and whatever the Deduplicator has forgotten.            *)
(***************************************************************************)
HoldersAreTrue ==
  gapless /\ heard # {} =>
    LET truth == Rebuilt(ledger[Cardinality(heard)].post)
    IN /\ \A o \in DOMAIN truth : o \in DOMAIN owners /\ owners[o] = truth[o]
       /\ \A o \in DOMAIN owners \ DOMAIN truth : owners[o] = 0
=============================================================================
