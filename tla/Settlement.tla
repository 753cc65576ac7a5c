----------------------------- MODULE Settlement -----------------------------
(***************************************************************************)
(* What the documents promise of a signal seen ahead of the chain (README, *)
(* "every tentative sell is later reconciled against canonical Geyser      *)
(* outcome"): a signal that was taken in waits until one outcome is        *)
(* recorded for it, and that outcome is never taken back, replaced or      *)
(* recorded a second time.  How long a signal waits and which event        *)
(* answers it is left to the module that implements this one.              *)
(***************************************************************************)
CONSTANTS
  Signals,   \* what may be taken in
  Outcomes   \* what may be recorded of it

VARIABLES
  waiting,   \* taken in, not settled
  outcome    \* the outcome of each signal that is settled

settlementVars == <<waiting, outcome>>

Init ==
  /\ waiting = {}
  /\ outcome = [s \in {} |-> "none"]

(* One event may bring in signals and settle others: none comes back. *)
Step(new, settled) ==
  /\ new \subseteq Signals \ (waiting \cup DOMAIN outcome)
  /\ settled \subseteq waiting
  /\ waiting' = (waiting \cup new) \ settled
  /\ DOMAIN outcome' = DOMAIN outcome \cup settled
  /\ outcome' \in [DOMAIN outcome \cup settled -> Outcomes]
  /\ \A s \in DOMAIN outcome : outcome'[s] = outcome[s]

Next == \E new, settled \in SUBSET Signals : Step(new, settled)

Spec == Init /\ [][Next]_settlementVars
=============================================================================
