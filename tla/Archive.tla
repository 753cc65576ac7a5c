------------------------------ MODULE Archive -------------------------------
(***************************************************************************)
(* What the documents promise of the records of a run                      *)
(* (docs/SAFETY.md:44, "low-disk mode may delete verified closed segments  *)
(* [...] but it must never delete open segments or unverified data";       *)
(* docs/R2_OFFLOAD.md:104), told of records and not of files: a record     *)
(* that was accepted is kept, somewhere; the saved manifest stands for     *)
(* some of the kept ones, and of these some are archived, in R2.  Nothing  *)
(* goes back.  What a crash may cost, against the promise, is a record     *)
(* that was accepted and not saved.                                        *)
(***************************************************************************)
CONSTANTS Records

VARIABLES
  accepted,  \* the records handed to the run
  kept,      \* those that a file or an object still holds
  saved,     \* those that the saved manifest stands for
  archived,  \* those in the objects that it calls verified
  crashed    \* the run ended before its time, and was started again

archiveVars == <<accepted, kept, saved, archived, crashed>>

Init ==
  /\ accepted = {} /\ kept = {} /\ saved = {} /\ archived = {}
  /\ crashed = FALSE

Accept(r) ==
  /\ r \notin accepted
  /\ accepted' = accepted \cup {r}
  /\ kept' = kept \cup {r}
  /\ UNCHANGED <<saved, archived, crashed>>

(* The manifest is saved: it stands for more, and calls more verified. *)
Save ==
  /\ saved \subseteq saved' /\ saved' \subseteq kept
  /\ archived \subseteq archived' /\ archived' \subseteq saved'
  /\ UNCHANGED <<accepted, kept, crashed>>

Crash ==
  /\ crashed' = TRUE
  /\ UNCHANGED <<accepted, kept, saved, archived>>

(* A restarted run writes over what its predecessor had not saved. *)
Lose ==
  /\ crashed
  /\ kept' \subseteq kept /\ saved \subseteq kept'
  /\ UNCHANGED <<accepted, saved, archived, crashed>>

Next == (\E r \in Records : Accept(r)) \/ Save \/ Crash \/ Lose

Spec == Init /\ [][Next]_archiveVars
=============================================================================
