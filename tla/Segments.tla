------------------------------ MODULE Segments ------------------------------
(***************************************************************************)
(* The segment spool of one live run: LiveRunSegmentManager of             *)
(* crates/runtime/src/segments.rs, with the part of the R2 client it calls *)
(* (crates/r2-storage/src/lib.rs).                                         *)
(*                                                                         *)
(* Records are appended to one `.open` file per artifact type.  A full or  *)
(* old file is closed: its bytes are written to a final file, the `.open`  *)
(* file is removed, and an entry is pushed on the in-memory manifest,      *)
(* which is then written to disk.  Closed segments are uploaded a few at a *)
(* time with bounded retries, verified, and pruned from the local disk.    *)
(*                                                                         *)
(* The manager is single threaded: an operation is never interleaved with  *)
(* another one.  What can interrupt it is the end of the process, so each  *)
(* operation is cut into one step per change of durable state, and         *)
(* CrashRestart may follow any of them.                                    *)
(***************************************************************************)
EXTENDS Naturals, FiniteSets

CONSTANTS
  ArtifactTypes,        \* the kinds of segment written by the run
  Records,              \* the records the pipeline may append
  NoId,                 \* no segment is being closed
  SegmentCapacity,      \* records that fill a segment (max_segment_size_bytes)
  MaxConcurrentUploads, \* max_concurrent_segment_uploads
  MaxUploadRetries,     \* max_upload_retries
  KeepLast,             \* keep_last_n_segments_local / max_local_verified_segments
  RetryFailedUploads,   \* retry_failed_uploads
  VerifyClosedSegments, \* verify_closed_segments
  DeleteVerified,       \* the four flags enforce_local_footprint_budget requires
  MaxSeq,               \* bound: sequence numbers per artifact type
  MaxFaults,            \* bound: failed or mismatched answers of R2
  MaxDamage,            \* bound: closed files damaged on disk
  MaxCrashes            \* bound: ends of the process, each followed by a restart

Ids == ArtifactTypes \X (1 .. MaxSeq)

ASSUME SegmentsAssumption ==
  /\ NoId \notin Ids
  /\ IsFiniteSet(ArtifactTypes) /\ IsFiniteSet(Records)
  /\ SegmentCapacity \in Nat \ {0}
  /\ MaxConcurrentUploads \in Nat \ {0}
  /\ MaxUploadRetries \in Nat \ {0}
  /\ KeepLast \in Nat \ {0}
  /\ RetryFailedUploads \in BOOLEAN
  /\ VerifyClosedSegments \in BOOLEAN
  /\ DeleteVerified \in BOOLEAN
  /\ MaxSeq \in Nat /\ MaxFaults \in Nat /\ MaxDamage \in Nat /\ MaxCrashes \in Nat

VARIABLES
  (* Local disk. A file is the set of records in it; {} is no file.        *)
  openFile,       \* the `.open` file of a segment
  finalFile,      \* its closed file
  damaged,        \* closed files whose bytes no longer validate
  diskManifest,   \* segment_manifest.json
  (* R2. *)
  remote,         \* the records held by the object of a segment
  remoteManifest, \* the uploaded copy of segment_manifest.json
  (* Memory of the process. *)
  manifest,       \* the manifest the manager works on
  openSeq,        \* sequence number of the open segment of a type, 0 if none
  counted,        \* records appended through that open segment (record_count)
  nextSeq,        \* next_sequence_by_type
  attempts,       \* retry_state[segment].attempts
  cooling,        \* segments whose retry backoff has not elapsed
  (* Where the running operation stands. *)
  stage, todo, current, batch, uploading,
  (* History. *)
  appended,       \* every record ever handed to append_line
  faults, damages, crashes

disk   == <<openFile, finalFile, damaged, diskManifest>>
r2     == <<remote, remoteManifest>>
writer == <<openSeq, counted, nextSeq>>
retry  == <<attempts, cooling>>
job    == <<stage, todo, current, batch, uploading>>
budget == <<faults, damages, crashes>>
vars   == <<disk, r2, manifest, writer, retry, job, appended, budget>>

Stages == {"idle", "closing", "written", "unlinked", "uploading", "pruning", "manifest"}

(***************************************************************************)
(* A manifest: the position of each entry in the list (0: not listed), the *)
(* records its record_count and checksum stand for, and the entry's flags. *)
(***************************************************************************)
Manifests == [position : [Ids -> Nat], contents : [Ids -> SUBSET Records],
              uploaded : SUBSET Ids, verified : SUBSET Ids,
              pruned : SUBSET Ids, failed : SUBSET Ids]

EmptyManifest == [position |-> [id \in Ids |-> 0], contents |-> [id \in Ids |-> {}],
                  uploaded |-> {}, verified |-> {}, pruned |-> {}, failed |-> {}]

Listed(m) == {id \in Ids : m.position[id] > 0}

OpenId(t) == <<t, openSeq[t]>>

TypeOK ==
  /\ openFile \in [Ids -> SUBSET Records]
  /\ finalFile \in [Ids -> SUBSET Records]
  /\ damaged \in SUBSET Ids
  /\ diskManifest \in Manifests
  /\ remote \in [Ids -> SUBSET Records]
  /\ remoteManifest \in Manifests
  /\ manifest \in Manifests
  /\ openSeq \in [ArtifactTypes -> 0 .. MaxSeq]
  /\ counted \in [ArtifactTypes -> SUBSET Records]
  /\ nextSeq \in [ArtifactTypes -> 1 .. MaxSeq + 1]
  /\ attempts \in [Ids -> 0 .. MaxUploadRetries]
  /\ cooling \in SUBSET Ids
  /\ stage \in Stages
  /\ todo \in SUBSET ArtifactTypes
  /\ current \in Ids \cup {NoId}
  /\ batch \in SUBSET Ids
  /\ uploading \in BOOLEAN
  /\ appended \in SUBSET Records
  /\ faults \in 0 .. MaxFaults /\ damages \in 0 .. MaxDamage /\ crashes \in 0 .. MaxCrashes

(* The first start of the run: an empty report directory and no object. *)
Init ==
  /\ openFile = [id \in Ids |-> {}]
  /\ finalFile = [id \in Ids |-> {}]
  /\ damaged = {}
  /\ diskManifest = EmptyManifest
  /\ remote = [id \in Ids |-> {}]
  /\ remoteManifest = EmptyManifest
  /\ manifest = EmptyManifest
  /\ openSeq = [t \in ArtifactTypes |-> 0]
  /\ counted = [t \in ArtifactTypes |-> {}]
  /\ nextSeq = [t \in ArtifactTypes |-> 1]
  /\ attempts = [id \in Ids |-> 0]
  /\ cooling = {}
  /\ stage = "idle" /\ todo = {} /\ current = NoId /\ batch = {} /\ uploading = FALSE
  /\ appended = {}
  /\ faults = 0 /\ damages = 0 /\ crashes = 0

-----------------------------------------------------------------------------
(* Appending. *)

(***************************************************************************)
(* append_line: take the open segment of the type, or open the next        *)
(* sequence number of it; append the line to the `.open` file, creating it *)
(* when it is absent; close the segment when it is full.                   *)
(***************************************************************************)
AppendLine(t, r) ==
  /\ stage = "idle"
  /\ r \notin appended
  /\ openSeq[t] = 0 => nextSeq[t] <= MaxSeq
  /\ LET fresh == openSeq[t] = 0
         seq   == IF fresh THEN nextSeq[t] ELSE openSeq[t]
         count == (IF fresh THEN {} ELSE counted[t]) \cup {r}
     IN  /\ openFile' = [openFile EXCEPT ![<<t, seq>>] = @ \cup {r}]
         /\ openSeq' = [openSeq EXCEPT ![t] = seq]
         /\ counted' = [counted EXCEPT ![t] = count]
         /\ nextSeq' = IF fresh THEN [nextSeq EXCEPT ![t] = seq + 1] ELSE nextSeq
         /\ IF Cardinality(count) >= SegmentCapacity
              THEN stage' = "closing" /\ todo' = {t}
              ELSE UNCHANGED <<stage, todo>>
  /\ appended' = appended \cup {r}
  /\ UNCHANGED <<finalFile, damaged, diskManifest, r2, manifest, retry,
                 current, batch, uploading, budget>>

(* close_segments_due_to_age: some of the open segments are too old. *)
CloseDueToAge ==
  /\ stage = "idle"
  /\ \E old \in SUBSET {t \in ArtifactTypes : openSeq[t] # 0} :
       old # {} /\ todo' = old
  /\ stage' = "closing"
  /\ UNCHANGED <<disk, r2, manifest, writer, retry, current, batch, uploading,
                 appended, budget>>

(* close_all_open_segments. *)
CloseAll ==
  /\ stage = "idle"
  /\ todo' = {t \in ArtifactTypes : openSeq[t] # 0}
  /\ todo' # {}
  /\ stage' = "closing"
  /\ UNCHANGED <<disk, r2, manifest, writer, retry, current, batch, uploading,
                 appended, budget>>

-----------------------------------------------------------------------------
(* close_segment, one step per change of the disk. *)

(* The segment t has been dealt with: close the next one or return. *)
CloseNext(t) ==
  /\ todo' = todo \ {t}
  /\ stage' = IF todo' = {} THEN "idle" ELSE "closing"

(***************************************************************************)
(* The bytes of the `.open` file do not hold exactly the counted records:  *)
(* the segment is put back among the open ones, and the manifest saved.    *)
(***************************************************************************)
RejectBeforeWrite(t) ==
  /\ stage = "closing" /\ t \in todo
  /\ openFile[OpenId(t)] # counted[t]
  /\ diskManifest' = manifest
  /\ CloseNext(t)
  /\ UNCHANGED <<openFile, finalFile, damaged, r2, manifest, writer, retry,
                 current, batch, uploading, appended, budget>>

(* Slip: the final path is built from the counter, already incremented. *)
WriteFinalAtNext(t) ==
  /\ stage = "closing" /\ t \in todo
  /\ openFile[OpenId(t)] = counted[t]
  /\ nextSeq[t] <= MaxSeq
  /\ finalFile' = [finalFile EXCEPT ![<<t, nextSeq[t]>>] = counted[t]]
  /\ damaged' = damaged \ {OpenId(t)}
  /\ stage' = "written" /\ current' = OpenId(t)
  /\ UNCHANGED <<openFile, diskManifest, r2, manifest, writer, retry, todo, batch,
                 uploading, appended, budget>>

(* atomic_write_bytes: temporary file, fsync, rename over the final path. *)
WriteFinal(t) ==
  /\ stage = "closing" /\ t \in todo
  /\ openFile[OpenId(t)] = counted[t]
  /\ finalFile' = [finalFile EXCEPT ![OpenId(t)] = counted[t]]
  /\ damaged' = damaged \ {OpenId(t)}
  /\ stage' = "written" /\ current' = OpenId(t)
  /\ UNCHANGED <<openFile, diskManifest, r2, manifest, writer, retry, todo, batch,
                 uploading, appended, budget>>

(* The file read back does not validate: the segment stays open. *)
RejectAfterWrite(t) ==
  /\ stage = "written" /\ current = OpenId(t) /\ current \in damaged
  /\ diskManifest' = manifest
  /\ current' = NoId
  /\ CloseNext(t)
  /\ UNCHANGED <<openFile, finalFile, damaged, r2, manifest, writer, retry,
                 batch, uploading, appended, budget>>

(***************************************************************************)
(* The file read back validates: a fresh entry is pushed on the manifest   *)
(* in memory.  The `.open` file is removed before, and a removal that      *)
(* fails is ignored: the file stays, and the entry is pushed all the same. *)
(***************************************************************************)
UnlinkOpen(t) ==
  /\ stage = "written" /\ current = OpenId(t) /\ current \notin damaged
  /\ openFile' \in {openFile, [openFile EXCEPT ![current] = {}]}
  /\ manifest' = [manifest EXCEPT
       !.position[current] = Cardinality(Listed(manifest)) + 1,
       !.contents[current] = finalFile[current],
       !.uploaded = @ \ {current}, !.verified = @ \ {current},
       !.pruned = @ \ {current}, !.failed = @ \ {current}]
  /\ openSeq' = [openSeq EXCEPT ![t] = 0]
  /\ counted' = [counted EXCEPT ![t] = {}]
  /\ stage' = "unlinked"
  /\ UNCHANGED <<finalFile, damaged, diskManifest, r2, nextSeq, retry, todo,
                 current, batch, uploading, appended, budget>>

(* write_all_reports at the end of close_segment. *)
RegisterClosed(t) ==
  /\ stage = "unlinked" /\ current[1] = t
  /\ diskManifest' = manifest
  /\ current' = NoId
  /\ CloseNext(t)
  /\ UNCHANGED <<openFile, finalFile, damaged, r2, manifest, writer, retry,
                 batch, uploading, appended, budget>>

-----------------------------------------------------------------------------
(* process_background_uploads. *)

Pending == {id \in Listed(manifest) :
              /\ id \notin manifest.uploaded
              /\ id \notin manifest.pruned
              /\ finalFile[id] # {}}

(* The candidates are the first MaxConcurrentUploads pending entries. *)
Candidates ==
  {id \in Pending :
     Cardinality({j \in Pending : manifest.position[j] < manifest.position[id]})
       < MaxConcurrentUploads}

StartUploads ==
  /\ stage = "idle"
  /\ batch' = Candidates
  /\ stage' = "uploading" /\ uploading' = TRUE
  /\ UNCHANGED <<disk, r2, manifest, writer, retry, todo, current, appended, budget>>

(* Slip: one attempt too many. *)
SkippedUploadTooLate(id) ==
  \/ ~RetryFailedUploads /\ id \in manifest.failed
  \/ attempts[id] > MaxUploadRetries
  \/ id \in cooling

(* Slip: the first failed attempt already counts as the last one. *)
SkippedUploadTooEarly(id) ==
  \/ ~RetryFailedUploads /\ id \in manifest.failed
  \/ attempts[id] + 1 >= MaxUploadRetries
  \/ id \in cooling

(***************************************************************************)
(* try_upload_segment gives up on a candidate without calling R2.  Its     *)
(* test on errors that start with `segment_integrity_failed:` is left out: *)
(* no error of the manager starts so, RefuseDamaged's being                *)
(* `segment_integrity_failed_before_upload:`.                              *)
(***************************************************************************)
SkippedUpload(id) ==
  \/ ~RetryFailedUploads /\ id \in manifest.failed
  \/ attempts[id] >= MaxUploadRetries
  \/ id \in cooling

SkipUpload(id) ==
  /\ stage = "uploading" /\ id \in batch
  /\ SkippedUpload(id)
  /\ batch' = batch \ {id}
  /\ UNCHANGED <<disk, r2, manifest, writer, retry, stage, todo, current, uploading,
                 appended, budget>>

(* The file is validated again before the upload; a damaged one stays listed. *)
RefuseDamaged(id) ==
  /\ stage = "uploading" /\ id \in batch
  /\ ~SkippedUpload(id) /\ id \in damaged
  /\ manifest' = [manifest EXCEPT !.failed = @ \cup {id}]
  /\ batch' = batch \ {id}
  /\ UNCHANGED <<disk, r2, writer, retry, stage, todo, current, uploading,
                 appended, budget>>

Uploadable(id) ==
  /\ stage = "uploading" /\ id \in batch
  /\ ~SkippedUpload(id) /\ id \notin damaged

(* upload_prepared returned Ok: the entry takes its flags, the retries end. *)
UploadReturned(id, verified) ==
  /\ manifest' = [manifest EXCEPT
       !.uploaded = @ \cup {id},
       !.verified = IF verified THEN @ \cup {id} ELSE @ \ {id},
       !.contents[id] = finalFile[id],
       !.failed = @ \ {id}]
  /\ attempts' = [attempts EXCEPT ![id] = 0]
  /\ cooling' = cooling \ {id}
  /\ batch' = batch \ {id}

(* The object is stored and, when asked, the HEAD request confirms it. *)
UploadSucceeds(id) ==
  /\ Uploadable(id)
  /\ remote' = [remote EXCEPT ![id] = finalFile[id]]
  /\ UploadReturned(id, VerifyClosedSegments)
  /\ UNCHANGED <<disk, remoteManifest, writer, stage, todo, current, uploading,
                 appended, budget>>

(* Slip: any answered HEAD request counts as a verification. *)
UploadMismatchesAccepted(id) ==
  /\ Uploadable(id) /\ VerifyClosedSegments
  /\ faults < MaxFaults /\ faults' = faults + 1
  /\ remote' = [remote EXCEPT ![id] = {}]
  /\ UploadReturned(id, TRUE)
  /\ UNCHANGED <<disk, remoteManifest, writer, stage, todo, current, uploading,
                 appended, damages, crashes>>

(* The HEAD request answers another size or checksum: uploaded, not verified. *)
UploadMismatches(id) ==
  /\ Uploadable(id) /\ VerifyClosedSegments
  /\ faults < MaxFaults /\ faults' = faults + 1
  /\ remote' = [remote EXCEPT ![id] = {}]
  /\ UploadReturned(id, FALSE)
  /\ UNCHANGED <<disk, remoteManifest, writer, stage, todo, current, uploading,
                 appended, damages, crashes>>

(***************************************************************************)
(* The PUT or the HEAD request fails.  The object may be stored all the    *)
(* same: the PUT's answer was lost, or only the HEAD failed.               *)
(***************************************************************************)
UploadFails(id) ==
  /\ Uploadable(id)
  /\ faults < MaxFaults /\ faults' = faults + 1
  /\ remote' \in {remote, [remote EXCEPT ![id] = finalFile[id]]}
  /\ manifest' = [manifest EXCEPT !.failed = @ \cup {id}]
  /\ attempts' = [attempts EXCEPT ![id] = @ + 1]
  /\ cooling' = cooling \cup {id}
  /\ batch' = batch \ {id}
  /\ UNCHANGED <<disk, remoteManifest, writer, stage, todo, current, uploading,
                 appended, damages, crashes>>

UploadsDone ==
  /\ stage = "uploading" /\ batch = {}
  /\ stage' = "pruning"
  /\ UNCHANGED <<disk, r2, manifest, writer, retry, todo, current, batch, uploading,
                 appended, budget>>

(* retry_backoff_seconds have passed since the last attempt. *)
BackoffElapses(id) ==
  /\ id \in cooling
  /\ cooling' = cooling \ {id}
  /\ UNCHANGED <<disk, r2, manifest, writer, attempts, job, appended, budget>>

-----------------------------------------------------------------------------
(* enforce_local_footprint_budget, called by the disk tick and after uploads. *)

EnforceBudget ==
  /\ stage = "idle"
  /\ stage' = "pruning"
  /\ UNCHANGED <<disk, r2, manifest, writer, retry, todo, current, batch, uploading,
                 appended, budget>>

NewerVerified(id) ==
  {j \in manifest.verified : j[1] = id[1] /\ j[2] > id[2]}

(* Slip: the preserved window is one short. *)
PrunableOneMore(id) ==
  /\ DeleteVerified
  /\ id \in manifest.verified
  /\ id \notin manifest.pruned
  /\ Cardinality(NewerVerified(id)) + 1 >= KeepLast

(* Slip: an uploaded segment is pruned without waiting for its verification. *)
PrunableWhenUploaded(id) ==
  /\ DeleteVerified
  /\ id \in manifest.uploaded
  /\ id \notin manifest.pruned
  /\ Cardinality(NewerVerified(id)) >= KeepLast

(* Verified entries of a type, but for the KeepLast of highest sequence. *)
Prunable(id) ==
  /\ DeleteVerified
  /\ id \in manifest.verified
  /\ id \notin manifest.pruned
  /\ Cardinality(NewerVerified(id)) >= KeepLast

PruneSegment(id) ==
  /\ stage = "pruning" /\ Prunable(id)
  /\ finalFile' = [finalFile EXCEPT ![id] = {}]
  /\ damaged' = damaged \ {id}
  /\ manifest' = [manifest EXCEPT !.pruned = @ \cup {id}]
  /\ UNCHANGED <<openFile, diskManifest, r2, writer, retry, job, appended, budget>>

PruneDone ==
  /\ stage = "pruning"
  /\ \A id \in Ids : ~Prunable(id)
  /\ diskManifest' = manifest
  /\ stage' = IF uploading THEN "manifest" ELSE "idle"
  /\ UNCHANGED <<openFile, finalFile, damaged, r2, manifest, writer, retry, todo,
                 current, batch, uploading, appended, budget>>

(* upload_segment_manifest sends the file on disk; a failure is only noted. *)
UploadManifest ==
  /\ stage = "manifest"
  /\ \/ remoteManifest' = diskManifest /\ UNCHANGED faults
     \/ faults < MaxFaults /\ faults' = faults + 1 /\ UNCHANGED remoteManifest
  /\ stage' = "idle" /\ uploading' = FALSE
  /\ UNCHANGED <<disk, remote, manifest, writer, retry, todo, current, batch,
                 appended, damages, crashes>>

-----------------------------------------------------------------------------
(* Environment. *)

(* The bytes of a closed file change on disk. *)
DamageFile(id) ==
  /\ finalFile[id] # {} /\ id \notin damaged
  /\ damages < MaxDamage /\ damages' = damages + 1
  /\ damaged' = damaged \cup {id}
  /\ UNCHANGED <<openFile, finalFile, diskManifest, r2, manifest, writer, retry,
                 job, appended, faults, crashes>>

(* Slip: the highest listed sequence number is taken again. *)
NextSequenceReusesLast(m, t, n) ==
  /\ \A id \in Listed(m) : id[1] = t => id[2] <= n
  /\ n = 1 \/ <<t, n>> \in Listed(m)

(***************************************************************************)
(* The process ends, by a crash or by the `?` of a failed file operation,  *)
(* and from_loaded starts again under the same run id: the manifest is     *)
(* read from disk, sequence numbers go on after the highest one listed,    *)
(* nothing is open, and no attempt is remembered.                          *)
(***************************************************************************)
NextSequence(m, t, n) ==
  /\ \A id \in Listed(m) : id[1] = t => id[2] < n
  /\ n = 1 \/ <<t, n - 1>> \in Listed(m)

(* Slip: the manifest left by the previous process is not loaded. *)
CrashRestartAfresh ==
  /\ crashes < MaxCrashes /\ crashes' = crashes + 1
  /\ manifest' = EmptyManifest
  /\ openSeq' = [t \in ArtifactTypes |-> 0]
  /\ counted' = [t \in ArtifactTypes |-> {}]
  /\ nextSeq' = [t \in ArtifactTypes |-> 1]
  /\ attempts' = [id \in Ids |-> 0]
  /\ cooling' = {}
  /\ stage' = "idle" /\ todo' = {} /\ current' = NoId /\ batch' = {} /\ uploading' = FALSE
  /\ UNCHANGED <<disk, r2, appended, faults, damages>>

CrashRestart ==
  /\ crashes < MaxCrashes /\ crashes' = crashes + 1
  /\ manifest' = diskManifest
  /\ openSeq' = [t \in ArtifactTypes |-> 0]
  /\ counted' = [t \in ArtifactTypes |-> {}]
  /\ nextSeq' \in [ArtifactTypes -> 1 .. MaxSeq + 1]
  /\ \A t \in ArtifactTypes : NextSequence(diskManifest, t, nextSeq'[t])
  /\ attempts' = [id \in Ids |-> 0]
  /\ cooling' = {}
  /\ stage' = "idle" /\ todo' = {} /\ current' = NoId /\ batch' = {} /\ uploading' = FALSE
  /\ UNCHANGED <<disk, r2, appended, faults, damages>>

-----------------------------------------------------------------------------

CloseSegment(t) ==
  \/ RejectBeforeWrite(t) \/ WriteFinal(t)
  \/ RejectAfterWrite(t) \/ UnlinkOpen(t) \/ RegisterClosed(t)

TryUploadSegment(id) ==
  \/ SkipUpload(id) \/ RefuseDamaged(id)
  \/ UploadSucceeds(id) \/ UploadMismatches(id) \/ UploadFails(id)

Next ==
  \/ \E t \in ArtifactTypes, r \in Records : AppendLine(t, r)
  \/ CloseDueToAge \/ CloseAll
  \/ \E t \in ArtifactTypes : CloseSegment(t)
  \/ StartUploads
  \/ \E id \in Ids : TryUploadSegment(id)
  \/ UploadsDone
  \/ \E id \in Ids : BackoffElapses(id)
  \/ EnforceBudget
  \/ \E id \in Ids : PruneSegment(id)
  \/ PruneDone
  \/ UploadManifest
  \/ \E id \in Ids : DamageFile(id)
  \/ CrashRestart

Spec == Init /\ [][Next]_vars

(***************************************************************************)
(* The steps of an operation run to its end; the disk tick keeps starting  *)
(* upload passes (it competes with appends in an unbiased select!, hence   *)
(* the strong fairness); clocks advance.  Nothing obliges R2 to fail, a    *)
(* file to be damaged or the process to crash.                             *)
(***************************************************************************)
Fairness ==
  /\ \A t \in ArtifactTypes : WF_vars(CloseSegment(t))
  /\ \A id \in Ids : WF_vars(TryUploadSegment(id))
  /\ WF_vars(UploadsDone)
  /\ \A id \in Ids : WF_vars(PruneSegment(id))
  /\ WF_vars(PruneDone)
  /\ WF_vars(UploadManifest)
  /\ \A id \in Ids : WF_vars(BackoffElapses(id))
  /\ SF_vars(StartUploads)

FairSpec == Spec /\ Fairness

-----------------------------------------------------------------------------
(* Properties. *)

(* The records a segment holds, on the local disk or in R2. *)
Held(id) == openFile[id] \cup finalFile[id] \cup remote[id]

KeptRecords == UNION {Held(id) : id \in Ids}

(***************************************************************************)
(* A segment that segment_manifest.json lists is retained: the records its *)
(* entry stands for are the content of its local file or of its object.    *)
(* It is what pruning, retried uploads and the reuse of sequence numbers   *)
(* after a restart could break (close_segment, from_loaded,                *)
(* prune_verified_closed_segments).                                        *)
(***************************************************************************)
PersistedSegmentRetained ==
  \A id \in Listed(diskManifest) :
    diskManifest.contents[id] \in {finalFile[id], remote[id]}

(***************************************************************************)
(* A verified entry can be restored: restore_segment_file_from_remote      *)
(* downloads the object of a verified entry and requires the checksum of   *)
(* the entry.  It holds of the manifest in memory, of the one on disk and  *)
(* of the copy in R2, through crashes, lost answers and mismatches.        *)
(***************************************************************************)
VerifiedIsRestorable ==
  \A m \in {manifest, diskManifest, remoteManifest} :
    \A id \in m.verified : remote[id] = m.contents[id]

(***************************************************************************)
(* Nothing is uploaded before its writer closed it and its entry was saved *)
(* (try_upload_segment after close_segment), and nothing is appended to it *)
(* afterwards, also by a restarted run: an object belongs to a segment     *)
(* listed on disk, holds the records its saved entry stands for, and an    *)
(* `.open` file that could not be removed has no record the object lacks.  *)
(***************************************************************************)
NoUploadBeforeClose ==
  \A id \in Ids :
    remote[id] # {} =>
      /\ id \in Listed(diskManifest)
      /\ remote[id] = diskManifest.contents[id]
      /\ openFile[id] \subseteq remote[id]

(* A record is never held under two segment ids, whatever the crashes. *)
OneSegmentPerRecord ==
  \A i, j \in Ids :
    i # j => Held(i) \cap Held(j) = {}

(***************************************************************************)
(* Pruning (prune_verified_closed_segments) never reaches the KeepLast     *)
(* newest segments of a type, even when segments get verified out of order *)
(* or a restart falls between the removal of a file and the next save of   *)
(* the manifest: a listed segment without a local file has KeepLast listed *)
(* ones after it.                                                          *)
(***************************************************************************)
NewestStaysLocal ==
  \A id \in Listed(manifest) :
    finalFile[id] = {} =>
      Cardinality({j \in Listed(manifest) : j[1] = id[1] /\ j[2] > id[2]}) >= KeepLast

(***************************************************************************)
(* segment_manifest.json only makes progress, through crashes too: an      *)
(* entry is never dropped, rewritten for other records, or taken back from *)
(* verified or pruned.                                                     *)
(***************************************************************************)
DurableProgress ==
  [][/\ Listed(diskManifest) \subseteq Listed(diskManifest')
     /\ diskManifest.verified \subseteq diskManifest'.verified
     /\ diskManifest.pruned \subseteq diskManifest'.pruned
     /\ \A id \in Listed(diskManifest) :
          diskManifest'.contents[id] = diskManifest.contents[id]]_vars

(* Every record accepted by append_line is held by a file or an object. *)
NoRecordLost ==
  appended \subseteq KeptRecords

(***************************************************************************)
(* A run that does not crash loses no record it accepted, whatever R2      *)
(* answers and whatever is pruned.  A crash between the removal of an `.open`*)
(* file and the save of the manifest makes the restarted run reuse the     *)
(* sequence number and overwrite the closed file.                          *)
(***************************************************************************)
AcceptedRecordsKept == crashes = 0 => NoRecordLost

(***************************************************************************)
(* The spool implements Archive.  A record is kept by the files and the    *)
(* object of a segment, saved once segment_manifest.json lists a segment   *)
(* with it, and archived when the object of a verified entry holds it.     *)
(* What is saved is never lost, what is archived stays in R2, and only a   *)
(* run that was started again may write over a record (append_line,        *)
(* close_segment, try_upload_segment, prune_verified_closed_segments).     *)
(***************************************************************************)
SavedRecords    == UNION {diskManifest.contents[id] : id \in Listed(diskManifest)}
ArchivedRecords == UNION {remote[id] : id \in diskManifest.verified}

A == INSTANCE Archive WITH
       accepted <- appended, kept <- KeptRecords, saved <- SavedRecords,
       archived <- ArchivedRecords, crashed <- crashes > 0

ArchiveBehaves == A!Spec

(***************************************************************************)
(* A closed segment ends up in R2: it is marked uploaded, or an object was *)
(* stored by an attempt whose answer was lost, or its file was damaged.    *)
(***************************************************************************)
ClosedSegmentsReachR2 ==
  \A id \in Ids :
    (id \in Listed(diskManifest))
      ~> (id \in manifest.uploaded \/ remote[id] # {} \/ id \in damaged)

-----------------------------------------------------------------------------
(* What the documentation says and the code does not do (see README). *)

(***************************************************************************)
(* docs/EDGE_VPS_LOCAL_POLICY.md: "Never delete unverified run data."  The *)
(* restart of a run must not lose a record that no verified object holds.  *)
(***************************************************************************)
UnverifiedDataKept == NoRecordLost
=============================================================================
