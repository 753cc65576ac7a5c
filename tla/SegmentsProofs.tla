--------------------------- MODULE SegmentsProofs ---------------------------
(***************************************************************************)
(* Proofs about Segments for every value of its constants: any number of   *)
(* crashes, faults and damaged files.                                      *)
(***************************************************************************)
EXTENDS Segments, FoldLemmas, TLAPS

(* The segments still to be closed are open; the current one comes first.   *)
JobOpen ==
  /\ stage \in {"closing", "written"} => \A t \in todo : openSeq[t] # 0
  /\ stage = "written" => current \in Ids /\ current[1] \in todo
  /\ stage = "unlinked" => /\ current \in Ids
                           /\ current[1] \in todo
                           /\ \A t \in todo \ {current[1]} : openSeq[t] # 0

(* What is listed on disk trails what is listed in memory by one segment.  *)
ManifestSync ==
  /\ Listed(diskManifest) \subseteq Listed(manifest)
  /\ stage # "unlinked" => Listed(manifest) = Listed(diskManifest)
  /\ stage = "unlinked" => Listed(manifest) = Listed(diskManifest) \cup {current}
  /\ \A id \in Listed(diskManifest) : diskManifest.contents[id] = manifest.contents[id]
  /\ diskManifest.uploaded \subseteq manifest.uploaded
  /\ diskManifest.verified \subseteq manifest.verified
  /\ diskManifest.pruned \subseteq manifest.pruned
  /\ remoteManifest.verified \subseteq diskManifest.verified
  /\ \A id \in remoteManifest.verified : remoteManifest.contents[id] = diskManifest.contents[id]

(* Sequence numbers are never given twice to a listed segment. *)
SequenceOrder ==
  /\ \A id \in Listed(manifest) : id[2] < nextSeq[id[1]]
  /\ \A t \in ArtifactTypes : openSeq[t] # 0 =>
       /\ openSeq[t] < nextSeq[t]
       /\ OpenId(t) \notin Listed(manifest)

(* Where the records of a listed segment are. *)
ListedData ==
  \A id \in Listed(manifest) :
    \/ finalFile[id] = manifest.contents[id]
    \/ finalFile[id] = {} /\ remote[id] = manifest.contents[id]

Flags ==
  /\ manifest.verified \subseteq manifest.uploaded
  /\ manifest.uploaded \subseteq Listed(diskManifest)
  /\ manifest.pruned \subseteq manifest.verified
  /\ diskManifest.verified \subseteq diskManifest.uploaded
  /\ diskManifest.pruned \subseteq diskManifest.verified
  /\ \A id \in manifest.verified : remote[id] = manifest.contents[id]
  /\ \A id \in Ids : remote[id] # {} => id \in Listed(diskManifest)

(* What an upload pass and a close rely on. *)
JobState ==
  /\ batch # {} => stage = "uploading"
  /\ \A id \in batch : /\ id \in Listed(diskManifest)
                       /\ id \notin manifest.uploaded
                       /\ finalFile[id] # {}
  /\ stage = "unlinked" => current \notin Listed(diskManifest)

IInv == TypeOK /\ JobOpen /\ ManifestSync /\ SequenceOrder /\ ListedData /\ Flags /\ JobState

-----------------------------------------------------------------------------
(* The position given to a new entry is a natural number. *)
LEMMA ListedFinite ==
  ASSUME NEW m \in Manifests
  PROVE  Cardinality(Listed(m)) \in Nat
<1>1. IsFiniteSet(1 .. MaxSeq)
  BY FS_Interval, SegmentsAssumption
<1>2. IsFiniteSet(Ids)
  BY <1>1, FS_Product, SegmentsAssumption DEF Ids
<1>3. IsFiniteSet(Listed(m))
  BY <1>2, FS_Subset DEF Listed
<1>4. QED
  BY <1>3, FS_CardinalityType

(* The segment that an open file becomes is a segment. *)
LEMMA OpenIdType ==
  ASSUME TypeOK, NEW t \in ArtifactTypes, openSeq[t] # 0
  PROVE  OpenId(t) \in Ids
BY SegmentsAssumption DEF OpenId, Ids, TypeOK

(* The manifest of a fresh run is a manifest. *)
LEMMA EmptyManifestType == EmptyManifest \in Manifests
BY DEF EmptyManifest, Manifests

(* The first state has the types. *)
LEMMA TypeInit == Init => TypeOK
<1> SUFFICES ASSUME Init PROVE TypeOK
  OBVIOUS
<1>1. /\ openSeq \in [ArtifactTypes -> 0 .. MaxSeq]
      /\ nextSeq \in [ArtifactTypes -> 1 .. MaxSeq + 1]
      /\ attempts \in [Ids -> 0 .. MaxUploadRetries]
      /\ faults \in 0 .. MaxFaults /\ damages \in 0 .. MaxDamage /\ crashes \in 0 .. MaxCrashes
  BY SegmentsAssumption DEF Init
<1> QED
  BY <1>1, EmptyManifestType DEF Init, TypeOK, Stages

(* An answered upload leaves a manifest, and no attempt. *)
LEMMA UploadReturnedType ==
  ASSUME TypeOK, NEW id \in Ids, NEW verified \in BOOLEAN, UploadReturned(id, verified)
  PROVE  /\ manifest' \in Manifests
         /\ attempts' \in [Ids -> 0 .. MaxUploadRetries]
         /\ cooling' \in SUBSET Ids
         /\ batch' \in SUBSET Ids
<1>1. manifest' \in Manifests
  <2>1. manifest \in Manifests /\ finalFile[id] \in SUBSET Records
    BY DEF TypeOK
  <2>2. [manifest.contents EXCEPT ![id] = finalFile[id]] \in [Ids -> SUBSET Records]
    BY <2>1 DEF Manifests
  <2>3. manifest' = [position |-> manifest.position,
                     contents |-> [manifest.contents EXCEPT ![id] = finalFile[id]],
                     uploaded |-> manifest.uploaded \cup {id},
                     verified |-> IF verified THEN manifest.verified \cup {id}
                                              ELSE manifest.verified \ {id},
                     pruned   |-> manifest.pruned,
                     failed   |-> manifest.failed \ {id}]
    BY <2>1 DEF UploadReturned, Manifests
  <2> QED
    BY <2>1, <2>2, <2>3 DEF Manifests
<1> QED
  BY <1>1, SegmentsAssumption DEF UploadReturned, TypeOK

(* Every step keeps the variables in their types. *)
LEMMA TypeNext == TypeOK /\ JobOpen /\ [Next]_vars => TypeOK'
<1> SUFFICES ASSUME TypeOK, JobOpen, [Next]_vars PROVE TypeOK'
  OBVIOUS
<1> USE SegmentsAssumption DEF disk, r2, writer, retry, job, budget
<1>1. ASSUME NEW t \in ArtifactTypes, NEW r \in Records, AppendLine(t, r)
      PROVE  TypeOK'
  BY <1>1 DEF AppendLine, TypeOK, Ids, Stages
<1>2. CASE CloseDueToAge
  BY <1>2 DEF CloseDueToAge, TypeOK, Stages
<1>3. CASE CloseAll
  BY <1>3 DEF CloseAll, TypeOK, Stages
<1>4. ASSUME NEW t \in ArtifactTypes, CloseSegment(t)
      PROVE  TypeOK'
  <2>1. CASE RejectBeforeWrite(t)
    BY <2>1 DEF RejectBeforeWrite, CloseNext, TypeOK, Stages
  <2>2. CASE WriteFinal(t)
    <3>1. OpenId(t) \in Ids
      BY <2>2, OpenIdType DEF WriteFinal, JobOpen
    <3> QED
      BY <2>2, <3>1 DEF WriteFinal, TypeOK, Stages
  <2>3. CASE RejectAfterWrite(t)
    BY <2>3 DEF RejectAfterWrite, CloseNext, TypeOK, Stages
  <2>4. CASE UnlinkOpen(t)
    <3>1. Cardinality(Listed(manifest)) + 1 \in Nat
      BY ListedFinite DEF TypeOK
    <3>2. manifest' \in Manifests
      <4>1. [manifest.position EXCEPT ![current] = Cardinality(Listed(manifest)) + 1] \in [Ids -> Nat]
        BY <3>1 DEF TypeOK, Manifests
      <4>2. [manifest.contents EXCEPT ![current] = finalFile[current]] \in [Ids -> SUBSET Records]
        BY DEF TypeOK, Manifests
      <4>3. manifest' = [position |-> [manifest.position EXCEPT ![current] = Cardinality(Listed(manifest)) + 1],
                         contents |-> [manifest.contents EXCEPT ![current] = finalFile[current]],
                         uploaded |-> manifest.uploaded \ {current},
                         verified |-> manifest.verified \ {current},
                         pruned   |-> manifest.pruned \ {current},
                         failed   |-> manifest.failed \ {current}]
        BY <2>4 DEF UnlinkOpen, TypeOK, Manifests
      <4> QED
        BY <4>1, <4>2, <4>3 DEF TypeOK, Manifests
    <3>3. openFile' \in [Ids -> SUBSET Records] /\ stage' \in Stages
      BY <2>4 DEF UnlinkOpen, TypeOK, Stages
    <3>4. openSeq' \in [ArtifactTypes -> 0 .. MaxSeq] /\ counted' \in [ArtifactTypes -> SUBSET Records]
      BY <2>4 DEF UnlinkOpen, TypeOK
    <3> QED
      BY <2>4, <3>2, <3>3, <3>4 DEF UnlinkOpen, TypeOK
  <2>5. CASE RegisterClosed(t)
    BY <2>5 DEF RegisterClosed, CloseNext, TypeOK, Stages
  <2> QED
    BY <1>4, <2>1, <2>2, <2>3, <2>4, <2>5 DEF CloseSegment
<1>5. CASE StartUploads
  BY <1>5 DEF StartUploads, Candidates, Pending, Listed, TypeOK, Stages
<1>6. ASSUME NEW id \in Ids, TryUploadSegment(id)
      PROVE  TypeOK'
  <2>1. CASE SkipUpload(id)
    BY <2>1 DEF SkipUpload, TypeOK
  <2>2. CASE RefuseDamaged(id)
    BY <2>2 DEF RefuseDamaged, TypeOK, Manifests
  <2>3. CASE UploadSucceeds(id)
    BY <2>3, UploadReturnedType DEF UploadSucceeds, TypeOK
  <2>4. CASE UploadMismatches(id)
    <3>1. faults' \in 0 .. MaxFaults
      BY <2>4 DEF UploadMismatches, TypeOK
    <3>2. remote' \in [Ids -> SUBSET Records]
      BY <2>4 DEF UploadMismatches, TypeOK
    <3> QED
      BY <2>4, <3>1, <3>2, UploadReturnedType DEF UploadMismatches, TypeOK
  <2>5. CASE UploadFails(id)
    <3>1. manifest' \in Manifests /\ remote' \in [Ids -> SUBSET Records]
      BY <2>5 DEF UploadFails, TypeOK, Manifests
    <3>2. attempts' \in [Ids -> 0 .. MaxUploadRetries] /\ faults' \in 0 .. MaxFaults
      BY <2>5 DEF UploadFails, Uploadable, SkippedUpload, TypeOK
    <3> QED
      BY <2>5, <3>1, <3>2 DEF UploadFails, TypeOK
  <2> QED
    BY <1>6, <2>1, <2>2, <2>3, <2>4, <2>5 DEF TryUploadSegment
<1>7. CASE UploadsDone
  BY <1>7 DEF UploadsDone, TypeOK, Stages
<1>8. ASSUME NEW id \in Ids, BackoffElapses(id)
      PROVE  TypeOK'
  BY <1>8 DEF BackoffElapses, TypeOK
<1>9. CASE EnforceBudget
  BY <1>9 DEF EnforceBudget, TypeOK, Stages
<1>10. ASSUME NEW id \in Ids, PruneSegment(id)
       PROVE  TypeOK'
  BY <1>10 DEF PruneSegment, TypeOK, Manifests
<1>11. CASE PruneDone
  BY <1>11 DEF PruneDone, TypeOK, Stages
<1>12. CASE UploadManifest
  <2>1. faults' \in 0 .. MaxFaults /\ remoteManifest' \in Manifests
    BY <1>12 DEF UploadManifest, TypeOK
  <2> QED
    BY <1>12, <2>1 DEF UploadManifest, TypeOK, Stages
<1>13. ASSUME NEW id \in Ids, DamageFile(id)
       PROVE  TypeOK'
  BY <1>13 DEF DamageFile, TypeOK
<1>14. CASE CrashRestart
  <2>1. /\ openSeq' \in [ArtifactTypes -> 0 .. MaxSeq]
        /\ attempts' \in [Ids -> 0 .. MaxUploadRetries]
        /\ crashes' \in 0 .. MaxCrashes
    BY <1>14 DEF CrashRestart, TypeOK
  <2> QED
    BY <1>14, <2>1 DEF CrashRestart, TypeOK, Stages
<1>15. CASE UNCHANGED vars
  BY <1>15 DEF TypeOK, vars
<1> QED
  BY <1>1, <1>2, <1>3, <1>4, <1>5, <1>6, <1>7, <1>8, <1>9, <1>10, <1>11,
     <1>12, <1>13, <1>14, <1>15 DEF Next

-----------------------------------------------------------------------------
(* What the steps do to the manifest in memory, field by field. *)
LEMMA UnlinkFields ==
  ASSUME TypeOK, JobOpen, NEW t \in ArtifactTypes, UnlinkOpen(t)
  PROVE  /\ current \in Ids
         /\ Listed(manifest') = Listed(manifest) \cup {current}
         /\ manifest'.contents = [manifest.contents EXCEPT ![current] = finalFile[current]]
         /\ manifest'.uploaded = manifest.uploaded \ {current}
         /\ manifest'.verified = manifest.verified \ {current}
         /\ manifest'.pruned = manifest.pruned \ {current}
<1>1. current \in Ids
  BY DEF UnlinkOpen, JobOpen
<1>2. Cardinality(Listed(manifest)) + 1 \in Nat \ {0}
  BY ListedFinite DEF TypeOK
<1>3. manifest'.position = [manifest.position EXCEPT ![current] = Cardinality(Listed(manifest)) + 1]
  BY DEF UnlinkOpen, TypeOK, Manifests
<1>4. Listed(manifest') = Listed(manifest) \cup {current}
  <2>1. manifest.position \in [Ids -> Nat]
    BY DEF TypeOK, Manifests
  <2>2. manifest'.position[current] > 0
    BY <1>1, <1>2, <1>3, <2>1
  <2>3. \A id \in Ids \ {current} : manifest'.position[id] = manifest.position[id]
    BY <1>3, <2>1
  <2> QED
    BY <1>1, <2>2, <2>3 DEF Listed
<1> QED
  BY <1>1, <1>4 DEF UnlinkOpen, TypeOK, Manifests

(* An answered upload marks its segment uploaded, and verified if R2 says so. *)
LEMMA ReturnedFields ==
  ASSUME TypeOK, NEW id \in Ids, NEW verified \in BOOLEAN, UploadReturned(id, verified)
  PROVE  /\ Listed(manifest') = Listed(manifest)
         /\ manifest'.contents = [manifest.contents EXCEPT ![id] = finalFile[id]]
         /\ manifest'.uploaded = manifest.uploaded \cup {id}
         /\ verified => manifest'.verified = manifest.verified \cup {id}
         /\ ~verified => manifest'.verified = manifest.verified \ {id}
         /\ manifest'.pruned = manifest.pruned
<1>1. manifest'.position = manifest.position
  BY DEF UploadReturned, TypeOK, Manifests
<1> QED
  BY <1>1 DEF UploadReturned, Listed, TypeOK, Manifests

(* A refused or failed upload only sets the flag `failed`. *)
LEMMA FailedFields ==
  ASSUME TypeOK, NEW id \in Ids, RefuseDamaged(id) \/ UploadFails(id)
  PROVE  /\ Listed(manifest') = Listed(manifest)
         /\ manifest'.contents = manifest.contents
         /\ manifest'.uploaded = manifest.uploaded
         /\ manifest'.verified = manifest.verified
         /\ manifest'.pruned = manifest.pruned
<1>1. manifest' = [manifest EXCEPT !.failed = @ \cup {id}]
  BY DEF RefuseDamaged, UploadFails
<1> QED
  BY <1>1 DEF Listed, TypeOK, Manifests

(* Pruning removes one file and marks its segment pruned. *)
LEMMA PruneFields ==
  ASSUME TypeOK, NEW id \in Ids, PruneSegment(id)
  PROVE  /\ Listed(manifest') = Listed(manifest)
         /\ manifest'.contents = manifest.contents
         /\ manifest'.uploaded = manifest.uploaded
         /\ manifest'.verified = manifest.verified
         /\ manifest'.pruned = manifest.pruned \cup {id}
BY DEF PruneSegment, Listed, TypeOK, Manifests

(* What is being closed stays open until its file is written, in every step. *)
LEMMA JobOpenNext == TypeOK /\ JobOpen /\ [Next]_vars => JobOpen'
<1> SUFFICES ASSUME TypeOK, JobOpen, [Next]_vars PROVE JobOpen'
  OBVIOUS
<1> USE DEF disk, r2, writer, retry, job, budget
<1>1. ASSUME NEW t \in ArtifactTypes, NEW r \in Records, AppendLine(t, r)
      PROVE  JobOpen'
  <2>1. openSeq'[t] # 0 /\ stage = "idle"
    <3>1. nextSeq[t] # 0 /\ t \in DOMAIN openSeq
      BY SegmentsAssumption DEF TypeOK
    <3>2. openSeq' = [openSeq EXCEPT ![t] = IF openSeq[t] = 0 THEN nextSeq[t] ELSE openSeq[t]]
      BY <1>1 DEF AppendLine
    <3> QED
      BY <1>1, <3>1, <3>2 DEF AppendLine, TypeOK
  <2>2. stage' = "idle" \/ (stage' = "closing" /\ todo' = {t})
    BY <1>1 DEF AppendLine
  <2> QED
    BY <2>1, <2>2 DEF JobOpen
<1>2. CASE CloseDueToAge
  BY <1>2 DEF CloseDueToAge, JobOpen
<1>3. CASE CloseAll
  BY <1>3 DEF CloseAll, JobOpen
<1>4. ASSUME NEW t \in ArtifactTypes, CloseSegment(t)
      PROVE  JobOpen'
  <2>1. CASE RejectBeforeWrite(t)
    BY <2>1 DEF RejectBeforeWrite, CloseNext, JobOpen
  <2>2. CASE WriteFinal(t)
    <3>1. OpenId(t) \in Ids /\ OpenId(t)[1] = t
      BY <2>2, OpenIdType DEF WriteFinal, JobOpen, OpenId
    <3> QED
      BY <2>2, <3>1 DEF WriteFinal, JobOpen
  <2>3. CASE RejectAfterWrite(t)
    BY <2>3 DEF RejectAfterWrite, CloseNext, JobOpen
  <2>4. CASE UnlinkOpen(t)
    <3>1. current[1] = t
      BY <2>4 DEF UnlinkOpen, OpenId
    <3> QED
      BY <2>4, <3>1 DEF UnlinkOpen, JobOpen, TypeOK
  <2>5. CASE RegisterClosed(t)
    BY <2>5 DEF RegisterClosed, CloseNext, JobOpen
  <2> QED
    BY <1>4, <2>1, <2>2, <2>3, <2>4, <2>5 DEF CloseSegment
<1>5. CASE StartUploads
  BY <1>5 DEF StartUploads, JobOpen
<1>6. ASSUME NEW id \in Ids, TryUploadSegment(id)
      PROVE  JobOpen'
  BY <1>6 DEF TryUploadSegment, SkipUpload, RefuseDamaged, UploadSucceeds, UploadMismatches,
              UploadFails, JobOpen
<1>7. CASE UploadsDone
  BY <1>7 DEF UploadsDone, JobOpen
<1>8. ASSUME NEW id \in Ids, BackoffElapses(id)
      PROVE  JobOpen'
  BY <1>8 DEF BackoffElapses, JobOpen
<1>9. CASE EnforceBudget
  BY <1>9 DEF EnforceBudget, JobOpen
<1>10. ASSUME NEW id \in Ids, PruneSegment(id)
       PROVE  JobOpen'
  BY <1>10 DEF PruneSegment, JobOpen
<1>11. CASE PruneDone
  BY <1>11 DEF PruneDone, JobOpen
<1>12. CASE UploadManifest
  BY <1>12 DEF UploadManifest, JobOpen
<1>13. ASSUME NEW id \in Ids, DamageFile(id)
       PROVE  JobOpen'
  BY <1>13 DEF DamageFile, JobOpen
<1>14. CASE CrashRestart
  BY <1>14 DEF CrashRestart, JobOpen
<1>15. CASE UNCHANGED vars
  BY <1>15 DEF JobOpen, vars
<1> QED
  BY <1>1, <1>2, <1>3, <1>4, <1>5, <1>6, <1>7, <1>8, <1>9, <1>10, <1>11,
     <1>12, <1>13, <1>14, <1>15 DEF Next

(* Type correctness of the spool. *)
THEOREM SegmentsTypeOK == Spec => []TypeOK
<1>1. Init => TypeOK /\ JobOpen
  BY TypeInit DEF Init, JobOpen
<1>2. TypeOK /\ JobOpen /\ [Next]_vars => TypeOK' /\ JobOpen'
  BY TypeNext, JobOpenNext
<1> QED
  BY <1>1, <1>2, PTL DEF Spec

(* An answered upload of a segment that was listed and not yet uploaded. *)
LEMMA AnsweredFields ==
  ASSUME IInv, NEW id \in Ids, UploadSucceeds(id) \/ UploadMismatches(id)
  PROVE  /\ id \in Listed(diskManifest) /\ id \notin manifest.uploaded
         /\ stage = "uploading" /\ Listed(manifest) = Listed(diskManifest)
         /\ Listed(manifest') = Listed(manifest)
         /\ manifest'.contents = manifest.contents
         /\ manifest'.uploaded = manifest.uploaded \cup {id}
         /\ \/ manifest'.verified = manifest.verified
            \/ /\ manifest'.verified = manifest.verified \cup {id}
               /\ remote'[id] = manifest.contents[id]
         /\ manifest'.pruned = manifest.pruned
<1> USE DEF IInv
<1>1. PICK verified \in BOOLEAN : UploadReturned(id, verified) /\ (verified => UploadSucceeds(id))
  BY SegmentsAssumption DEF UploadSucceeds, UploadMismatches
<1>2. /\ id \in Listed(diskManifest) /\ id \notin manifest.uploaded /\ finalFile[id] # {}
      /\ stage = "uploading" /\ Listed(manifest) = Listed(diskManifest)
  BY DEF UploadSucceeds, UploadMismatches, Uploadable, JobState, ManifestSync
<1>3. manifest.contents[id] = finalFile[id]
  BY <1>2 DEF ListedData
<1>4. /\ Listed(manifest') = Listed(manifest)
      /\ manifest'.contents = [manifest.contents EXCEPT ![id] = finalFile[id]]
      /\ manifest'.uploaded = manifest.uploaded \cup {id}
      /\ verified => manifest'.verified = manifest.verified \cup {id}
      /\ ~verified => manifest'.verified = manifest.verified \ {id}
      /\ manifest'.pruned = manifest.pruned
  BY <1>1, ReturnedFields
<1>5. manifest'.contents = manifest.contents
  BY <1>3, <1>4 DEF TypeOK, Manifests
<1>6. id \notin manifest.verified
  BY <1>2 DEF Flags
<1>7. verified => remote'[id] = finalFile[id]
  BY <1>1 DEF UploadSucceeds, TypeOK
<1> QED
  BY <1>2, <1>3, <1>4, <1>5, <1>6, <1>7

(* Saving the manifest in memory keeps the two in step. *)
LEMMA SaveSync ==
  ASSUME IInv, diskManifest' = manifest, manifest' = manifest,
         remoteManifest' = remoteManifest, stage' # "unlinked"
  PROVE  ManifestSync'
<1>1. \A id \in remoteManifest.verified :
        id \in Listed(diskManifest) /\ id \in diskManifest.verified
  BY DEF IInv, ManifestSync, Flags
<1>2. \A id \in remoteManifest.verified : remoteManifest.contents[id] = manifest.contents[id]
  BY <1>1 DEF IInv, ManifestSync
<1>3. remoteManifest.verified \subseteq manifest.verified
  BY DEF IInv, ManifestSync
<1> QED
  BY <1>2, <1>3 DEF ManifestSync

(* The manifest on disk follows the one in memory. *)
LEMMA SyncNext == ASSUME IInv, [Next]_vars PROVE ManifestSync'
<1> USE DEF disk, r2, writer, retry, job, budget, IInv
<1>1. ASSUME NEW t \in ArtifactTypes, NEW r \in Records, AppendLine(t, r)
      PROVE  ManifestSync'
  BY <1>1 DEF AppendLine, ManifestSync
<1>2. CASE CloseDueToAge
  BY <1>2 DEF CloseDueToAge, ManifestSync
<1>3. CASE CloseAll
  BY <1>3 DEF CloseAll, ManifestSync
<1>4. ASSUME NEW t \in ArtifactTypes, CloseSegment(t)
      PROVE  ManifestSync'
  <2>1. CASE RejectBeforeWrite(t)
    BY <2>1, SaveSync DEF RejectBeforeWrite, CloseNext
  <2>2. CASE WriteFinal(t)
    BY <2>2 DEF WriteFinal, ManifestSync
  <2>3. CASE RejectAfterWrite(t)
    BY <2>3, SaveSync DEF RejectAfterWrite, CloseNext
  <2>4. CASE UnlinkOpen(t)
    <3>1. current \notin Listed(manifest) /\ stage = "written" /\ Listed(manifest) = Listed(diskManifest)
      BY <2>4 DEF UnlinkOpen, SequenceOrder, JobOpen, OpenId, ManifestSync
    <3>2. diskManifest' = diskManifest /\ remoteManifest' = remoteManifest /\ stage' = "unlinked" /\ current' = current
      BY <2>4 DEF UnlinkOpen
    <3>3. Listed(manifest') = Listed(diskManifest) \cup {current}
      BY <2>4, <3>1, UnlinkFields
    <3>4. \A id \in Listed(diskManifest) : diskManifest.contents[id] = manifest'.contents[id]
      BY <2>4, <3>1, UnlinkFields DEF ManifestSync, TypeOK, Manifests, Listed
    <3>5. /\ diskManifest.uploaded \subseteq manifest'.uploaded
          /\ diskManifest.verified \subseteq manifest'.verified
          /\ diskManifest.pruned \subseteq manifest'.pruned
      BY <2>4, <3>1, UnlinkFields DEF ManifestSync, Flags
    <3> QED
      BY <3>2, <3>3, <3>4, <3>5 DEF ManifestSync
  <2>5. CASE RegisterClosed(t)
    BY <2>5, SaveSync DEF RegisterClosed, CloseNext
  <2> QED
    BY <1>4, <2>1, <2>2, <2>3, <2>4, <2>5 DEF CloseSegment
<1>5. CASE StartUploads
  BY <1>5 DEF StartUploads, ManifestSync
<1>6. ASSUME NEW id \in Ids, TryUploadSegment(id)
      PROVE  ManifestSync'
  <2>1. CASE SkipUpload(id)
    BY <2>1 DEF SkipUpload, ManifestSync
  <2>2. CASE RefuseDamaged(id)
    BY <2>2, FailedFields DEF RefuseDamaged, ManifestSync
  <2>3. CASE UploadSucceeds(id)
    <3>1. diskManifest' = diskManifest /\ remoteManifest' = remoteManifest /\ stage' = "uploading"
      BY <2>3 DEF UploadSucceeds, Uploadable
    <3> QED
      BY <2>3, <3>1, AnsweredFields DEF ManifestSync
  <2>4. CASE UploadMismatches(id)
    <3>1. diskManifest' = diskManifest /\ remoteManifest' = remoteManifest /\ stage' = "uploading"
      BY <2>4 DEF UploadMismatches, Uploadable
    <3> QED
      BY <2>4, <3>1, AnsweredFields DEF ManifestSync
  <2>5. CASE UploadFails(id)
    BY <2>5, FailedFields DEF UploadFails, ManifestSync
  <2> QED
    BY <1>6, <2>1, <2>2, <2>3, <2>4, <2>5 DEF TryUploadSegment
<1>7. CASE UploadsDone
  BY <1>7 DEF UploadsDone, ManifestSync
<1>8. ASSUME NEW id \in Ids, BackoffElapses(id)
      PROVE  ManifestSync'
  BY <1>8 DEF BackoffElapses, ManifestSync
<1>9. CASE EnforceBudget
  BY <1>9 DEF EnforceBudget, ManifestSync
<1>10. ASSUME NEW id \in Ids, PruneSegment(id)
       PROVE  ManifestSync'
  BY <1>10, PruneFields DEF PruneSegment, ManifestSync
<1>11. CASE PruneDone
  BY <1>11, SaveSync DEF PruneDone
<1>12. CASE UploadManifest
  BY <1>12 DEF UploadManifest, ManifestSync
<1>13. ASSUME NEW id \in Ids, DamageFile(id)
       PROVE  ManifestSync'
  BY <1>13 DEF DamageFile, ManifestSync
<1>14. CASE CrashRestart
  BY <1>14 DEF CrashRestart, ManifestSync
<1>15. CASE UNCHANGED vars
  BY <1>15 DEF vars, ManifestSync
<1> QED
  BY <1>1, <1>2, <1>3, <1>4, <1>5, <1>6, <1>7, <1>8, <1>9, <1>10, <1>11,
     <1>12, <1>13, <1>14, <1>15 DEF Next

(* A sequence number is used once among the listed segments, restarts included. *)
LEMMA OrderNext == ASSUME IInv, [Next]_vars PROVE SequenceOrder'
<1> USE DEF disk, r2, writer, retry, job, budget, IInv
<1>1. ASSUME NEW t \in ArtifactTypes, NEW r \in Records, AppendLine(t, r)
      PROVE  SequenceOrder'
  <2>1. openSeq[t] = 0 => openSeq' = [openSeq EXCEPT ![t] = nextSeq[t]] /\ nextSeq' = [nextSeq EXCEPT ![t] = nextSeq[t] + 1]
    BY <1>1 DEF AppendLine
  <2>2. openSeq[t] # 0 => openSeq' = openSeq /\ nextSeq' = nextSeq
    BY <1>1 DEF AppendLine, TypeOK
  <2>3. manifest' = manifest
    BY <1>1 DEF AppendLine
  <2>4. CASE openSeq[t] = 0
    <3>1. <<t, nextSeq[t]>> \notin Listed(manifest)
      BY DEF SequenceOrder, TypeOK
    <3>2. nextSeq[t] \in 1 .. MaxSeq + 1 /\ nextSeq'[t] = nextSeq[t] + 1 /\ openSeq'[t] = nextSeq[t]
      BY <2>1, <2>4 DEF TypeOK
    <3>3. \A u \in ArtifactTypes \ {t} : nextSeq'[u] = nextSeq[u] /\ openSeq'[u] = openSeq[u]
      BY <2>1, <2>4 DEF TypeOK
    <3>4. \A id \in Listed(manifest) : id[2] < nextSeq'[id[1]]
      <4> SUFFICES ASSUME NEW id \in Listed(manifest) PROVE id[2] < nextSeq'[id[1]]
        OBVIOUS
      <4>1. id[1] \in ArtifactTypes /\ id[2] \in 1 .. MaxSeq /\ id[2] < nextSeq[id[1]]
        BY DEF SequenceOrder, Listed, Ids
      <4>2. CASE id[1] = t
        BY <4>1, <4>2, <3>2, SegmentsAssumption
      <4>3. CASE id[1] # t
        BY <4>1, <4>3, <3>3
      <4> QED
        BY <4>2, <4>3
    <3>5. openSeq'[t] < nextSeq'[t]
      BY <3>2, SegmentsAssumption
    <3> QED
      BY <2>3, <3>1, <3>2, <3>3, <3>4, <3>5 DEF SequenceOrder, OpenId
  <2> QED
    BY <2>2, <2>3, <2>4 DEF SequenceOrder, OpenId
<1>2. CASE CloseDueToAge
  BY <1>2 DEF CloseDueToAge, SequenceOrder, OpenId
<1>3. CASE CloseAll
  BY <1>3 DEF CloseAll, SequenceOrder, OpenId
<1>4. ASSUME NEW t \in ArtifactTypes, CloseSegment(t)
      PROVE  SequenceOrder'
  <2>1. CASE RejectBeforeWrite(t)
    BY <2>1 DEF RejectBeforeWrite, CloseNext, SequenceOrder, OpenId
  <2>2. CASE WriteFinal(t)
    BY <2>2 DEF WriteFinal, SequenceOrder, OpenId
  <2>3. CASE RejectAfterWrite(t)
    BY <2>3 DEF RejectAfterWrite, CloseNext, SequenceOrder, OpenId
  <2>4. CASE UnlinkOpen(t)
    <3>1. current = <<t, openSeq[t]>> /\ openSeq[t] # 0
      BY <2>4 DEF UnlinkOpen, OpenId, JobOpen
    <3>2. openSeq' = [openSeq EXCEPT ![t] = 0] /\ nextSeq' = nextSeq
      BY <2>4 DEF UnlinkOpen
    <3>3. Listed(manifest') = Listed(manifest) \cup {current}
      BY <2>4, UnlinkFields
    <3> QED
      BY <3>1, <3>2, <3>3 DEF SequenceOrder, OpenId, TypeOK
  <2>5. CASE RegisterClosed(t)
    BY <2>5 DEF RegisterClosed, CloseNext, SequenceOrder, OpenId
  <2> QED
    BY <1>4, <2>1, <2>2, <2>3, <2>4, <2>5 DEF CloseSegment
<1>5. CASE StartUploads
  BY <1>5 DEF StartUploads, SequenceOrder, OpenId
<1>6. ASSUME NEW id \in Ids, TryUploadSegment(id)
      PROVE  SequenceOrder'
  <2>1. CASE SkipUpload(id)
    BY <2>1 DEF SkipUpload, SequenceOrder, OpenId
  <2>2. CASE RefuseDamaged(id)
    BY <2>2, FailedFields DEF RefuseDamaged, SequenceOrder, OpenId
  <2>3. CASE UploadSucceeds(id)
    BY <2>3, AnsweredFields DEF UploadSucceeds, SequenceOrder, OpenId
  <2>4. CASE UploadMismatches(id)
    BY <2>4, AnsweredFields DEF UploadMismatches, SequenceOrder, OpenId
  <2>5. CASE UploadFails(id)
    BY <2>5, FailedFields DEF UploadFails, SequenceOrder, OpenId
  <2> QED
    BY <1>6, <2>1, <2>2, <2>3, <2>4, <2>5 DEF TryUploadSegment
<1>7. CASE UploadsDone
  BY <1>7 DEF UploadsDone, SequenceOrder, OpenId
<1>8. ASSUME NEW id \in Ids, BackoffElapses(id)
      PROVE  SequenceOrder'
  BY <1>8 DEF BackoffElapses, SequenceOrder, OpenId
<1>9. CASE EnforceBudget
  BY <1>9 DEF EnforceBudget, SequenceOrder, OpenId
<1>10. ASSUME NEW id \in Ids, PruneSegment(id)
       PROVE  SequenceOrder'
  BY <1>10, PruneFields DEF PruneSegment, SequenceOrder, OpenId
<1>11. CASE PruneDone
  BY <1>11 DEF PruneDone, SequenceOrder, OpenId
<1>12. CASE UploadManifest
  BY <1>12 DEF UploadManifest, SequenceOrder, OpenId
<1>13. ASSUME NEW id \in Ids, DamageFile(id)
       PROVE  SequenceOrder'
  BY <1>13 DEF DamageFile, SequenceOrder, OpenId
<1>14. CASE CrashRestart
  <2>1. openSeq' = [t \in ArtifactTypes |-> 0] /\ manifest' = diskManifest
    BY <1>14 DEF CrashRestart
  <2>2. \A t \in ArtifactTypes : \A id \in Listed(diskManifest) : id[1] = t => id[2] < nextSeq'[t]
    BY <1>14 DEF CrashRestart, NextSequence
  <2> QED
    BY <2>1, <2>2 DEF SequenceOrder, Listed, Ids
<1>15. CASE UNCHANGED vars
  BY <1>15 DEF vars, SequenceOrder, OpenId
<1> QED
  BY <1>1, <1>2, <1>3, <1>4, <1>5, <1>6, <1>7, <1>8, <1>9, <1>10, <1>11,
     <1>12, <1>13, <1>14, <1>15 DEF Next

(* Every listed segment keeps its records, in its file or in its object. *)
LEMMA DataNext == ASSUME IInv, [Next]_vars PROVE ListedData'
<1> USE DEF disk, r2, writer, retry, job, budget, IInv
<1>1. ASSUME NEW t \in ArtifactTypes, NEW r \in Records, AppendLine(t, r)
      PROVE  ListedData'
  BY <1>1 DEF AppendLine, ListedData
<1>2. CASE CloseDueToAge
  BY <1>2 DEF CloseDueToAge, ListedData
<1>3. CASE CloseAll
  BY <1>3 DEF CloseAll, ListedData
<1>4. ASSUME NEW t \in ArtifactTypes, CloseSegment(t)
      PROVE  ListedData'
  <2>1. CASE RejectBeforeWrite(t)
    BY <2>1 DEF RejectBeforeWrite, CloseNext, ListedData
  <2>2. CASE WriteFinal(t)
    <3>1. OpenId(t) \notin Listed(manifest)
      BY <2>2 DEF WriteFinal, JobOpen, SequenceOrder
    <3>2. \A id \in Listed(manifest) : finalFile'[id] = finalFile[id]
      BY <2>2, <3>1 DEF WriteFinal, TypeOK, Listed
    <3> QED
      BY <2>2, <3>2 DEF WriteFinal, ListedData
  <2>3. CASE RejectAfterWrite(t)
    BY <2>3 DEF RejectAfterWrite, CloseNext, ListedData
  <2>4. CASE UnlinkOpen(t)
    <3>1. current \notin Listed(manifest)
      <4>1. t \in todo /\ stage = "written" /\ current = OpenId(t)
        BY <2>4 DEF UnlinkOpen, JobOpen, OpenId
      <4> QED
        BY <4>1 DEF JobOpen, SequenceOrder
    <3>2. /\ current \in Ids
          /\ Listed(manifest') = Listed(manifest) \cup {current}
          /\ manifest'.contents = [manifest.contents EXCEPT ![current] = finalFile[current]]
      BY <2>4, UnlinkFields
    <3>3. finalFile' = finalFile /\ remote' = remote
      BY <2>4 DEF UnlinkOpen
    <3>4. manifest'.contents[current] = finalFile[current]
      BY <3>2 DEF TypeOK, Manifests
    <3>5. \A id \in Listed(manifest) : manifest'.contents[id] = manifest.contents[id]
      BY <3>1, <3>2 DEF TypeOK, Manifests, Listed
    <3> QED
      BY <3>2, <3>3, <3>4, <3>5 DEF ListedData
  <2>5. CASE RegisterClosed(t)
    BY <2>5 DEF RegisterClosed, CloseNext, ListedData
  <2> QED
    BY <1>4, <2>1, <2>2, <2>3, <2>4, <2>5 DEF CloseSegment
<1>5. CASE StartUploads
  BY <1>5 DEF StartUploads, ListedData
<1>6. ASSUME NEW id \in Ids, TryUploadSegment(id)
      PROVE  ListedData'
  <2>1. CASE SkipUpload(id)
    BY <2>1 DEF SkipUpload, ListedData
  <2>2. CASE RefuseDamaged(id)
    BY <2>2, FailedFields DEF RefuseDamaged, ListedData
  <2>3. CASE UploadSucceeds(id)
    <3>1. finalFile[id] # {} /\ finalFile' = finalFile
      BY <2>3 DEF UploadSucceeds, Uploadable, JobState
    <3>2. \A j \in Ids : j # id => remote'[j] = remote[j]
      BY <2>3 DEF UploadSucceeds, TypeOK
    <3> QED
      BY <2>3, <3>1, <3>2, AnsweredFields DEF ListedData, Listed
  <2>4. CASE UploadMismatches(id)
    <3>1. finalFile[id] # {} /\ finalFile' = finalFile
      BY <2>4 DEF UploadMismatches, Uploadable, JobState
    <3>2. \A j \in Ids : j # id => remote'[j] = remote[j]
      BY <2>4 DEF UploadMismatches, TypeOK
    <3> QED
      BY <2>4, <3>1, <3>2, AnsweredFields DEF ListedData, Listed
  <2>5. CASE UploadFails(id)
    <3>1. finalFile[id] # {} /\ finalFile' = finalFile
      BY <2>5 DEF UploadFails, Uploadable, JobState
    <3>2. \A j \in Ids : j # id => remote'[j] = remote[j]
      BY <2>5 DEF UploadFails, TypeOK
    <3> QED
      BY <2>5, <3>1, <3>2, FailedFields DEF ListedData, Listed
  <2> QED
    BY <1>6, <2>1, <2>2, <2>3, <2>4, <2>5 DEF TryUploadSegment
<1>7. CASE UploadsDone
  BY <1>7 DEF UploadsDone, ListedData
<1>8. ASSUME NEW id \in Ids, BackoffElapses(id)
      PROVE  ListedData'
  BY <1>8 DEF BackoffElapses, ListedData
<1>9. CASE EnforceBudget
  BY <1>9 DEF EnforceBudget, ListedData
<1>10. ASSUME NEW id \in Ids, PruneSegment(id)
       PROVE  ListedData'
  <2>1. remote[id] = manifest.contents[id]
    BY <1>10 DEF PruneSegment, Prunable, Flags
  <2>2. \A j \in Ids : j # id => finalFile'[j] = finalFile[j]
    BY <1>10 DEF PruneSegment, TypeOK
  <2>3. finalFile'[id] = {}
    BY <1>10 DEF PruneSegment, TypeOK
  <2> QED
    BY <1>10, <2>1, <2>2, <2>3, PruneFields DEF PruneSegment, ListedData, Listed
<1>11. CASE PruneDone
  BY <1>11 DEF PruneDone, ListedData
<1>12. CASE UploadManifest
  BY <1>12 DEF UploadManifest, ListedData
<1>13. ASSUME NEW id \in Ids, DamageFile(id)
       PROVE  ListedData'
  BY <1>13 DEF DamageFile, ListedData
<1>14. CASE CrashRestart
  BY <1>14 DEF CrashRestart, ListedData, ManifestSync
<1>15. CASE UNCHANGED vars
  BY <1>15 DEF vars, ListedData
<1> QED
  BY <1>1, <1>2, <1>3, <1>4, <1>5, <1>6, <1>7, <1>8, <1>9, <1>10, <1>11,
     <1>12, <1>13, <1>14, <1>15 DEF Next

(* The flags of an entry: pruned after verified, verified after uploaded, uploaded after saved. *)
LEMMA FlagsNext == ASSUME IInv, [Next]_vars PROVE Flags'
<1> USE DEF disk, r2, writer, retry, job, budget, IInv
<1>1. ASSUME NEW t \in ArtifactTypes, NEW r \in Records, AppendLine(t, r)
      PROVE  Flags'
  BY <1>1 DEF AppendLine, Flags
<1>2. CASE CloseDueToAge
  BY <1>2 DEF CloseDueToAge, Flags
<1>3. CASE CloseAll
  BY <1>3 DEF CloseAll, Flags
<1>4. ASSUME NEW t \in ArtifactTypes, CloseSegment(t)
      PROVE  Flags'
  <2>1. CASE RejectBeforeWrite(t)
    BY <2>1, Listed(diskManifest) \subseteq Listed(manifest) DEF RejectBeforeWrite, CloseNext, Flags, ManifestSync
  <2>2. CASE WriteFinal(t)
    BY <2>2 DEF WriteFinal, Flags
  <2>3. CASE RejectAfterWrite(t)
    BY <2>3, Listed(diskManifest) \subseteq Listed(manifest) DEF RejectAfterWrite, CloseNext, Flags, ManifestSync
  <2>4. CASE UnlinkOpen(t)
    <3>1. current \notin Listed(diskManifest)
      <4>1. t \in todo /\ stage = "written" /\ current = OpenId(t)
        BY <2>4 DEF UnlinkOpen, JobOpen, OpenId
      <4> QED
        BY <4>1 DEF JobOpen, SequenceOrder, ManifestSync
    <3>2. /\ manifest'.verified = manifest.verified /\ manifest'.uploaded = manifest.uploaded
          /\ manifest'.pruned = manifest.pruned
      <4>1. current \notin manifest.uploaded /\ current \notin manifest.verified
            /\ current \notin manifest.pruned
        BY <3>1 DEF Flags
      <4>2. /\ manifest'.verified = manifest.verified \ {current}
            /\ manifest'.uploaded = manifest.uploaded \ {current}
            /\ manifest'.pruned = manifest.pruned \ {current}
        BY <2>4, UnlinkFields
      <4> HIDE DEF IInv
      <4> QED
        BY <4>1, <4>2
    <3>3. \A id \in manifest.verified : manifest'.contents[id] = manifest.contents[id]
      BY <2>4, <3>1, UnlinkFields DEF Flags, TypeOK, Manifests
    <3> QED
      BY <2>4, <3>2, <3>3 DEF UnlinkOpen, Flags
  <2>5. CASE RegisterClosed(t)
    BY <2>5, Listed(diskManifest) \subseteq Listed(manifest) DEF RegisterClosed, CloseNext, Flags, ManifestSync
  <2> QED
    BY <1>4, <2>1, <2>2, <2>3, <2>4, <2>5 DEF CloseSegment
<1>5. CASE StartUploads
  BY <1>5 DEF StartUploads, Flags
<1>6. ASSUME NEW id \in Ids, TryUploadSegment(id)
      PROVE  Flags'
  <2>1. CASE SkipUpload(id)
    BY <2>1 DEF SkipUpload, Flags
  <2>2. CASE RefuseDamaged(id)
    BY <2>2, FailedFields DEF RefuseDamaged, Flags
  <2>3. CASE UploadSucceeds(id)
    <3>1. id \notin manifest.verified
      BY <2>3, AnsweredFields DEF Flags
    <3>2. diskManifest' = diskManifest
      BY <2>3 DEF UploadSucceeds
    <3>3. \A j \in Ids : j # id => remote'[j] = remote[j]
      BY <2>3 DEF UploadSucceeds, TypeOK
    <3> QED
      BY <2>3, <3>1, <3>2, <3>3, AnsweredFields DEF Flags, TypeOK, Manifests
  <2>4. CASE UploadMismatches(id)
    <3>1. id \notin manifest.verified
      BY <2>4, AnsweredFields DEF Flags
    <3>2. diskManifest' = diskManifest
      BY <2>4 DEF UploadMismatches
    <3>3. \A j \in Ids : j # id => remote'[j] = remote[j]
      BY <2>4 DEF UploadMismatches, TypeOK
    <3> QED
      BY <2>4, <3>1, <3>2, <3>3, AnsweredFields DEF Flags, TypeOK, Manifests
  <2>5. CASE UploadFails(id)
    <3>1. id \in Listed(diskManifest) /\ id \notin manifest.verified
      BY <2>5 DEF UploadFails, Uploadable, JobState, Flags
    <3>2. diskManifest' = diskManifest
      BY <2>5 DEF UploadFails
    <3>3. \A j \in Ids : j # id => remote'[j] = remote[j]
      BY <2>5 DEF UploadFails, TypeOK
    <3> QED
      BY <2>5, <3>1, <3>2, <3>3, FailedFields DEF Flags, TypeOK, Manifests
  <2> QED
    BY <1>6, <2>1, <2>2, <2>3, <2>4, <2>5 DEF TryUploadSegment
<1>7. CASE UploadsDone
  BY <1>7 DEF UploadsDone, Flags
<1>8. ASSUME NEW id \in Ids, BackoffElapses(id)
      PROVE  Flags'
  BY <1>8 DEF BackoffElapses, Flags
<1>9. CASE EnforceBudget
  BY <1>9 DEF EnforceBudget, Flags
<1>10. ASSUME NEW id \in Ids, PruneSegment(id)
       PROVE  Flags'
  BY <1>10, PruneFields DEF PruneSegment, Prunable, Flags
<1>11. CASE PruneDone
  BY <1>11, Listed(diskManifest) \subseteq Listed(manifest) DEF PruneDone, CloseNext, Flags, ManifestSync
<1>12. CASE UploadManifest
  BY <1>12 DEF UploadManifest, Flags
<1>13. ASSUME NEW id \in Ids, DamageFile(id)
       PROVE  Flags'
  BY <1>13 DEF DamageFile, Flags
<1>14. CASE CrashRestart
  BY <1>14 DEF CrashRestart, Flags, ManifestSync, TypeOK, Manifests
<1>15. CASE UNCHANGED vars
  BY <1>15 DEF vars, Flags
<1> QED
  BY <1>1, <1>2, <1>3, <1>4, <1>5, <1>6, <1>7, <1>8, <1>9, <1>10, <1>11,
     <1>12, <1>13, <1>14, <1>15 DEF Next

(* An upload pass works on saved segments that have a file and no upload yet. *)
LEMMA JobNext == ASSUME IInv, [Next]_vars PROVE JobState'
<1> USE DEF disk, r2, writer, retry, job, budget, IInv
<1>1. ASSUME NEW t \in ArtifactTypes, NEW r \in Records, AppendLine(t, r)
      PROVE  JobState'
  BY <1>1 DEF AppendLine, JobState
<1>2. CASE CloseDueToAge
  BY <1>2 DEF CloseDueToAge, JobState
<1>3. CASE CloseAll
  BY <1>3 DEF CloseAll, JobState
<1>4. ASSUME NEW t \in ArtifactTypes, CloseSegment(t)
      PROVE  JobState'
  <2>1. CASE RejectBeforeWrite(t)
    BY <2>1 DEF RejectBeforeWrite, CloseNext, JobState
  <2>2. CASE WriteFinal(t)
    BY <2>2 DEF WriteFinal, JobState
  <2>3. CASE RejectAfterWrite(t)
    BY <2>3 DEF RejectAfterWrite, CloseNext, JobState
  <2>4. CASE UnlinkOpen(t)
    <3>1. current \notin Listed(diskManifest)
      <4>1. t \in todo /\ stage = "written" /\ current = OpenId(t)
        BY <2>4 DEF UnlinkOpen, JobOpen, OpenId
      <4> QED
        BY <4>1 DEF JobOpen, SequenceOrder, ManifestSync
    <3> QED
      BY <2>4, <3>1 DEF UnlinkOpen, JobState
  <2>5. CASE RegisterClosed(t)
    BY <2>5 DEF RegisterClosed, CloseNext, JobState
  <2> QED
    BY <1>4, <2>1, <2>2, <2>3, <2>4, <2>5 DEF CloseSegment
<1>5. CASE StartUploads
  BY <1>5 DEF StartUploads, Candidates, Pending, JobState, ManifestSync
<1>6. ASSUME NEW id \in Ids, TryUploadSegment(id)
      PROVE  JobState'
  <2>1. CASE SkipUpload(id)
    BY <2>1 DEF SkipUpload, JobState
  <2>2. CASE RefuseDamaged(id)
    BY <2>2, FailedFields DEF RefuseDamaged, JobState
  <2>3. CASE UploadSucceeds(id)
    <3>1. stage' = "uploading" /\ batch' = batch \ {id} /\ diskManifest' = diskManifest /\ finalFile' = finalFile
      BY <2>3 DEF UploadSucceeds, Uploadable, UploadReturned
    <3> QED
      BY <2>3, <3>1, AnsweredFields DEF JobState
  <2>4. CASE UploadMismatches(id)
    <3>1. stage' = "uploading" /\ batch' = batch \ {id} /\ diskManifest' = diskManifest /\ finalFile' = finalFile
      BY <2>4 DEF UploadMismatches, Uploadable, UploadReturned
    <3> QED
      BY <2>4, <3>1, AnsweredFields DEF JobState
  <2>5. CASE UploadFails(id)
    BY <2>5, FailedFields DEF UploadFails, Uploadable, JobState
  <2> QED
    BY <1>6, <2>1, <2>2, <2>3, <2>4, <2>5 DEF TryUploadSegment
<1>7. CASE UploadsDone
  BY <1>7 DEF UploadsDone, JobState
<1>8. ASSUME NEW id \in Ids, BackoffElapses(id)
      PROVE  JobState'
  BY <1>8 DEF BackoffElapses, JobState
<1>9. CASE EnforceBudget
  BY <1>9 DEF EnforceBudget, JobState
<1>10. ASSUME NEW id \in Ids, PruneSegment(id)
       PROVE  JobState'
  BY <1>10 DEF PruneSegment, JobState
<1>11. CASE PruneDone
  BY <1>11 DEF PruneDone, JobState
<1>12. CASE UploadManifest
  BY <1>12 DEF UploadManifest, JobState
<1>13. ASSUME NEW id \in Ids, DamageFile(id)
       PROVE  JobState'
  BY <1>13 DEF DamageFile, JobState
<1>14. CASE CrashRestart
  BY <1>14 DEF CrashRestart, JobState
<1>15. CASE UNCHANGED vars
  BY <1>15 DEF vars, JobState
<1> QED
  BY <1>1, <1>2, <1>3, <1>4, <1>5, <1>6, <1>7, <1>8, <1>9, <1>10, <1>11,
     <1>12, <1>13, <1>14, <1>15 DEF Next

-----------------------------------------------------------------------------
(* IInv holds of the first state and is kept by every step. *)
LEMMA IInvInit == Init => IInv
<1> SUFFICES ASSUME Init PROVE IInv
  OBVIOUS
<1>1. TypeOK
  BY TypeInit
<1>2. Listed(EmptyManifest) = {}
  BY DEF Listed, EmptyManifest
<1> QED
  BY <1>1, <1>2 DEF Init, IInv, JobOpen, ManifestSync, SequenceOrder, ListedData, Flags,
                    JobState, EmptyManifest

(* Every step keeps IInv: its parts are kept by the lemmas above. *)
LEMMA IInvNext == IInv /\ [Next]_vars => IInv'
<1> SUFFICES ASSUME IInv, [Next]_vars PROVE IInv'
  OBVIOUS
<1>1. TypeOK' /\ JobOpen'
  BY TypeNext, JobOpenNext DEF IInv
<1>2. ManifestSync' /\ SequenceOrder' /\ ListedData' /\ Flags' /\ JobState'
  BY SyncNext, OrderNext, DataNext, FlagsNext, JobNext
<1> QED
  BY <1>1, <1>2 DEF IInv

(* IInv holds in every state of the spool. *)
THEOREM SegmentsInvariant == Spec => []IInv
BY IInvInit, IInvNext, PTL DEF Spec

(***************************************************************************)
(* A segment listed in segment_manifest.json is retained, by its local     *)
(* file or by its object, through any number of crashes, faults of R2 and  *)
(* damaged files (close_segment, from_loaded, prune_verified_closed_...).  *)
(***************************************************************************)
THEOREM PersistedSegmentsAreRetained == Spec => []PersistedSegmentRetained
<1>1. IInv => PersistedSegmentRetained
  BY DEF IInv, PersistedSegmentRetained, ManifestSync, ListedData
<1> QED
  BY <1>1, SegmentsInvariant, PTL

(***************************************************************************)
(* A verified entry, of the manifest in memory, on disk or in R2, can be   *)
(* restored by restore_segment_file_from_remote.                           *)
(***************************************************************************)
THEOREM VerifiedSegmentsAreRestorable == Spec => []VerifiedIsRestorable
<1>1. IInv => VerifiedIsRestorable
  <2> SUFFICES ASSUME IInv,
                      NEW m \in {manifest, diskManifest, remoteManifest},
                      NEW id \in m.verified
               PROVE  remote[id] = m.contents[id]
    BY DEF VerifiedIsRestorable
  <2>1. CASE m = manifest
    BY <2>1 DEF IInv, Flags
  <2>2. ASSUME NEW j \in diskManifest.verified
        PROVE  j \in Listed(diskManifest) /\ remote[j] = diskManifest.contents[j]
    BY DEF IInv, Flags, ManifestSync
  <2>3. CASE m = remoteManifest
    BY <2>2, <2>3 DEF IInv, ManifestSync
  <2> QED
    BY <2>1, <2>2, <2>3
<1> QED
  BY <1>1, SegmentsInvariant, PTL

(* What segment_manifest.json may not take back. *)
Progress ==
  /\ Listed(diskManifest) \subseteq Listed(diskManifest')
  /\ diskManifest.verified \subseteq diskManifest'.verified
  /\ diskManifest.pruned \subseteq diskManifest'.pruned
  /\ \A id \in Listed(diskManifest) :
       diskManifest'.contents[id] = diskManifest.contents[id]

(* The manifest on disk changes only to the one in memory. *)
LEMMA ManifestProgress ==
  ASSUME IInv, [Next]_vars
  PROVE  Progress
<1>1. diskManifest' \in {manifest, diskManifest}
  BY DEF Next, AppendLine, CloseDueToAge, CloseAll, CloseSegment, RejectBeforeWrite,
       WriteFinal, RejectAfterWrite, UnlinkOpen, RegisterClosed, StartUploads,
       TryUploadSegment, SkipUpload, RefuseDamaged, UploadSucceeds, UploadMismatches,
       UploadFails, UploadsDone, BackoffElapses, EnforceBudget, PruneSegment, PruneDone,
       UploadManifest, DamageFile, CrashRestart, vars, disk
<1> QED
  BY <1>1 DEF Progress, IInv, ManifestSync

(* The saved manifest only makes progress (write_all_reports, from_loaded). *)
THEOREM ManifestOnlyProgresses == Spec => DurableProgress
<1>1. IInv /\ [Next]_vars => [Progress]_vars
  BY ManifestProgress
<1> QED
  BY <1>1, SegmentsInvariant, PTL DEF Spec, DurableProgress, Progress

-----------------------------------------------------------------------------
(* Where the records are. *)

RecordsApart == (\A id \in Ids : Held(id) \subseteq appended) /\ OneSegmentPerRecord

(* What close_segment relies on: a counted segment is not empty, and the   *)
(* file written is a copy of the `.open` file until that one is removed.   *)
CloseInProgress ==
  /\ \A t \in ArtifactTypes : openSeq[t] # 0 => counted[t] # {}
  /\ stage = "written" => finalFile[current] = openFile[current]
  /\ stage \in {"written", "unlinked"} => finalFile[current] # {}

(* An object holds the records of its entry, marked uploaded or not. *)
ObjectsAreEntries ==
  \A id \in Ids : remote[id] # {} => remote[id] = manifest.contents[id]

(* An `.open` file that could not be removed adds nothing to its entry. *)
LeftoversAreCopies ==
  \A id \in Listed(manifest) : openFile[id] \subseteq manifest.contents[id]

DataInv == RecordsApart /\ CloseInProgress /\ ObjectsAreEntries /\ LeftoversAreCopies

(* An accepted record goes to one `.open` file. *)
LEMMA AppendHolds ==
  ASSUME IInv, NEW t \in ArtifactTypes, NEW r \in Records, AppendLine(t, r)
  PROVE  \E i \in Ids :
           /\ i[1] = t /\ openSeq'[t] = i[2] /\ openSeq'[t] # 0
           /\ openSeq[t] # 0 => i = OpenId(t)
           /\ openSeq[t] = 0 => i = <<t, nextSeq[t]>>
           /\ openFile' = [openFile EXCEPT ![i] = @ \cup {r}]
           /\ finalFile' = finalFile /\ remote' = remote
<1> DEFINE seq == IF openSeq[t] = 0 THEN nextSeq[t] ELSE openSeq[t]
           i   == <<t, seq>>
<1>1. /\ openFile' = [openFile EXCEPT ![i] = @ \cup {r}]
      /\ openSeq' = [openSeq EXCEPT ![t] = seq]
      /\ finalFile' = finalFile /\ remote' = remote
      /\ openSeq[t] = 0 => nextSeq[t] <= MaxSeq
  BY DEF AppendLine, r2
<1>2. seq \in 1 .. MaxSeq
  BY <1>1, SegmentsAssumption DEF IInv, TypeOK
<1>3. i \in Ids /\ openSeq'[t] = seq
  BY <1>1, <1>2 DEF Ids, IInv, TypeOK
<1>4. i[1] = t /\ i[2] = seq /\ seq # 0
  BY <1>2
<1> QED
  BY <1>1, <1>3, <1>4 DEF OpenId

(* The segment being closed is an open one. *)
LEMMA ClosingIsOpen ==
  ASSUME IInv, NEW t \in ArtifactTypes, WriteFinal(t) \/ UnlinkOpen(t)
  PROVE  /\ openSeq[t] # 0 /\ OpenId(t) \in Ids /\ OpenId(t) \notin Listed(manifest)
         /\ UnlinkOpen(t) => stage = "written" /\ current = OpenId(t)
<1>1. t \in todo /\ stage \in {"closing", "written"}
  BY DEF WriteFinal, UnlinkOpen, IInv, JobOpen, OpenId
<1>2. openSeq[t] # 0
  BY <1>1 DEF IInv, JobOpen
<1> QED
  BY <1>2, OpenIdType DEF IInv, SequenceOrder, UnlinkOpen

(* The steps that change what the files and the objects hold. *)
DataStep ==
  \/ \E t \in ArtifactTypes : WriteFinal(t) \/ UnlinkOpen(t)
  \/ \E id \in Ids : UploadSucceeds(id) \/ UploadMismatches(id) \/ UploadFails(id)
  \/ \E id \in Ids : PruneSegment(id)

(* The other steps, but for append_line, leave the data where it is. *)
LEMMA OtherSteps ==
  ASSUME IInv, [Next]_vars
  PROVE  \/ DataStep
         \/ \E t \in ArtifactTypes, r \in Records : AppendLine(t, r)
         \/ UNCHANGED <<openFile, finalFile, remote, appended>>
BY DEF DataStep, Next, CloseDueToAge, CloseAll, CloseSegment, RejectBeforeWrite,
       RejectAfterWrite, RegisterClosed, StartUploads, TryUploadSegment, SkipUpload,
       RefuseDamaged, UploadsDone, BackoffElapses, EnforceBudget, PruneDone,
       UploadManifest, DamageFile, CrashRestart, vars, disk, r2

(* Records only move within their segment. *)
LEMMA HeldShrinks ==
  ASSUME IInv, CloseInProgress, DataStep
  PROVE  appended' = appended /\ \A id \in Ids : Held(id)' \subseteq Held(id)
<1>1. ASSUME NEW t \in ArtifactTypes, WriteFinal(t)
      PROVE  appended' = appended /\ \A id \in Ids : Held(id)' \subseteq Held(id)
  <2>1. /\ finalFile' = [finalFile EXCEPT ![OpenId(t)] = openFile[OpenId(t)]]
        /\ openFile' = openFile /\ remote' = remote /\ appended' = appended
    BY <1>1 DEF WriteFinal, r2
  <2>2. OpenId(t) \in Ids
    BY <1>1, ClosingIsOpen
  <2> QED
    BY <2>1, <2>2 DEF Held, IInv, TypeOK
<1>2. ASSUME NEW t \in ArtifactTypes, UnlinkOpen(t)
      PROVE  appended' = appended /\ \A id \in Ids : Held(id)' \subseteq Held(id)
  <2>1. /\ openFile' \in {openFile, [openFile EXCEPT ![current] = {}]}
        /\ finalFile' = finalFile /\ remote' = remote /\ appended' = appended
    BY <1>2 DEF UnlinkOpen, r2
  <2> QED
    BY <2>1 DEF Held, IInv, TypeOK
<1>3. ASSUME NEW i \in Ids, UploadSucceeds(i) \/ UploadMismatches(i) \/ UploadFails(i)
      PROVE  appended' = appended /\ \A id \in Ids : Held(id)' \subseteq Held(id)
  <2>1. /\ \/ remote' = [remote EXCEPT ![i] = finalFile[i]]
           \/ remote' = [remote EXCEPT ![i] = {}]
           \/ remote' = remote
        /\ openFile' = openFile /\ finalFile' = finalFile /\ appended' = appended
    BY <1>3 DEF UploadSucceeds, UploadMismatches, UploadFails, disk
  <2> QED
    BY <2>1 DEF Held, IInv, TypeOK
<1>4. ASSUME NEW i \in Ids, PruneSegment(i)
      PROVE  appended' = appended /\ \A id \in Ids : Held(id)' \subseteq Held(id)
  <2>1. /\ finalFile' = [finalFile EXCEPT ![i] = {}]
        /\ openFile' = openFile /\ remote' = remote /\ appended' = appended
    BY <1>4 DEF PruneSegment, r2
  <2> QED
    BY <2>1 DEF Held, IInv, TypeOK
<1> QED
  BY <1>1, <1>2, <1>3, <1>4 DEF DataStep

(* No record is held twice: a new one is held by nothing, the others move  *)
(* within their segment.                                                   *)
LEMMA RecordsApartNext ==
  ASSUME IInv, CloseInProgress, RecordsApart, [Next]_vars
  PROVE  RecordsApart'
<1>1. ASSUME NEW t \in ArtifactTypes, NEW r \in Records, AppendLine(t, r)
      PROVE  RecordsApart'
  <2>1. PICK i \in Ids : /\ openFile' = [openFile EXCEPT ![i] = @ \cup {r}]
                         /\ finalFile' = finalFile /\ remote' = remote
    BY <1>1, AppendHolds
  <2>2. appended' = appended \cup {r} /\ r \notin appended
    BY <1>1 DEF AppendLine
  <2>3. Held(i)' = Held(i) \cup {r} /\ \A j \in Ids \ {i} : Held(j)' = Held(j)
    BY <2>1 DEF Held, IInv, TypeOK
  <2>4. \A j \in Ids : r \notin Held(j)
    BY <2>2 DEF RecordsApart
  <2>5. \A j \in Ids : Held(j)' \subseteq appended'
    BY <2>2, <2>3 DEF RecordsApart
  <2>6. \A j, k \in Ids : j # k => Held(j) \cap Held(k) = {}
    BY DEF RecordsApart, OneSegmentPerRecord, Held
  <2>7. \A j, k \in Ids : j # k => Held(j)' \cap Held(k)' = {}
    BY <2>3, <2>4, <2>6
  <2> QED
    BY <2>5, <2>7 DEF RecordsApart, OneSegmentPerRecord, Held
<1>2. ASSUME appended' = appended, \A id \in Ids : Held(id)' \subseteq Held(id)
      PROVE  RecordsApart'
  <2>1. \A id \in Ids : Held(id)' \subseteq appended'
    BY <1>2 DEF RecordsApart
  <2>2. \A j, k \in Ids : j # k => Held(j) \cap Held(k) = {}
    BY DEF RecordsApart, OneSegmentPerRecord, Held
  <2>3. \A j, k \in Ids : j # k => Held(j)' \cap Held(k)' = {}
    BY <1>2, <2>2
  <2> QED
    BY <2>1, <2>3 DEF RecordsApart, OneSegmentPerRecord, Held
<1>3. UNCHANGED <<openFile, finalFile, remote, appended>>
        => appended' = appended /\ \A id \in Ids : Held(id)' \subseteq Held(id)
  BY DEF Held
<1> QED
  BY <1>1, <1>2, <1>3, HeldShrinks, OtherSteps

(* A segment is closed with records in it. *)
LEMMA CloseInProgressNext ==
  ASSUME IInv, CloseInProgress, [Next]_vars
  PROVE  CloseInProgress'
<1> USE DEF disk, r2, writer, retry, job, budget
<1>1. ASSUME NEW t \in ArtifactTypes, NEW r \in Records, AppendLine(t, r)
      PROVE  CloseInProgress'
  <2>1. /\ counted'[t] # {} /\ \A u \in ArtifactTypes \ {t} : counted'[u] = counted[u]
        /\ \A u \in ArtifactTypes \ {t} : openSeq'[u] = openSeq[u]
    BY <1>1 DEF AppendLine, IInv, TypeOK
  <2>2. stage' \in {"idle", "closing"}
    BY <1>1 DEF AppendLine
  <2> QED
    BY <2>1, <2>2 DEF CloseInProgress
<1>2. ASSUME NEW t \in ArtifactTypes, CloseSegment(t)
      PROVE  CloseInProgress'
  <2>1. CASE RejectBeforeWrite(t)
    BY <2>1 DEF RejectBeforeWrite, CloseNext, CloseInProgress
  <2>2. CASE WriteFinal(t)
    <3>1. OpenId(t) \in Ids /\ openSeq[t] # 0
      BY <2>2, ClosingIsOpen
    <3>2. finalFile'[OpenId(t)] = counted[t] /\ openFile[OpenId(t)] = counted[t]
      BY <2>2, <3>1 DEF WriteFinal, IInv, TypeOK
    <3>3. current' = OpenId(t) /\ UNCHANGED <<openFile, openSeq, counted>>
      BY <2>2 DEF WriteFinal
    <3> QED
      BY <3>1, <3>2, <3>3 DEF CloseInProgress
  <2>3. CASE RejectAfterWrite(t)
    BY <2>3 DEF RejectAfterWrite, CloseNext, CloseInProgress
  <2>4. CASE UnlinkOpen(t)
    <3>1. /\ stage = "written" /\ stage' = "unlinked" /\ UNCHANGED <<finalFile, current>>
          /\ openSeq' = [openSeq EXCEPT ![t] = 0]
          /\ counted' = [counted EXCEPT ![t] = {}]
      BY <2>4 DEF UnlinkOpen
    <3> QED
      BY <3>1 DEF CloseInProgress, IInv, TypeOK
  <2>5. CASE RegisterClosed(t)
    BY <2>5 DEF RegisterClosed, CloseNext, CloseInProgress
  <2> QED
    BY <1>2, <2>1, <2>2, <2>3, <2>4, <2>5 DEF CloseSegment
<1>3. ASSUME NEW id \in Ids, TryUploadSegment(id) \/ PruneSegment(id)
      PROVE  CloseInProgress'
  <2>1. stage \in {"uploading", "pruning"} /\ stage' = stage /\ UNCHANGED <<openSeq, counted>>
    BY <1>3 DEF TryUploadSegment, SkipUpload, RefuseDamaged, UploadSucceeds, UploadMismatches,
                UploadFails, Uploadable, PruneSegment
  <2> QED
    BY <2>1 DEF CloseInProgress
<1>4. CASE CloseDueToAge \/ CloseAll \/ StartUploads \/ UploadsDone \/ EnforceBudget
           \/ PruneDone \/ UploadManifest
  <2>1. stage' \notin {"written", "unlinked"} /\ UNCHANGED <<openSeq, counted>>
    BY <1>4 DEF CloseDueToAge, CloseAll, StartUploads, UploadsDone, EnforceBudget, PruneDone,
                UploadManifest
  <2> QED
    BY <2>1 DEF CloseInProgress
<1>5. ASSUME NEW id \in Ids, BackoffElapses(id) \/ DamageFile(id)
      PROVE  CloseInProgress'
  BY <1>5 DEF BackoffElapses, DamageFile, CloseInProgress
<1>6. CASE CrashRestart
  BY <1>6 DEF CrashRestart, CloseInProgress
<1>7. CASE UNCHANGED vars
  BY <1>7 DEF vars, CloseInProgress
<1> QED
  BY <1>1, <1>2, <1>3, <1>4, <1>5, <1>6, <1>7 DEF Next

(* An upload stores the records of the entry, or leaves no object. *)
LEMMA ObjectsNext ==
  ASSUME IInv, ObjectsAreEntries, [Next]_vars
  PROVE  ObjectsAreEntries'
<1> USE DEF disk, r2, writer, retry, job, budget
<1>1. ASSUME NEW t \in ArtifactTypes, UnlinkOpen(t)
      PROVE  ObjectsAreEntries'
  <2>1. /\ manifest'.contents = [manifest.contents EXCEPT ![current] = finalFile[current]]
        /\ remote' = remote
    BY <1>1, UnlinkFields DEF UnlinkOpen, IInv
  <2>2. current \in Ids /\ remote[current] = {}
    BY <1>1, ClosingIsOpen DEF IInv, Flags, ManifestSync
  <2> QED
    BY <2>1, <2>2 DEF ObjectsAreEntries, IInv, TypeOK, Manifests
<1>2. ASSUME NEW id \in Ids, UploadSucceeds(id) \/ UploadMismatches(id) \/ UploadFails(id)
      PROVE  ObjectsAreEntries'
  <2>1. finalFile[id] = manifest.contents[id]
    BY <1>2 DEF UploadSucceeds, UploadMismatches, UploadFails, Uploadable, IInv, JobState,
                ManifestSync, ListedData
  <2>2. manifest'.contents = manifest.contents
    BY <1>2, AnsweredFields, FailedFields DEF IInv
  <2>3. \/ remote' = [remote EXCEPT ![id] = finalFile[id]]
        \/ remote' = [remote EXCEPT ![id] = {}]
        \/ remote' = remote
    BY <1>2 DEF UploadSucceeds, UploadMismatches, UploadFails
  <2> QED
    BY <2>1, <2>2, <2>3 DEF ObjectsAreEntries, IInv, TypeOK
<1>3. ASSUME NEW id \in Ids, RefuseDamaged(id) \/ PruneSegment(id)
      PROVE  ObjectsAreEntries'
  <2>1. manifest'.contents = manifest.contents /\ remote' = remote
    BY <1>3, FailedFields, PruneFields DEF RefuseDamaged, PruneSegment, IInv
  <2> QED
    BY <2>1 DEF ObjectsAreEntries
<1>4. CASE CrashRestart
  <2>1. manifest' = diskManifest /\ remote' = remote
    BY <1>4 DEF CrashRestart
  <2> QED
    BY <2>1 DEF ObjectsAreEntries, IInv, Flags, ManifestSync
<1>5. CASE UNCHANGED <<manifest, remote>>
  BY <1>5 DEF ObjectsAreEntries
<1>6. \/ \E t \in ArtifactTypes : UnlinkOpen(t)
      \/ \E id \in Ids : UploadSucceeds(id) \/ UploadMismatches(id) \/ UploadFails(id)
      \/ \E id \in Ids : RefuseDamaged(id) \/ PruneSegment(id)
      \/ CrashRestart
      \/ UNCHANGED <<manifest, remote>>
  BY DEF Next, AppendLine, CloseDueToAge, CloseAll, CloseSegment, RejectBeforeWrite, WriteFinal,
         RejectAfterWrite, RegisterClosed, StartUploads, TryUploadSegment, SkipUpload,
         UploadsDone, BackoffElapses, EnforceBudget, PruneDone, UploadManifest, DamageFile, vars
<1> QED
  BY <1>1, <1>2, <1>3, <1>4, <1>5, <1>6

(* A segment is listed with the records of its `.open` file, and appended  *)
(* to no more, whatever sequence numbers a restart goes on from.           *)
LEMMA LeftoversNext ==
  ASSUME IInv, CloseInProgress, LeftoversAreCopies, [Next]_vars
  PROVE  LeftoversAreCopies'
<1> USE DEF disk, r2, writer, retry, job, budget
<1>1. ASSUME NEW t \in ArtifactTypes, NEW r \in Records, AppendLine(t, r)
      PROVE  LeftoversAreCopies'
  <2>1. PICK i \in Ids : /\ openSeq[t] # 0 => i = OpenId(t)
                         /\ openSeq[t] = 0 => i = <<t, nextSeq[t]>>
                         /\ openFile' = [openFile EXCEPT ![i] = @ \cup {r}]
    BY <1>1, AppendHolds
  <2>2. i \notin Listed(manifest)
    <3>1. <<t, nextSeq[t]>> \notin Listed(manifest)
      BY SegmentsAssumption DEF IInv, SequenceOrder, TypeOK
    <3> QED
      BY <2>1, <3>1 DEF IInv, SequenceOrder
  <2>3. \A id \in Listed(manifest) : openFile'[id] = openFile[id]
    BY <2>1, <2>2 DEF IInv, TypeOK, Listed
  <2>4. manifest' = manifest
    BY <1>1 DEF AppendLine
  <2> QED
    BY <2>3, <2>4 DEF LeftoversAreCopies
<1>2. ASSUME NEW t \in ArtifactTypes, UnlinkOpen(t)
      PROVE  LeftoversAreCopies'
  <2>1. /\ current \in Ids
        /\ Listed(manifest') = Listed(manifest) \cup {current}
        /\ manifest'.contents = [manifest.contents EXCEPT ![current] = finalFile[current]]
    BY <1>2, UnlinkFields DEF IInv
  <2>2. \A id \in Ids : openFile'[id] \subseteq openFile[id]
    BY <1>2 DEF UnlinkOpen, IInv, TypeOK
  <2>3. finalFile[current] = openFile[current]
    BY <1>2 DEF UnlinkOpen, CloseInProgress
  <2>4. manifest'.contents[current] = openFile[current]
    BY <2>1, <2>3 DEF IInv, TypeOK, Manifests
  <2>5. \A id \in Listed(manifest) \ {current} : manifest'.contents[id] = manifest.contents[id]
    BY <2>1 DEF IInv, TypeOK, Manifests, Listed
  <2>6. Listed(manifest)' = Listed(manifest') /\ Listed(manifest) \subseteq Ids
    BY DEF Listed
  <2> QED
    BY <2>1, <2>2, <2>4, <2>5, <2>6 DEF LeftoversAreCopies
<1>3. ASSUME NEW id \in Ids, UploadSucceeds(id) \/ UploadMismatches(id)
      PROVE  LeftoversAreCopies'
  <2>1. openFile' = openFile
    BY <1>3 DEF UploadSucceeds, UploadMismatches
  <2> QED
    BY <1>3, <2>1, AnsweredFields DEF LeftoversAreCopies
<1>4. ASSUME NEW id \in Ids, RefuseDamaged(id) \/ UploadFails(id) \/ PruneSegment(id)
      PROVE  LeftoversAreCopies'
  <2>1. openFile' = openFile
    BY <1>4 DEF RefuseDamaged, UploadFails, PruneSegment
  <2>2. Listed(manifest') = Listed(manifest) /\ manifest'.contents = manifest.contents
    BY <1>4, FailedFields, PruneFields DEF IInv
  <2> QED
    BY <2>1, <2>2 DEF LeftoversAreCopies
<1>5. CASE CrashRestart
  <2>1. manifest' = diskManifest /\ openFile' = openFile
    BY <1>5 DEF CrashRestart
  <2> QED
    BY <2>1 DEF LeftoversAreCopies, IInv, ManifestSync
<1>6. CASE UNCHANGED <<manifest, openFile>>
  BY <1>6 DEF LeftoversAreCopies
<1>7. \/ \E t \in ArtifactTypes, r \in Records : AppendLine(t, r)
      \/ \E t \in ArtifactTypes : UnlinkOpen(t)
      \/ \E id \in Ids : UploadSucceeds(id) \/ UploadMismatches(id)
      \/ \E id \in Ids : RefuseDamaged(id) \/ UploadFails(id) \/ PruneSegment(id)
      \/ CrashRestart
      \/ UNCHANGED <<manifest, openFile>>
  BY DEF Next, CloseDueToAge, CloseAll, CloseSegment, RejectBeforeWrite, WriteFinal,
         RejectAfterWrite, RegisterClosed, StartUploads, TryUploadSegment, SkipUpload,
         UploadsDone, BackoffElapses, EnforceBudget, PruneDone, UploadManifest, DamageFile, vars
<1> QED
  BY <1>1, <1>2, <1>3, <1>4, <1>5, <1>6, <1>7

(* The records of a run stay where they belong. *)
THEOREM DataInvariance == Spec => []DataInv
<1>1. Init => DataInv
  <2>1. Init => Listed(manifest) = {}
    BY DEF Init, Listed, EmptyManifest
  <2> QED
    BY <2>1 DEF Init, DataInv, RecordsApart, OneSegmentPerRecord, CloseInProgress,
                ObjectsAreEntries, LeftoversAreCopies, Held
<1>2. IInv /\ DataInv /\ [Next]_vars => DataInv'
  BY RecordsApartNext, CloseInProgressNext, ObjectsNext, LeftoversNext DEF DataInv
<1> QED
  BY <1>1, <1>2, SegmentsInvariant, PTL DEF Spec

(***************************************************************************)
(* No segment is uploaded before it is closed and saved, and nothing is    *)
(* appended to it afterwards, also when its `.open` file could not be      *)
(* removed and the run is started again (append_line, close_segment,       *)
(* from_loaded, try_upload_segment).                                       *)
(***************************************************************************)
THEOREM UploadsFollowClose == Spec => []NoUploadBeforeClose
<1>1. IInv /\ DataInv => NoUploadBeforeClose
  <2> SUFFICES ASSUME IInv, DataInv, NEW id \in Ids, remote[id] # {}
               PROVE  /\ id \in Listed(diskManifest)
                      /\ remote[id] = diskManifest.contents[id]
                      /\ openFile[id] \subseteq remote[id]
    BY DEF NoUploadBeforeClose
  <2>1. id \in Listed(diskManifest)
    BY DEF IInv, Flags
  <2>2. id \in Listed(manifest) /\ diskManifest.contents[id] = manifest.contents[id]
    BY <2>1 DEF IInv, ManifestSync
  <2> QED
    BY <2>1, <2>2 DEF DataInv, ObjectsAreEntries, LeftoversAreCopies
<1> QED
  BY <1>1, SegmentsInvariant, DataInvariance, PTL

(***************************************************************************)
(* No record is held under two segment ids, whatever crashes: a sequence   *)
(* number is given again (from_loaded) only to a segment whose files are   *)
(* written over, never copied (append_line, close_segment, uploads).       *)
(***************************************************************************)
THEOREM RecordsHaveOneSegment == Spec => []OneSegmentPerRecord
<1>1. DataInv => OneSegmentPerRecord
  BY DEF DataInv, RecordsApart
<1> QED
  BY <1>1, DataInvariance, PTL

-----------------------------------------------------------------------------
(* Without a crash, no record is lost. *)

(* What makes the writing of a closed file safe as long as no sequence     *)
(* number is given again: what it replaces is in the `.open` file, and the *)
(* next segments have no file.                                             *)
Unreplaced ==
  /\ \A t \in ArtifactTypes : openSeq[t] # 0 => finalFile[OpenId(t)] \subseteq openFile[OpenId(t)]
  /\ \A id \in Ids : id[2] >= nextSeq[id[1]] => finalFile[id] = {}

UncrashedInv == crashes = 0 => NoRecordLost /\ Unreplaced

(* A record that is not lost is held by a segment. *)
LEMMA HeldIsNotLost == NoRecordLost <=> \A r \in appended : \E id \in Ids : r \in Held(id)
BY DEF NoRecordLost, KeptRecords

(* A step that moves data loses none. *)
LEMMA HeldKept ==
  ASSUME IInv, DataInv, Unreplaced, DataStep
  PROVE  \A id \in Ids : Held(id) \subseteq Held(id)'
<1> USE DEF disk, r2
<1>1. ASSUME NEW t \in ArtifactTypes, WriteFinal(t)
      PROVE  \A id \in Ids : Held(id) \subseteq Held(id)'
  <2>1. OpenId(t) \in Ids /\ finalFile[OpenId(t)] \subseteq openFile[OpenId(t)]
    BY <1>1, ClosingIsOpen DEF Unreplaced
  <2>2. /\ finalFile' = [finalFile EXCEPT ![OpenId(t)] = openFile[OpenId(t)]]
        /\ openFile' = openFile /\ remote' = remote
    BY <1>1 DEF WriteFinal
  <2> QED
    BY <2>1, <2>2 DEF Held, IInv, TypeOK
<1>2. ASSUME NEW t \in ArtifactTypes, UnlinkOpen(t)
      PROVE  \A id \in Ids : Held(id) \subseteq Held(id)'
  <2>1. finalFile[current] = openFile[current]
    BY <1>2, ClosingIsOpen DEF DataInv, CloseInProgress
  <2>2. /\ openFile' \in {openFile, [openFile EXCEPT ![current] = {}]}
        /\ finalFile' = finalFile /\ remote' = remote
    BY <1>2 DEF UnlinkOpen
  <2> QED
    BY <2>1, <2>2 DEF Held, IInv, TypeOK
<1>3. ASSUME NEW i \in Ids, UploadSucceeds(i) \/ UploadMismatches(i) \/ UploadFails(i)
      PROVE  \A id \in Ids : Held(id) \subseteq Held(id)'
  <2>1. finalFile[i] = manifest.contents[i]
    BY <1>3 DEF UploadSucceeds, UploadMismatches, UploadFails, Uploadable, IInv, JobState,
                ManifestSync, ListedData
  <2>2. remote[i] \subseteq finalFile[i]
    BY <2>1 DEF DataInv, ObjectsAreEntries
  <2>3. /\ openFile' = openFile /\ finalFile' = finalFile
        /\ \A j \in Ids \ {i} : remote'[j] = remote[j]
    BY <1>3 DEF UploadSucceeds, UploadMismatches, UploadFails, IInv, TypeOK
  <2> QED
    BY <2>2, <2>3 DEF Held
<1>4. ASSUME NEW i \in Ids, PruneSegment(i)
      PROVE  \A id \in Ids : Held(id) \subseteq Held(id)'
  <2>1. remote[i] = manifest.contents[i] /\ i \in Listed(manifest)
    BY <1>4 DEF PruneSegment, Prunable, IInv, Flags, ManifestSync
  <2>2. finalFile[i] \subseteq remote[i]
    BY <2>1 DEF IInv, ListedData
  <2>3. /\ finalFile' = [finalFile EXCEPT ![i] = {}]
        /\ openFile' = openFile /\ remote' = remote
    BY <1>4 DEF PruneSegment
  <2> QED
    BY <2>2, <2>3 DEF Held, IInv, TypeOK
<1> QED
  BY <1>1, <1>2, <1>3, <1>4 DEF DataStep

(* The steps that open, write or close a segment keep the next ones unused. *)
LEMMA UnreplacedNext ==
  ASSUME IInv, DataInv, Unreplaced, [Next]_vars, ~CrashRestart
  PROVE  Unreplaced'
<1> USE DEF disk, r2, writer
<1>1. ASSUME NEW t \in ArtifactTypes, NEW r \in Records, AppendLine(t, r)
      PROVE  Unreplaced'
  <2>1. PICK i \in Ids : /\ i[1] = t /\ openSeq'[t] = i[2]
                         /\ openSeq[t] # 0 => i = OpenId(t)
                         /\ openSeq[t] = 0 => i = <<t, nextSeq[t]>>
                         /\ openFile' = [openFile EXCEPT ![i] = @ \cup {r}]
                         /\ finalFile' = finalFile
    BY <1>1, AppendHolds
  <2>2. OpenId(t)' = i
    BY <2>1 DEF OpenId, Ids
  <2>3. finalFile[i] \subseteq openFile[i]
    <3>1. CASE openSeq[t] # 0
      BY <3>1, <2>1 DEF Unreplaced
    <3>2. CASE openSeq[t] = 0
      <4>1. i[1] = t /\ i[2] = nextSeq[t] /\ nextSeq[t] \in Nat
        BY <3>2, <2>1, SegmentsAssumption DEF IInv, TypeOK
      <4> QED
        BY <4>1 DEF Unreplaced
    <3> QED
      BY <3>1, <3>2
  <2>4. \A u \in ArtifactTypes \ {t} : openSeq'[u] = openSeq[u]
    BY <1>1 DEF AppendLine, IInv, TypeOK
  <2>5. \A j \in Ids : openFile[j] \subseteq openFile'[j]
    BY <2>1 DEF IInv, TypeOK
  <2>6. \A u \in ArtifactTypes : openSeq'[u] # 0 => finalFile'[OpenId(u)'] \subseteq openFile'[OpenId(u)']
    <3> SUFFICES ASSUME NEW u \in ArtifactTypes, openSeq'[u] # 0
                 PROVE  finalFile'[OpenId(u)'] \subseteq openFile'[OpenId(u)']
      OBVIOUS
    <3>1. CASE u = t
      BY <3>1, <2>1, <2>2, <2>3, <2>5
    <3>2. CASE u # t
      <4>1. OpenId(u)' = OpenId(u) /\ openSeq[u] # 0
        BY <3>2, <2>4 DEF OpenId
      <4>2. OpenId(u) \in Ids
        BY <4>1, OpenIdType DEF IInv
      <4> QED
        BY <4>1, <4>2, <2>1, <2>5 DEF Unreplaced
    <3> QED
      BY <3>1, <3>2
  <2>7. \A j \in Ids : j[2] >= nextSeq'[j[1]] => j[2] >= nextSeq[j[1]]
    <3>1. \A u \in ArtifactTypes : nextSeq'[u] >= nextSeq[u] /\ nextSeq[u] \in Nat /\ nextSeq'[u] \in Nat
      BY <1>1, SegmentsAssumption DEF AppendLine, IInv, TypeOK
    <3> QED
      BY <3>1, SegmentsAssumption DEF Ids
  <2> QED
    BY <2>1, <2>6, <2>7 DEF Unreplaced
<1>2. ASSUME NEW t \in ArtifactTypes, WriteFinal(t)
      PROVE  Unreplaced'
  <2>1. OpenId(t) \in Ids /\ openSeq[t] # 0
    BY <1>2, ClosingIsOpen
  <2>2. /\ finalFile' = [finalFile EXCEPT ![OpenId(t)] = openFile[OpenId(t)]]
        /\ UNCHANGED <<openFile, openSeq, nextSeq>>
    BY <1>2 DEF WriteFinal
  <2>3. OpenId(t)[1] = t /\ OpenId(t)[2] = openSeq[t] /\ openSeq[t] < nextSeq[t]
    BY <2>1 DEF OpenId, IInv, SequenceOrder
  <2>4. ~(OpenId(t)[2] >= nextSeq[OpenId(t)[1]])
    BY <2>3, SegmentsAssumption DEF IInv, TypeOK
  <2>5. \A j \in Ids : j # OpenId(t) => finalFile'[j] = finalFile[j]
    BY <2>2 DEF IInv, TypeOK
  <2>6. finalFile'[OpenId(t)] = openFile[OpenId(t)]
    BY <2>1, <2>2 DEF IInv, TypeOK
  <2>7. \A u \in ArtifactTypes : openSeq[u] # 0 => OpenId(u) \in Ids /\ OpenId(u)' = OpenId(u)
    BY <2>2, OpenIdType DEF IInv, OpenId
  <2> QED
    BY <2>2, <2>4, <2>5, <2>6, <2>7 DEF Unreplaced
<1>3. ASSUME NEW t \in ArtifactTypes, UnlinkOpen(t)
      PROVE  Unreplaced'
  <2>1. openSeq[t] # 0 /\ OpenId(t) \in Ids /\ current = OpenId(t)
    BY <1>3, ClosingIsOpen
  <2>2. /\ openSeq' = [openSeq EXCEPT ![t] = 0]
        /\ openFile' \in {openFile, [openFile EXCEPT ![current] = {}]}
        /\ UNCHANGED <<finalFile, nextSeq>>
    BY <1>3 DEF UnlinkOpen
  <2>3. \A u \in ArtifactTypes : openSeq'[u] # 0 =>
          /\ u # t /\ OpenId(u)' = OpenId(u) /\ openSeq[u] # 0
          /\ OpenId(u) \in Ids /\ OpenId(u) # current
    <3> SUFFICES ASSUME NEW u \in ArtifactTypes, openSeq'[u] # 0
                 PROVE  /\ u # t /\ OpenId(u)' = OpenId(u) /\ openSeq[u] # 0
                        /\ OpenId(u) \in Ids /\ OpenId(u) # current
      OBVIOUS
    <3>1. u # t /\ openSeq'[u] = openSeq[u]
      BY <2>2 DEF IInv, TypeOK
    <3>2. OpenId(u) # OpenId(t)
      BY <3>1 DEF OpenId
    <3> QED
      BY <3>1, <3>2, <2>1, OpenIdType DEF OpenId, IInv
  <2>4. \A j \in Ids : j # current => openFile'[j] = openFile[j]
    BY <2>2 DEF IInv, TypeOK
  <2> QED
    BY <2>2, <2>3, <2>4 DEF Unreplaced
<1>4. ASSUME NEW i \in Ids, PruneSegment(i)
      PROVE  Unreplaced'
  <2>1. /\ finalFile' = [finalFile EXCEPT ![i] = {}] /\ UNCHANGED <<openFile, openSeq, nextSeq>>
    BY <1>4 DEF PruneSegment
  <2>2. \A j \in Ids : finalFile'[j] \subseteq finalFile[j]
    BY <2>1 DEF IInv, TypeOK
  <2>3. \A u \in ArtifactTypes : openSeq[u] # 0 => OpenId(u) \in Ids /\ OpenId(u)' = OpenId(u)
    BY <2>1, OpenIdType DEF IInv, OpenId
  <2> QED
    BY <2>1, <2>2, <2>3 DEF Unreplaced
<1>5. CASE UNCHANGED <<openFile, finalFile, openSeq, nextSeq>>
  BY <1>5 DEF Unreplaced, OpenId
<1>6. \/ \E t \in ArtifactTypes, r \in Records : AppendLine(t, r)
      \/ \E t \in ArtifactTypes : WriteFinal(t) \/ UnlinkOpen(t)
      \/ \E i \in Ids : PruneSegment(i)
      \/ UNCHANGED <<openFile, finalFile, openSeq, nextSeq>>
  BY DEF Next, CloseDueToAge, CloseAll, CloseSegment, RejectBeforeWrite, RejectAfterWrite,
         RegisterClosed, StartUploads, TryUploadSegment, SkipUpload, RefuseDamaged,
         UploadSucceeds, UploadMismatches, UploadFails, UploadsDone, BackoffElapses,
         EnforceBudget, PruneDone, UploadManifest, DamageFile, vars
<1> QED
  BY <1>1, <1>2, <1>3, <1>4, <1>5, <1>6

(* No step but a crash loses a record. *)
LEMMA UncrashedNext ==
  ASSUME IInv, DataInv, UncrashedInv, [Next]_vars
  PROVE  UncrashedInv'
<1>1. CASE CrashRestart
  <2>1. crashes \in Nat /\ crashes' = crashes + 1
    BY <1>1, SegmentsAssumption DEF CrashRestart, IInv, TypeOK
  <2> QED
    BY <2>1 DEF UncrashedInv
<1>2. CASE ~CrashRestart
  <2>1. crashes' = crashes
    BY <1>2 DEF Next, AppendLine, CloseDueToAge, CloseAll, CloseSegment, RejectBeforeWrite,
       WriteFinal, RejectAfterWrite, UnlinkOpen, RegisterClosed, StartUploads,
       TryUploadSegment, SkipUpload, RefuseDamaged, UploadSucceeds, UploadMismatches,
       UploadFails, UploadsDone, BackoffElapses, EnforceBudget, PruneSegment, PruneDone,
       UploadManifest, DamageFile, vars, budget
  <2> SUFFICES ASSUME NoRecordLost, Unreplaced PROVE NoRecordLost' /\ Unreplaced'
    BY <2>1 DEF UncrashedInv
  <2>2. ASSUME NEW t \in ArtifactTypes, NEW r \in Records, AppendLine(t, r)
        PROVE  NoRecordLost'
    <3>1. PICK i \in Ids : /\ openFile' = [openFile EXCEPT ![i] = @ \cup {r}]
                           /\ finalFile' = finalFile /\ remote' = remote
      BY <2>2, AppendHolds
    <3>2. r \in Held(i)' /\ \A j \in Ids : Held(j) \subseteq Held(j)'
      BY <3>1 DEF Held, IInv, TypeOK
    <3>3. appended' = appended \cup {r}
      BY <2>2 DEF AppendLine
    <3>4. \A q \in appended' : \E id \in Ids : q \in Held(id)'
      BY <3>2, <3>3, HeldIsNotLost
    <3> QED
      BY <3>4 DEF NoRecordLost, KeptRecords
  <2>3. ASSUME appended' = appended, \A id \in Ids : Held(id) \subseteq Held(id)'
        PROVE  NoRecordLost'
    <3>1. \A q \in appended' : \E id \in Ids : q \in Held(id)'
      BY <2>3, HeldIsNotLost
    <3> QED
      BY <3>1 DEF NoRecordLost, KeptRecords
  <2>4. DataStep => NoRecordLost'
    <3>1. CloseInProgress
      BY DEF DataInv
    <3> QED
      BY <2>3, <3>1, HeldShrinks, HeldKept
  <2>5. UNCHANGED <<openFile, finalFile, remote, appended>> => NoRecordLost'
    BY <2>3 DEF Held
  <2>6. NoRecordLost'
    BY <2>2, <2>4, <2>5, OtherSteps
  <2> QED
    BY <2>6, <1>2, UnreplacedNext
<1> QED
  BY <1>1, <1>2

(* Before the first crash nothing is lost and nothing is written over. *)
LEMMA UncrashedInvariance == Spec => []UncrashedInv
<1>1. Init => UncrashedInv
  BY DEF Init, UncrashedInv, NoRecordLost, Unreplaced
<1>2. IInv /\ DataInv /\ UncrashedInv /\ [Next]_vars => UncrashedInv'
  BY UncrashedNext
<1> QED
  BY <1>1, <1>2, SegmentsInvariant, DataInvariance, PTL DEF Spec

(***************************************************************************)
(* A run that does not crash loses no record it accepted, whatever R2      *)
(* answers, whatever is retried and whatever is pruned (append_line,       *)
(* close_segment, try_upload_segment, prune_verified_closed_segments).     *)
(***************************************************************************)
THEOREM UncrashedRunsKeepRecords == Spec => []AcceptedRecordsKept
<1>1. UncrashedInv => AcceptedRecordsKept
  BY DEF UncrashedInv, AcceptedRecordsKept
<1> QED
  BY <1>1, UncrashedInvariance, PTL

-----------------------------------------------------------------------------
(* The newest segments of a type stay on the local disk. *)

NewerListed(m, id) == {j \in Listed(m) : j[1] = id[1] /\ j[2] > id[2]}

(* The window in terms of what is saved: a restart falls back on that. *)
WindowOnDisk ==
  \A id \in Listed(diskManifest) :
    finalFile[id] = {} => Cardinality(NewerListed(diskManifest, id)) >= KeepLast

(* Any set of segments can be counted. *)
LEMMA IdsFinite ==
  /\ IsFiniteSet(Ids)
  /\ \A S \in SUBSET Ids : IsFiniteSet(S) /\ Cardinality(S) \in Nat
  /\ \A S \in SUBSET Ids : \A T \in SUBSET S : Cardinality(T) <= Cardinality(S)
<1>1. IsFiniteSet(1 .. MaxSeq)
  BY FS_Interval, SegmentsAssumption
<1>2. IsFiniteSet(Ids)
  BY <1>1, FS_Product, SegmentsAssumption DEF Ids
<1> QED
  BY <1>2, FS_Subset, FS_CardinalityType

(* More listed segments do not shrink the window. *)
LEMMA WindowGrows ==
  ASSUME NEW m, NEW n, Listed(m) \subseteq Listed(n), NEW id \in Ids,
         Cardinality(NewerListed(m, id)) >= KeepLast
  PROVE  Cardinality(NewerListed(n, id)) >= KeepLast
<1> DEFINE S == NewerListed(m, id)
           T == NewerListed(n, id)
<1>1. T \in SUBSET Ids /\ S \in SUBSET T
  BY DEF NewerListed, Listed
<1>2. S \in SUBSET Ids
  BY <1>1
<1>3. Cardinality(S) \in Nat /\ Cardinality(T) \in Nat /\ Cardinality(S) <= Cardinality(T)
  BY <1>1, <1>2, IdsFinite
<1>4. Cardinality(S) >= KeepLast
  OBVIOUS
<1> HIDE DEF S, T
<1>5. Cardinality(T) >= KeepLast
  BY <1>3, <1>4, SegmentsAssumption
<1> QED
  BY <1>5 DEF T

(* A segment is pruned when enough verified segments follow it. *)
LEMMA WindowAtPrune ==
  ASSUME IInv, NEW id \in Ids, PruneSegment(id)
  PROVE  Cardinality(NewerListed(diskManifest, id)) >= KeepLast
<1> DEFINE S == NewerVerified(id)
           T == NewerListed(diskManifest, id)
<1>1. T \in SUBSET Ids /\ S \in SUBSET T
  BY DEF NewerListed, NewerVerified, Listed, IInv, Flags
<1>2. S \in SUBSET Ids
  BY <1>1
<1>3. Cardinality(S) \in Nat /\ Cardinality(T) \in Nat /\ Cardinality(S) <= Cardinality(T)
  BY <1>1, <1>2, IdsFinite
<1>4. Cardinality(S) >= KeepLast
  BY DEF PruneSegment, Prunable
<1> HIDE DEF S, T
<1>5. Cardinality(T) >= KeepLast
  BY <1>3, <1>4, SegmentsAssumption
<1> QED
  BY <1>5 DEF T

(* A manifest that lists what is on disk, and at most one segment with a    *)
(* file besides, has the window of the one on disk.                        *)
LEMMA WindowInMemory ==
  ASSUME IInv, DataInv, WindowOnDisk
  PROVE  NewestStaysLocal
<1>1. ASSUME NEW id \in Listed(manifest), finalFile[id] = {}
      PROVE  Cardinality(NewerListed(manifest, id)) >= KeepLast
  <2>1. id \in Listed(diskManifest)
    <3>1. CASE stage = "unlinked"
      BY <3>1, <1>1 DEF IInv, ManifestSync, DataInv, CloseInProgress
    <3>2. CASE stage # "unlinked"
      BY <3>2 DEF IInv, ManifestSync
    <3> QED
      BY <3>1, <3>2
  <2>2. id \in Ids /\ Cardinality(NewerListed(diskManifest, id)) >= KeepLast
    BY <1>1, <2>1 DEF WindowOnDisk, Listed
  <2> QED
    BY <2>2, WindowGrows DEF IInv, ManifestSync
<1> QED
  BY <1>1 DEF NewestStaysLocal, NewerListed

(* Saving the manifest, pruning and closing keep the window on disk. *)
LEMMA WindowNext ==
  ASSUME IInv, DataInv, WindowOnDisk, [Next]_vars
  PROVE  WindowOnDisk'
<1> USE DEF disk, r2
<1>1. ASSUME diskManifest' = manifest, finalFile' = finalFile
      PROVE  WindowOnDisk'
  BY <1>1, WindowInMemory DEF WindowOnDisk, NewestStaysLocal, NewerListed
<1>2. ASSUME NEW t \in ArtifactTypes, WriteFinal(t)
      PROVE  WindowOnDisk'
  <2>1. OpenId(t) \notin Listed(diskManifest)
    BY <1>2, ClosingIsOpen DEF IInv, ManifestSync
  <2>2. finalFile' = [finalFile EXCEPT ![OpenId(t)] = counted[t]] /\ diskManifest' = diskManifest
    BY <1>2 DEF WriteFinal
  <2>3. \A id \in Listed(diskManifest) : finalFile'[id] = finalFile[id]
    BY <2>1, <2>2 DEF IInv, TypeOK, Listed
  <2> QED
    BY <2>2, <2>3 DEF WindowOnDisk
<1>3. ASSUME NEW i \in Ids, PruneSegment(i)
      PROVE  WindowOnDisk'
  <2>1. finalFile' = [finalFile EXCEPT ![i] = {}] /\ diskManifest' = diskManifest
    BY <1>3 DEF PruneSegment
  <2>2. \A id \in Ids : id # i => finalFile'[id] = finalFile[id]
    BY <2>1 DEF IInv, TypeOK
  <2>3. Cardinality(NewerListed(diskManifest, i)) >= KeepLast
    BY <1>3, WindowAtPrune
  <2>4. \A id \in Listed(diskManifest) : id # i => finalFile'[id] = finalFile[id]
    BY <2>2 DEF Listed
  <2> QED
    BY <2>1, <2>3, <2>4 DEF WindowOnDisk
<1>4. \/ diskManifest' = manifest /\ finalFile' = finalFile
      \/ \E t \in ArtifactTypes : WriteFinal(t)
      \/ \E i \in Ids : PruneSegment(i)
      \/ UNCHANGED <<diskManifest, finalFile>>
  BY DEF Next, AppendLine, CloseDueToAge, CloseAll, CloseSegment, RejectBeforeWrite,
       RejectAfterWrite, UnlinkOpen, RegisterClosed, StartUploads,
       TryUploadSegment, SkipUpload, RefuseDamaged, UploadSucceeds, UploadMismatches,
       UploadFails, UploadsDone, BackoffElapses, EnforceBudget, PruneDone,
       UploadManifest, DamageFile, CrashRestart, vars
<1> QED
  BY <1>1, <1>2, <1>3, <1>4 DEF WindowOnDisk

(***************************************************************************)
(* Pruning never reaches the KeepLast newest segments of a type, even when *)
(* they are verified out of order or a restart falls between the removal   *)
(* of a file and the save of the manifest (prune_verified_closed_segments).*)
(***************************************************************************)
THEOREM NewestSegmentsStayLocal == Spec => []NewestStaysLocal
<1>1. Init => WindowOnDisk
  BY DEF Init, WindowOnDisk, Listed, EmptyManifest
<1>2. IInv /\ DataInv /\ WindowOnDisk /\ [Next]_vars => WindowOnDisk'
  BY WindowNext
<1>3. IInv /\ DataInv /\ WindowOnDisk => NewestStaysLocal
  BY WindowInMemory
<1> QED
  BY <1>1, <1>2, <1>3, SegmentsInvariant, DataInvariance, PTL DEF Spec

-----------------------------------------------------------------------------
(* The spool implements Archive. *)

(* What is archived is saved, and what is saved is kept. *)
ArchivedIsKept ==
  ArchivedRecords \subseteq SavedRecords /\ SavedRecords \subseteq KeptRecords

LEMMA ArchiveIsKept ==
  ASSUME IInv PROVE ArchivedIsKept
<1>1. ASSUME NEW id \in diskManifest.verified
      PROVE  id \in Listed(diskManifest) /\ remote[id] = diskManifest.contents[id]
  BY DEF IInv, Flags, ManifestSync
<1>2. ASSUME NEW id \in Listed(diskManifest)
      PROVE  id \in Ids /\ diskManifest.contents[id] \subseteq Held(id)
  <2>1. diskManifest.contents[id] = manifest.contents[id] /\ id \in Listed(manifest)
    BY DEF IInv, ManifestSync
  <2> QED
    BY <2>1 DEF IInv, ListedData, Listed, Held
<1> QED
  BY <1>1, <1>2 DEF ArchivedIsKept, ArchivedRecords, SavedRecords, KeptRecords

(* The object of a verified entry stays what it is. *)
LEMMA ArchivedStays ==
  ASSUME IInv, IInv', Progress
  PROVE  \A id \in diskManifest.verified :
           id \in diskManifest'.verified /\ remote'[id] = remote[id]
<1> SUFFICES ASSUME NEW id \in diskManifest.verified
             PROVE  id \in diskManifest'.verified /\ remote'[id] = remote[id]
  OBVIOUS
<1>1. id \in Listed(diskManifest) /\ remote[id] = diskManifest.contents[id]
  BY DEF IInv, Flags, ManifestSync
<1>2. id \in diskManifest'.verified /\ diskManifest'.contents[id] = diskManifest.contents[id]
  BY <1>1 DEF Progress
<1>3. remote'[id] = diskManifest'.contents[id]
  BY <1>2 DEF IInv, Flags, ManifestSync
<1> QED
  BY <1>1, <1>2, <1>3

(* What is saved and what is archived only grow. *)
LEMMA ArchiveGrows ==
  ASSUME IInv, IInv', Progress
  PROVE  /\ SavedRecords \subseteq SavedRecords'
         /\ ArchivedRecords \subseteq ArchivedRecords'
         /\ diskManifest' = diskManifest =>
              SavedRecords' = SavedRecords /\ ArchivedRecords' = ArchivedRecords
<1>1. \A id \in diskManifest.verified :
        id \in diskManifest'.verified /\ remote'[id] = remote[id]
  BY ArchivedStays
<1>2. SavedRecords \subseteq SavedRecords'
  BY DEF Progress, SavedRecords
<1>3. ArchivedRecords \subseteq ArchivedRecords'
  BY <1>1 DEF ArchivedRecords
<1>4. ASSUME diskManifest' = diskManifest
      PROVE  SavedRecords' = SavedRecords /\ ArchivedRecords' = ArchivedRecords
  BY <1>1, <1>4 DEF SavedRecords, ArchivedRecords, Listed
<1> QED
  BY <1>2, <1>3, <1>4

(* The steps that change what the archive is made of. *)
LEMMA ArchiveSteps ==
  ASSUME IInv, [Next]_vars
  PROVE  \/ /\ \E t \in ArtifactTypes, r \in Records : AppendLine(t, r)
            /\ diskManifest' = diskManifest /\ crashes' = crashes
         \/ DataStep /\ diskManifest' = diskManifest /\ crashes' = crashes
         \/ CrashRestart
         \/ UNCHANGED <<openFile, finalFile, remote, appended, crashes>>
<1>1. ASSUME NEW t \in ArtifactTypes, NEW r \in Records, AppendLine(t, r)
      PROVE  diskManifest' = diskManifest /\ crashes' = crashes
  BY <1>1 DEF AppendLine, budget
<1>2. ASSUME DataStep
      PROVE  diskManifest' = diskManifest /\ crashes' = crashes
  BY <1>2 DEF DataStep, WriteFinal, UnlinkOpen, UploadSucceeds, UploadMismatches, UploadFails,
       PruneSegment, disk, budget
<1>3. crashes' = crashes \/ CrashRestart
  BY DEF Next, AppendLine, CloseDueToAge, CloseAll, CloseSegment, RejectBeforeWrite,
       WriteFinal, RejectAfterWrite, UnlinkOpen, RegisterClosed, StartUploads,
       TryUploadSegment, SkipUpload, RefuseDamaged, UploadSucceeds, UploadMismatches,
       UploadFails, UploadsDone, BackoffElapses, EnforceBudget, PruneSegment, PruneDone,
       UploadManifest, DamageFile, vars, budget
<1> QED
  BY <1>1, <1>2, <1>3, OtherSteps

(* Every step of the spool is a step of the archive, or changes nothing of it. *)
LEMMA ArchiveNext ==
  ASSUME IInv, IInv', ArchivedIsKept', DataInv, UncrashedInv, [Next]_vars
  PROVE  A!Next \/ UNCHANGED <<appended, KeptRecords, SavedRecords, ArchivedRecords, crashes>>
<1>1. Progress
  BY ManifestProgress
<1>2. /\ SavedRecords \subseteq SavedRecords'
      /\ ArchivedRecords \subseteq ArchivedRecords'
      /\ diskManifest' = diskManifest =>
           SavedRecords' = SavedRecords /\ ArchivedRecords' = ArchivedRecords
  BY <1>1, ArchiveGrows
<1>3. ArchivedRecords' \subseteq SavedRecords' /\ SavedRecords' \subseteq KeptRecords'
  BY DEF ArchivedIsKept
<1>4. crashes \in Nat
  BY SegmentsAssumption DEF IInv, TypeOK
<1>5. ASSUME NEW t \in ArtifactTypes, NEW r \in Records, AppendLine(t, r),
             diskManifest' = diskManifest, crashes' = crashes
      PROVE  A!Accept(r)
  <2>1. PICK i \in Ids : /\ openFile' = [openFile EXCEPT ![i] = @ \cup {r}]
                         /\ finalFile' = finalFile /\ remote' = remote
    BY <1>5, AppendHolds
  <2>2. appended' = appended \cup {r} /\ r \notin appended
    BY <1>5 DEF AppendLine
  <2>3. Held(i)' = Held(i) \cup {r} /\ \A j \in Ids \ {i} : Held(j)' = Held(j)
    BY <2>1 DEF Held, IInv, TypeOK
  <2>4. KeptRecords' = KeptRecords \cup {r}
    BY <2>3 DEF KeptRecords
  <2> QED
    BY <1>2, <1>5, <2>2, <2>4 DEF A!Accept
<1>6. ASSUME DataStep, diskManifest' = diskManifest, crashes' = crashes
      PROVE  A!Lose \/ UNCHANGED <<appended, KeptRecords, SavedRecords, ArchivedRecords, crashes>>
  <2>1. appended' = appended /\ \A id \in Ids : Held(id)' \subseteq Held(id)
    BY <1>6, HeldShrinks DEF DataInv
  <2>2. KeptRecords' \subseteq KeptRecords
    BY <2>1 DEF KeptRecords
  <2>3. CASE crashes = 0
    <3>1. \A id \in Ids : Held(id) \subseteq Held(id)'
      BY <1>6, <2>3, HeldKept DEF UncrashedInv
    <3>2. KeptRecords' = KeptRecords
      BY <2>2, <3>1 DEF KeptRecords
    <3> QED
      BY <1>2, <1>6, <2>1, <3>2
  <2>4. CASE crashes > 0
    BY <1>2, <1>3, <1>6, <2>1, <2>2, <2>4 DEF A!Lose
  <2> QED
    BY <1>4, <2>3, <2>4
<1>7. ASSUME CrashRestart
      PROVE  A!Crash
  <2>1. /\ UNCHANGED <<openFile, finalFile, remote, diskManifest, appended>>
        /\ crashes' = crashes + 1
    BY <1>7 DEF CrashRestart, disk, r2
  <2>2. \A id \in Ids : Held(id)' = Held(id)
    BY <2>1 DEF Held
  <2>3. KeptRecords' = KeptRecords /\ crashes' > 0
    BY <1>4, <2>1, <2>2 DEF KeptRecords
  <2> QED
    BY <1>2, <2>1, <2>3 DEF A!Crash
<1>8. ASSUME UNCHANGED <<openFile, finalFile, remote, appended, crashes>>
      PROVE  A!Save
  <2>1. \A id \in Ids : Held(id)' = Held(id)
    BY <1>8 DEF Held
  <2>2. KeptRecords' = KeptRecords
    BY <2>1 DEF KeptRecords
  <2> QED
    BY <1>2, <1>3, <1>8, <2>2 DEF A!Save
<1> QED
  BY <1>5, <1>6, <1>7, <1>8, ArchiveSteps DEF A!Next

(***************************************************************************)
(* The spool implements Archive, for any number of crashes, faults of R2   *)
(* and damaged files: what is saved is never lost, what is archived stays  *)
(* in R2, and no record is lost before the first crash (append_line,       *)
(* close_segment, try_upload_segment, prune_verified_closed_segments).     *)
(***************************************************************************)
THEOREM SpoolIsAnArchive == Spec => ArchiveBehaves
<1>1. Init => A!Init
  <2> SUFFICES ASSUME Init PROVE A!Init
    OBVIOUS
  <2>1. \A id \in Ids : Held(id) = {}
    BY DEF Init, Held
  <2>2. KeptRecords = {}
    BY <2>1 DEF KeptRecords
  <2>3. SavedRecords = {} /\ ArchivedRecords = {}
    BY DEF Init, EmptyManifest, SavedRecords, ArchivedRecords, Listed
  <2> QED
    BY <2>2, <2>3 DEF Init, A!Init
<1>2. IInv => ArchivedIsKept
  BY ArchiveIsKept
<1>3. IInv /\ IInv' /\ ArchivedIsKept' /\ DataInv /\ UncrashedInv /\ [Next]_vars
        => [A!Next]_<<appended, KeptRecords, SavedRecords, ArchivedRecords, crashes > 0>>
  BY ArchiveNext
<1> QED
  BY <1>1, <1>2, <1>3, SegmentsInvariant, DataInvariance, UncrashedInvariance, PTL
     DEF Spec, ArchiveBehaves, A!Spec, A!archiveVars
-----------------------------------------------------------------------------
(* Why a closed segment is offered to R2 until it is there: what the       *)
(* liveness of the uploads rests on.                                       *)

(* Each remembered attempt is a fault of its own. *)
AttemptsCounted == \A id \in Ids : attempts[id] <= faults

(* Only a failed upload adds an attempt, and it is a fault. *)
LEMMA AttemptsNext ==
  ASSUME IInv, AttemptsCounted, [Next]_vars
  PROVE  AttemptsCounted'
<1> USE DEF disk, r2, writer, retry, job, budget
<1>1. attempts \in [Ids -> Nat] /\ faults \in Nat
  BY SegmentsAssumption DEF IInv, TypeOK
<1>2. ASSUME NEW i \in Ids, UploadSucceeds(i) \/ UploadMismatches(i)
      PROVE  AttemptsCounted'
  <2>1. attempts' = [attempts EXCEPT ![i] = 0] /\ (faults' = faults \/ faults' = faults + 1)
    BY <1>2 DEF UploadSucceeds, UploadMismatches, UploadReturned
  <2> QED
    BY <1>1, <2>1 DEF AttemptsCounted
<1>3. ASSUME NEW i \in Ids, UploadFails(i)
      PROVE  AttemptsCounted'
  <2>1. attempts' = [attempts EXCEPT ![i] = @ + 1] /\ faults' = faults + 1
    BY <1>3 DEF UploadFails
  <2> QED
    BY <1>1, <2>1 DEF AttemptsCounted
<1>4. ASSUME CrashRestart
      PROVE  AttemptsCounted'
  BY <1>1, <1>4 DEF CrashRestart, AttemptsCounted
<1>5. ASSUME UploadManifest
      PROVE  AttemptsCounted'
  <2>1. attempts' = attempts /\ (faults' = faults \/ faults' = faults + 1)
    BY <1>5 DEF UploadManifest
  <2> QED
    BY <1>1, <2>1 DEF AttemptsCounted
<1>6. \/ \E i \in Ids : UploadSucceeds(i) \/ UploadMismatches(i) \/ UploadFails(i)
      \/ CrashRestart \/ UploadManifest
      \/ UNCHANGED <<attempts, faults>>
  BY DEF Next, AppendLine, CloseDueToAge, CloseAll, CloseSegment, RejectBeforeWrite,
       WriteFinal, RejectAfterWrite, UnlinkOpen, RegisterClosed, StartUploads,
       TryUploadSegment, SkipUpload, RefuseDamaged, UploadsDone, BackoffElapses,
       EnforceBudget, PruneSegment, PruneDone, DamageFile, vars
<1> QED
  BY <1>2, <1>3, <1>4, <1>5, <1>6 DEF AttemptsCounted

(* While R2 has failed fewer times than the retries, nothing is given up. *)
LEMMA RetriesLast ==
  ASSUME IInv, AttemptsCounted, RetryFailedUploads, faults < MaxUploadRetries,
         NEW id \in Ids, SkippedUpload(id)
  PROVE  id \in cooling
<1>1. attempts[id] \in Nat /\ faults \in Nat /\ attempts[id] <= faults
  BY SegmentsAssumption DEF IInv, TypeOK, AttemptsCounted
<1>2. ~(attempts[id] >= MaxUploadRetries)
  BY <1>1, SegmentsAssumption
<1> QED
  BY <1>2 DEF SkippedUpload

(***************************************************************************)
(* As long as R2 has failed fewer times in all than max_upload_retries, no *)
(* segment is given up: try_upload_segment skips one only while its        *)
(* backoff lasts.                                                          *)
(***************************************************************************)
THEOREM RetriesOutlastFaults ==
  Spec => [](RetryFailedUploads /\ faults < MaxUploadRetries
               => \A id \in Ids : SkippedUpload(id) => id \in cooling)
<1> DEFINE Inv == RetryFailedUploads /\ faults < MaxUploadRetries
                    => \A id \in Ids : SkippedUpload(id) => id \in cooling
<1>1. Init => AttemptsCounted
  BY DEF Init, AttemptsCounted
<1>2. IInv /\ AttemptsCounted /\ [Next]_vars => AttemptsCounted'
  BY AttemptsNext
<1>3. IInv /\ AttemptsCounted => Inv
  BY RetriesLast
<1> HIDE DEF Inv
<1>4. Spec => []Inv
  BY <1>1, <1>2, <1>3, SegmentsInvariant, PTL DEF Spec
<1> QED
  BY <1>4 DEF Inv
(* Among some segments there is one that no other precedes. *)
LEMMA FirstSegment ==
  ASSUME NEW position \in [Ids -> Nat], NEW S \in SUBSET Ids, S # {}
  PROVE  \E id \in S : \A j \in S : position[id] <= position[j]
<1> DEFINE Before(id) == {j \in S : position[j] < position[id]}
           B == {Before(id) : id \in S}
<1>1. B \in SUBSET (SUBSET S) /\ B # {} /\ IsFiniteSet(S)
  BY IdsFinite
<1>2. \E T \in B : \A U \in SUBSET T : U # T => U \notin B
  <2> HIDE DEF B
  <2> QED
    BY <1>1, MinimalSet
<1>3. PICK id \in S : \A U \in SUBSET Before(id) : U # Before(id) => U \notin B
  BY <1>2
<1>4. \A j \in S : position[j] \in Nat
  OBVIOUS
<1>5. ASSUME NEW j \in S, position[j] < position[id]
      PROVE  FALSE
  <2>1. Before(j) \in SUBSET Before(id)
    BY <1>4, <1>5
  <2>2. j \in Before(id) /\ j \notin Before(j)
    BY <1>4, <1>5
  <2>3. Before(j) # Before(id)
    <3> HIDE DEF Before
    <3> QED
      BY <2>2
  <2>4. Before(j) \in B
    OBVIOUS
  <2> HIDE DEF Before, B
  <2> QED
    BY <1>3, <2>1, <2>3, <2>4
<1> QED
  BY <1>4, <1>5

(* The pending segment of lowest position among the sound ones gets a slot:*)
(* the ones before it are damaged, and fewer than the slots.               *)
LEMMA SoundSegmentHasSlot ==
  ASSUME IInv, Cardinality(damaged) < MaxConcurrentUploads, Pending \ damaged # {}
  PROVE  Candidates \ damaged # {}
<1> DEFINE S == Pending \ damaged
<1>1. Pending \subseteq Ids /\ damaged \in SUBSET Ids
  BY DEF Pending, Listed, IInv, TypeOK
<1>2. manifest.position \in [Ids -> Nat]
  BY DEF IInv, TypeOK, Manifests
<1>3. S \in SUBSET Ids /\ S # {}
  BY <1>1
<1>4. \E id \in S : \A j \in S : manifest.position[id] <= manifest.position[j]
  <2> HIDE DEF S
  <2> QED
    BY <1>2, <1>3, FirstSegment
<1>5. PICK id \in S : \A j \in S : manifest.position[id] <= manifest.position[j]
  BY <1>4
<1> DEFINE Before == {j \in Pending : manifest.position[j] < manifest.position[id]}
<1>6. Before \in SUBSET damaged
  <2> SUFFICES ASSUME NEW j \in Before, j \notin damaged PROVE FALSE
    OBVIOUS
  <2>1. j \in S /\ j \in Ids /\ id \in Ids
    BY <1>1
  <2>2. manifest.position[j] \in Nat /\ manifest.position[id] \in Nat
    BY <1>2, <2>1
  <2> QED
    BY <1>5, <2>1, <2>2
<1>7. /\ Cardinality(Before) \in Nat /\ Cardinality(damaged) \in Nat
      /\ Cardinality(Before) <= Cardinality(damaged)
  <2>1. Before \in SUBSET Ids
    BY <1>1
  <2> HIDE DEF Before
  <2> QED
    BY <1>1, <1>6, <2>1, IdsFinite
<1>8. Cardinality(Before) < MaxConcurrentUploads
  <2> HIDE DEF Before
  <2> QED
    BY <1>7, SegmentsAssumption
<1>9. id \in Candidates
  BY <1>8 DEF Candidates
<1> QED
  BY <1>9

(***************************************************************************)
(* A pass whose slots outnumber the damaged files takes a sound segment    *)
(* when one is pending: the head of the list that process_background_uploads*)
(* takes is not all damaged.  With as many damaged files as slots it can   *)
(* be, in every pass.                                                      *)
(***************************************************************************)
THEOREM PassesServeSoundSegments ==
  Spec => [][StartUploads /\ Cardinality(damaged) < MaxConcurrentUploads
               /\ Pending \ damaged # {} => batch' \ damaged # {}]_vars
<1> DEFINE Serves == StartUploads /\ Cardinality(damaged) < MaxConcurrentUploads
                       /\ Pending \ damaged # {} => batch' \ damaged # {}
<1>1. IInv => Serves
  BY SoundSegmentHasSlot DEF StartUploads
<1> HIDE DEF Serves
<1>2. Spec => [][Serves]_vars
  BY <1>1, SegmentsInvariant, PTL DEF Spec
<1> QED
  BY <1>2 DEF Serves

(* What a step takes out of the batch was skipped, refused or answered. *)
LEMMA LeavesBatch ==
  ASSUME IInv, [Next]_vars, crashes' = crashes, NEW id \in batch \ batch'
  PROVE  \/ SkippedUpload(id)
         \/ id \in damaged \cup manifest'.uploaded \cup cooling'
<1> USE DEF disk, r2, writer, retry, job, budget
<1>1. ASSUME NEW i \in Ids, SkipUpload(i) \/ RefuseDamaged(i), batch' = batch \ {i}
      PROVE  SkippedUpload(id) \/ id \in damaged
  <2>1. id = i
    BY <1>1
  <2> QED
    BY <1>1, <2>1 DEF SkipUpload, RefuseDamaged
<1>2. ASSUME NEW i \in Ids, UploadSucceeds(i) \/ UploadMismatches(i), batch' = batch \ {i}
      PROVE  id \in manifest'.uploaded
  <2>1. id = i
    BY <1>2
  <2>2. PICK v \in BOOLEAN : UploadReturned(i, v)
    BY <1>2, SegmentsAssumption DEF UploadSucceeds, UploadMismatches
  <2>3. manifest'.uploaded = manifest.uploaded \cup {i}
    BY <2>2, ReturnedFields DEF IInv
  <2> QED
    BY <2>1, <2>3
<1>3. ASSUME NEW i \in Ids, UploadFails(i), batch' = batch \ {i}
      PROVE  id \in cooling'
  <2>1. id = i
    BY <1>3
  <2> QED
    BY <1>3, <2>1 DEF UploadFails
<1>4. ASSUME StartUploads
      PROVE  FALSE
  BY <1>4 DEF StartUploads, IInv, JobState
<1>5. ASSUME CrashRestart
      PROVE  FALSE
  BY <1>5, SegmentsAssumption DEF CrashRestart, IInv, TypeOK
<1>6. \/ \E i \in Ids : /\ \/ SkipUpload(i) \/ RefuseDamaged(i)
                           \/ UploadSucceeds(i) \/ UploadMismatches(i) \/ UploadFails(i)
                        /\ batch' = batch \ {i}
      \/ StartUploads \/ CrashRestart
      \/ batch' = batch
  <2>1. ASSUME \E t \in ArtifactTypes, r \in Records : AppendLine(t, r)
        PROVE  batch' = batch
    BY <2>1 DEF AppendLine
  <2>2. ASSUME NEW t \in ArtifactTypes, CloseSegment(t)
        PROVE  batch' = batch
    BY <2>2 DEF CloseSegment, RejectBeforeWrite, WriteFinal, RejectAfterWrite,
         UnlinkOpen, RegisterClosed
  <2>3. ASSUME NEW i \in Ids, TryUploadSegment(i)
        PROVE  /\ \/ SkipUpload(i) \/ RefuseDamaged(i)
                  \/ UploadSucceeds(i) \/ UploadMismatches(i) \/ UploadFails(i)
               /\ batch' = batch \ {i}
    BY <2>3 DEF TryUploadSegment, SkipUpload, RefuseDamaged, UploadSucceeds,
         UploadMismatches, UploadFails, UploadReturned
  <2>4. ASSUME NEW i \in Ids, BackoffElapses(i) \/ PruneSegment(i) \/ DamageFile(i)
        PROVE  batch' = batch
    BY <2>4 DEF BackoffElapses, PruneSegment, DamageFile
  <2>5. ASSUME \/ CloseDueToAge \/ CloseAll \/ UploadsDone \/ EnforceBudget
               \/ PruneDone \/ UploadManifest \/ UNCHANGED vars
        PROVE  batch' = batch
    BY <2>5 DEF CloseDueToAge, CloseAll, UploadsDone, EnforceBudget, PruneDone,
         UploadManifest, vars
  <2> QED
    BY <2>1, <2>2, <2>3, <2>4, <2>5 DEF Next
<1> QED
  BY <1>1, <1>2, <1>3, <1>4, <1>5, <1>6

(***************************************************************************)
(* A candidate leaves an upload pass uploaded, or damaged, or with a       *)
(* backoff after which the next pass tries it again: try_upload_segment    *)
(* forgets none, as long as R2 has failed fewer times than                 *)
(* max_upload_retries.                                                     *)
(***************************************************************************)
THEOREM PassesForgetNoCandidate ==
  Spec => [][RetryFailedUploads /\ faults < MaxUploadRetries /\ crashes' = crashes
               => \A id \in batch \ batch' :
                    id \in damaged \cup manifest'.uploaded \cup cooling \cup cooling']_vars
<1> DEFINE Settles == RetryFailedUploads /\ faults < MaxUploadRetries /\ crashes' = crashes
                        => \A id \in batch \ batch' :
                             id \in damaged \cup manifest'.uploaded \cup cooling \cup cooling'
<1>1. Init => AttemptsCounted
  BY DEF Init, AttemptsCounted
<1>2. IInv /\ AttemptsCounted /\ [Next]_vars => AttemptsCounted'
  BY AttemptsNext
<1>3. IInv /\ AttemptsCounted /\ [Next]_vars => [Settles]_vars
  <2> SUFFICES ASSUME IInv, AttemptsCounted, [Next]_vars,
                      RetryFailedUploads, faults < MaxUploadRetries, crashes' = crashes,
                      NEW id \in batch \ batch'
               PROVE  id \in damaged \cup manifest'.uploaded \cup cooling \cup cooling'
    OBVIOUS
  <2>1. id \in Ids
    BY DEF IInv, TypeOK
  <2> QED
    BY <2>1, LeavesBatch, RetriesLast
<1> HIDE DEF Settles
<1>4. Spec => [][Settles]_vars
  BY <1>1, <1>2, <1>3, SegmentsInvariant, PTL DEF Spec
<1> QED
  BY <1>4 DEF Settles
(* A pending segment is neither renamed over nor pruned. *)
LEMMA PendingFileStays ==
  ASSUME IInv, [Next]_vars, NEW id \in Pending
  PROVE  finalFile'[id] = finalFile[id]
<1> USE DEF disk, r2, writer, retry, job, budget
<1>0. id \in Ids /\ id \in Listed(manifest) /\ id \notin manifest.uploaded
  BY DEF Pending, Listed
<1>1. ASSUME NEW t \in ArtifactTypes, WriteFinal(t)
      PROVE  finalFile'[id] = finalFile[id]
  <2>1. OpenId(t) \notin Listed(manifest)
    BY <1>1, ClosingIsOpen
  <2>2. finalFile' = [finalFile EXCEPT ![OpenId(t)] = counted[t]]
    BY <1>1 DEF WriteFinal
  <2> QED
    BY <1>0, <2>1, <2>2 DEF IInv, TypeOK
<1>2. ASSUME NEW i \in Ids, PruneSegment(i)
      PROVE  finalFile'[id] = finalFile[id]
  <2>1. i \in manifest.uploaded
    BY <1>2 DEF PruneSegment, Prunable, IInv, Flags
  <2>2. finalFile' = [finalFile EXCEPT ![i] = {}]
    BY <1>2 DEF PruneSegment
  <2> QED
    BY <1>0, <2>1, <2>2 DEF IInv, TypeOK
<1>3. \/ \E t \in ArtifactTypes : WriteFinal(t)
      \/ \E i \in Ids : PruneSegment(i)
      \/ UNCHANGED finalFile
  BY DEF Next, AppendLine, CloseDueToAge, CloseAll, CloseSegment, RejectBeforeWrite,
       RejectAfterWrite, UnlinkOpen, RegisterClosed, StartUploads,
       TryUploadSegment, SkipUpload, RefuseDamaged, UploadSucceeds, UploadMismatches,
       UploadFails, UploadsDone, BackoffElapses, EnforceBudget, PruneDone,
       UploadManifest, DamageFile, CrashRestart, vars
<1> QED
  BY <1>1, <1>2, <1>3

(* A saved segment stays pending in every step that does not upload it. *)
LEMMA StaysPending ==
  ASSUME IInv, [Next]_vars, NEW id \in Pending \cap Listed(diskManifest)
  PROVE  id \in Pending' \cup manifest'.uploaded
<1> USE DEF disk, r2, writer, retry, job, budget
<1>0. /\ id \in Ids /\ id \in Listed(manifest) /\ id \in Listed(diskManifest)
      /\ id \notin manifest.uploaded /\ id \notin manifest.pruned /\ finalFile'[id] # {}
  BY PendingFileStays DEF Pending, Listed
<1>1. ASSUME id \in Listed(manifest'), id \notin manifest'.pruned
      PROVE  id \in Pending' \cup manifest'.uploaded
  BY <1>0, <1>1 DEF Pending
<1>2. ASSUME NEW t \in ArtifactTypes, UnlinkOpen(t)
      PROVE  id \in Listed(manifest') /\ id \notin manifest'.pruned
  BY <1>0, <1>2, UnlinkFields DEF IInv
<1>3. ASSUME NEW i \in Ids, UploadSucceeds(i) \/ UploadMismatches(i)
      PROVE  id \in Listed(manifest') /\ id \notin manifest'.pruned
  BY <1>0, <1>3, ReturnedFields, SegmentsAssumption
     DEF UploadSucceeds, UploadMismatches, IInv
<1>4. ASSUME NEW i \in Ids, RefuseDamaged(i) \/ UploadFails(i)
      PROVE  id \in Listed(manifest') /\ id \notin manifest'.pruned
  BY <1>0, <1>4, FailedFields DEF IInv
<1>5. ASSUME NEW i \in Ids, PruneSegment(i)
      PROVE  id \in Listed(manifest') /\ id \notin manifest'.pruned
  <2>1. i \in manifest.uploaded
    BY <1>5 DEF PruneSegment, Prunable, IInv, Flags
  <2> QED
    BY <1>0, <1>5, <2>1, PruneFields DEF IInv
<1>6. ASSUME CrashRestart
      PROVE  id \in Listed(manifest') /\ id \notin manifest'.pruned
  <2>1. manifest' = diskManifest
    BY <1>6 DEF CrashRestart
  <2> QED
    BY <1>0, <2>1 DEF IInv, ManifestSync
<1>7. \/ \E t \in ArtifactTypes : UnlinkOpen(t)
      \/ \E i \in Ids : UploadSucceeds(i) \/ UploadMismatches(i)
      \/ \E i \in Ids : RefuseDamaged(i) \/ UploadFails(i)
      \/ \E i \in Ids : PruneSegment(i)
      \/ CrashRestart
      \/ UNCHANGED manifest
  BY DEF Next, AppendLine, CloseDueToAge, CloseAll, CloseSegment, RejectBeforeWrite,
       WriteFinal, RejectAfterWrite, RegisterClosed, StartUploads,
       TryUploadSegment, SkipUpload, UploadsDone, BackoffElapses, EnforceBudget,
       PruneDone, UploadManifest, DamageFile, vars
<1>8. manifest' = manifest => id \in Listed(manifest') /\ id \notin manifest'.pruned
  BY <1>0
<1> QED
  BY <1>1, <1>2, <1>3, <1>4, <1>5, <1>6, <1>7, <1>8

(***************************************************************************)
(* A saved segment that waits for its upload goes on waiting until it is   *)
(* uploaded: no later close, prune, failed attempt or restart takes its    *)
(* file or its entry out of reach of process_background_uploads.           *)
(***************************************************************************)
THEOREM PendingUntilUploaded ==
  Spec => [][\A id \in Pending \cap Listed(diskManifest) :
               id \in Pending' \cup manifest'.uploaded]_vars
<1> DEFINE Waits == \A id \in Pending \cap Listed(diskManifest) :
                      id \in Pending' \cup manifest'.uploaded
<1>1. IInv /\ [Next]_vars => [Waits]_vars
  BY StaysPending
<1> HIDE DEF Waits
<1>2. Spec => [][Waits]_vars
  BY <1>1, SegmentsInvariant, PTL DEF Spec
<1> QED
  BY <1>2 DEF Waits
=============================================================================
