--------------------------- MODULE RecoveryProofs ---------------------------
(***************************************************************************)
(* Proofs about what is kept on disk and read back, for every number of    *)
(* files, events, processes and steps.                                     *)
(***************************************************************************)
EXTENDS DurableStore, EvidenceInspection, FiniteSetsExt, FiniteSetTheorems, TLAPS

-----------------------------------------------------------------------------
(* Sets of numbers                                                         *)

\* Every set of naturals that is not empty has a least element, as < is well-founded.
LEMMA LeastNumber ==
  ASSUME NEW S \in SUBSET Nat, S # {}
  PROVE  \E n \in S : \A m \in S : n <= m
<1> DEFINE R == {pair \in Nat \X Nat : pair[1] < pair[2]}
<1>1. IsWellFoundedOn(R, Nat)
  BY NatLessThanWellFounded, Zenon DEF OpToRel
<1>2. \A m, n \in Nat : m < n => <<m, n>> \in R
  OBVIOUS
<1> HIDE DEF R
<1>3. PICK n \in S : \A m \in S : <<m, n>> \notin R
  BY <1>1, WFMin, Zenon
<1>4. ASSUME NEW m \in S PROVE n <= m
  <2>1. m \in Nat /\ n \in Nat /\ ~(m < n)
    BY <1>2, <1>3, Zenon
  <2> QED BY <2>1
<1> QED BY <1>4

\* Min names the least element.
LEMMA MinIsLeast ==
  ASSUME NEW S \in SUBSET Nat, S # {}
  PROVE  Min(S) \in S /\ \A m \in S : Min(S) <= m
  BY LeastNumber, Zenon DEF Min

\* Max names the greatest element of a set that is bounded.
LEMMA MaxIsGreatest ==
  ASSUME NEW S \in SUBSET Nat, S # {}, NEW bound \in Nat, \A n \in S : n <= bound
  PROVE  Max(S) \in S /\ \A n \in S : n <= Max(S)
<1> DEFINE T == {bound - n : n \in S}
<1>1. T \subseteq Nat /\ T # {}
  <2>1. \A n \in S : bound - n \in Nat
    OBVIOUS
  <2> QED BY <2>1, Zenon
<1>2. PICK t \in T : \A u \in T : t <= u
  <2> HIDE DEF T
  <2> QED BY <1>1, LeastNumber
<1>3. PICK g \in S : t = bound - g
  OBVIOUS
<1>4. \A n \in S : n <= g
  <2>1. \A n \in S : bound - g <= bound - n
    BY <1>2, <1>3, Zenon
  <2> QED BY <2>1
<1> QED BY <1>4, Zenon DEF Max

-----------------------------------------------------------------------------
(* BackupRestore, EvidenceInspection                                       *)
(*                                                                         *)
(* A version is written once, and a later one is larger: a file that is    *)
(* not as its digest says any more never will be again.  When the last     *)
(* digest is taken, every file is as its digest says or stale; a stale     *)
(* file cannot be archived, restored or inspected with that digest.        *)

\* A set of files with their versions, none of them later than latest.
Versions(files, latest) ==
  /\ DOMAIN files \subseteq Files
  /\ files = [f \in DOMAIN files |-> files[f]]
  /\ \A f \in DOMAIN files : files[f] \in 0 .. latest

\* The digest of f is of a version that f no longer has, and never will have again.
Stale(files, manifest, f) == f \in DOMAIN files => files[f] > manifest[f]

Agrees(files, manifest, f) == f \in DOMAIN files /\ files[f] = manifest[f]

\* Up to some files of open, which are stale, the digests are those of one moment.
Moment(files, history, manifest, open) ==
  \E r \in history : \A f \in DOMAIN manifest :
    Agrees(r, manifest, f) \/ (f \in open /\ Stale(files, manifest, f))

\* The files of the manifest that are not in the archive with their digest.
Differing(manifest, members) == {f \in DOMAIN manifest : ~Agrees(members, manifest, f)}

ArchiveInv(archive, files, history, latest) ==
  /\ archive = [manifest |-> archive.manifest, members |-> archive.members,
                exists |-> archive.exists]
  /\ Versions(archive.manifest, latest) /\ Versions(archive.members, latest)
  /\ DOMAIN archive.members = DOMAIN archive.manifest
  /\ archive.exists =>
       /\ DOMAIN archive.manifest # {}
       /\ Moment(files, history, archive.manifest, Differing(archive.manifest, archive.members))

RootInv ==
  /\ edits \in Nat
  /\ Versions(root, edits + 1)
  /\ root \in past
  /\ destination \in [Files -> Nat]

JobInv ==
  /\ job = [at |-> job.at, files |-> job.files, manifest |-> job.manifest,
            members |-> job.members]
  /\ job.at \in {"idle", "digest", "add", "publish"}
  /\ job.files \subseteq Files
  /\ Versions(job.manifest, edits + 1) /\ Versions(job.members, edits + 1)
  /\ DOMAIN job.manifest \subseteq job.files /\ DOMAIN job.members \subseteq job.files
  /\ job.at # "idle" => job.files # {}
  /\ job.at = "digest" =>
       /\ DOMAIN job.manifest # job.files /\ DOMAIN job.members = {}
       /\ \A f \in DOMAIN job.manifest : Agrees(root, job.manifest, f) \/ Stale(root, job.manifest, f)
  /\ job.at \in {"add", "publish"} =>
       /\ DOMAIN job.manifest = job.files
       /\ Moment(root, past, job.manifest, Differing(job.manifest, job.members))
       /\ DOMAIN job.members = job.files <=> job.at = "publish"

\* The files already restored have the archive's versions, the others what they had before.
RestoreInv ==
  /\ restore = [at |-> restore.at, archive |-> restore.archive, todo |-> restore.todo,
                before |-> restore.before]
  /\ restore.at \in {"idle", "writing", "done", "failed"}
  /\ ArchiveInv(restore.archive, root, past, edits + 1)
  /\ restore.before \in [Files -> Nat]
  /\ restore.at = "failed" => destination = restore.before
  /\ restore.at \in {"writing", "done"} =>
       /\ Accepts(restore.archive)
       /\ restore.todo \subseteq DOMAIN restore.archive.manifest
       /\ restore.todo = {} <=> restore.at = "done"
       /\ destination = [f \in Files |->
            IF f \in DOMAIN restore.archive.members \ restore.todo
              THEN restore.archive.members[f] ELSE restore.before[f]]

BackupInv == RootInv /\ JobInv /\ ArchiveInv(output, root, past, edits + 1) /\ RestoreInv

\* What an edit leaves of the files: a file is as it was, gone, or of a version that is new.
Edited(files, later, latest) ==
  \A f \in DOMAIN later : Agrees(files, later, f) \/ later[f] = latest + 1

\* Digests of one moment stay digests of one moment, and stale files stale.
LEMMA MomentStays ==
  ASSUME NEW files, NEW later, NEW history, NEW grown, NEW latest \in Nat, NEW manifest, NEW open,
         history \subseteq grown, Edited(files, later, latest), Versions(manifest, latest),
         Moment(files, history, manifest, open)
  PROVE  Moment(later, grown, manifest, open)
<1>1. PICK r \in history : \A f \in DOMAIN manifest :
        Agrees(r, manifest, f) \/ (f \in open /\ Stale(files, manifest, f))
  BY DEF Moment
<1>2. ASSUME NEW f \in DOMAIN manifest, Stale(files, manifest, f)
      PROVE  Stale(later, manifest, f)
  BY <1>2 DEF Stale, Edited, Agrees, Versions
<1> QED BY <1>1, <1>2 DEF Moment

\* An archive stays what it was at its moment while the system goes on writing files.
LEMMA ArchiveStays ==
  ASSUME NEW archive, NEW files, NEW later, NEW history, NEW grown, NEW latest \in Nat,
         history \subseteq grown, Edited(files, later, latest),
         ArchiveInv(archive, files, history, latest)
  PROVE  ArchiveInv(archive, later, grown, latest + 1)
<1>1. ASSUME NEW g, Versions(g, latest) PROVE Versions(g, latest + 1)
  BY <1>1 DEF Versions
<1> QED BY <1>1, MomentStays DEF ArchiveInv

\* Edit
LEMMA EditStep ==
  ASSUME RootInv, Edit
  PROVE  RootInv' /\ past \subseteq past' /\ Edited(root, root', edits + 1)
<1>1. PICK f \in Files :
        root' \in {Write(root, f, edits + 2), Restrict(root, DOMAIN root \ {f})}
  BY DEF Edit
<1>2. CASE root' = Write(root, f, edits + 2)
  BY <1>2 DEF RootInv, Edit, Versions, Edited, Agrees, Write
<1>3. CASE root' = Restrict(root, DOMAIN root \ {f})
  BY <1>3 DEF RootInv, Edit, Versions, Edited, Agrees, Restrict
<1> QED BY <1>1, <1>2, <1>3

\* Digest and AddMember read the file of smallest path that is still missing.
LEMMA NextFile ==
  ASSUME BackupInv, NEW todo, todo \subseteq Files, todo # {}
  PROVE  Min(todo) \in todo
BY MinIsLeast, BackupAssumption DEF Files

\* A file added to a manifest or an archive.
LEMMA AddedVersions ==
  ASSUME RootInv, NEW read, Versions(read, edits + 1), NEW f \in DOMAIN root
  PROVE  /\ Versions(Add(read, f), edits + 1)
         /\ DOMAIN Add(read, f) = DOMAIN read \cup {f}
         /\ \A g \in DOMAIN Add(read, f) : Add(read, f)[g] = IF g = f THEN root[f] ELSE read[g]
BY DEF RootInv, Versions, Add, Write

\* Digest: with the last digest, the files as they are now are the moment.
LEMMA DigestStep ==
  ASSUME BackupInv, Digest
  PROVE  BackupInv'
<1> DEFINE todo == job.files \ DOMAIN job.manifest
           f == Min(todo)
<1> USE DEF BackupInv
<1>1. f \in todo /\ f \in Files
  BY NextFile DEF Digest, JobInv
<1>2. CASE f \notin DOMAIN root
  BY <1>2 DEF Digest, RootInv, JobInv, RestoreInv, NoJob, Versions
<1>3. CASE f \in DOMAIN root
  <2> DEFINE m == Add(job.manifest, f)
             at == IF todo = {f} THEN "add" ELSE "digest"
  <2>1. /\ job.at = "digest"
        /\ job' = [job EXCEPT !.manifest = m, !.at = at]
        /\ UNCHANGED <<root, past, edits, output, restore, destination>>
    BY <1>3 DEF Digest
  <2>2. /\ Versions(m, edits + 1)
        /\ DOMAIN m = DOMAIN job.manifest \cup {f}
        /\ \A g \in DOMAIN m : m[g] = IF g = f THEN root[f] ELSE job.manifest[g]
    BY <1>3, AddedVersions, Zenon DEF JobInv
  <2> HIDE DEF m, f
  <2>3. \A g \in DOMAIN m : Agrees(root, m, g) \/ Stale(root, m, g)
    BY <1>3, <2>1, <2>2 DEF JobInv, Agrees, Stale
  <2>4. at = "add" => DOMAIN m = job.files
    BY <2>2, <1>1 DEF JobInv
  <2>5. at = "add" => Moment(root, past, m, Differing(m, job.members))
    <3>1. \A g \in DOMAIN m : g \in Differing(m, job.members)
      BY <2>1 DEF JobInv, Differing, Agrees
    <3> QED BY <2>3, <3>1 DEF RootInv, Moment
  <2>6. at = "digest" => DOMAIN m # job.files
    BY <2>2, <1>1
  <2>7. JobInv'
    <3>1. /\ job'.at = at /\ job'.files = job.files /\ job'.manifest = m
          /\ job'.members = job.members
          /\ job' = [at |-> at, files |-> job.files, manifest |-> m, members |-> job.members]
      BY <2>1, Zenon DEF JobInv
    <3> HIDE DEF at
    <3>2. at \in {"add", "digest"}
      BY DEF at
    <3>3. /\ job.files \subseteq Files /\ job.files # {} /\ DOMAIN job.members = {}
          /\ Versions(job.members, edits + 1) /\ DOMAIN m \subseteq job.files
      BY <2>1, <2>2, <1>1 DEF JobInv
    <3> QED BY <2>1, <2>2, <2>3, <2>4, <2>5, <2>6, <3>1, <3>2, <3>3, Zenon DEF JobInv
  <2> QED BY <2>1, <2>7 DEF RootInv, RestoreInv
<1> QED BY <1>2, <1>3

\* AddMember: a stale file is archived with another version than that of its digest.
LEMMA AddMemberStep ==
  ASSUME BackupInv, AddMember
  PROVE  BackupInv'
<1> DEFINE todo == job.files \ DOMAIN job.members
           f == Min(todo)
<1> USE DEF BackupInv
<1>1. f \in todo /\ f \in Files
  BY NextFile DEF AddMember, JobInv
<1>2. CASE f \notin DOMAIN root
  BY <1>2 DEF AddMember, RootInv, JobInv, RestoreInv, NoJob, Versions
<1>3. CASE f \in DOMAIN root
  <2> DEFINE m == Add(job.members, f)
             at == IF todo = {f} THEN "publish" ELSE "add"
  <2>1. /\ job.at = "add"
        /\ job' = [job EXCEPT !.members = m, !.at = at]
        /\ UNCHANGED <<root, past, edits, output, restore, destination>>
    BY <1>3 DEF AddMember
  <2>2. /\ Versions(m, edits + 1)
        /\ DOMAIN m = DOMAIN job.members \cup {f}
        /\ \A g \in DOMAIN m : m[g] = IF g = f THEN root[f] ELSE job.members[g]
    BY <1>3, AddedVersions, Zenon DEF JobInv
  <2> HIDE DEF m, f
  <2>3. Moment(root, past, job.manifest, Differing(job.manifest, m))
    <3>1. PICK r \in past : \A g \in DOMAIN job.manifest :
            \/ Agrees(r, job.manifest, g)
            \/ g \in Differing(job.manifest, job.members) /\ Stale(root, job.manifest, g)
      BY <2>1 DEF JobInv, Moment
    <3>2. ASSUME NEW g \in DOMAIN job.manifest, g \in Differing(job.manifest, job.members),
                 Stale(root, job.manifest, g)
          PROVE  g \in Differing(job.manifest, m)
      BY <3>2, <1>3, <2>2 DEF Differing, Agrees, Stale, JobInv, RootInv, Versions
    <3> QED BY <3>1, <3>2 DEF Moment
  <2>4. DOMAIN m = job.files <=> at = "publish"
    BY <2>2, <1>1 DEF JobInv
  <2>5. JobInv'
    <3>1. /\ job'.at = at /\ job'.files = job.files /\ job'.manifest = job.manifest
          /\ job'.members = m
          /\ job' = [at |-> at, files |-> job.files, manifest |-> job.manifest, members |-> m]
      BY <2>1, Zenon DEF JobInv
    <3> HIDE DEF at
    <3>2. at \in {"add", "publish"}
      BY DEF at
    <3>3. /\ job.files \subseteq Files /\ job.files # {} /\ DOMAIN job.manifest = job.files
          /\ Versions(job.manifest, edits + 1) /\ DOMAIN m \subseteq job.files
      BY <2>1, <2>2, <1>1 DEF JobInv
    <3> QED BY <2>1, <2>2, <2>3, <2>4, <3>1, <3>2, <3>3, Zenon DEF JobInv
  <2> QED BY <2>1, <2>5 DEF RootInv, RestoreInv
<1> QED BY <1>2, <1>3

\* Verify: an archive that is accepted is one that restore writes out in full.
LEMMA VerifyStep ==
  ASSUME BackupInv, Verify
  PROVE  BackupInv'
<1> USE DEF BackupInv
<1>1. /\ restore' = [at |-> IF Accepts(output) THEN "writing" ELSE "failed",
                     archive |-> output, todo |-> DOMAIN output.manifest,
                     before |-> destination]
      /\ UNCHANGED <<root, past, edits, output, job, destination>>
      /\ output.exists
  BY DEF Verify
<1>2. destination = [f \in Files |->
            IF f \in DOMAIN output.members \ DOMAIN output.manifest
              THEN output.members[f] ELSE destination[f]]
  BY DEF ArchiveInv, RootInv
<1>3. DOMAIN output.manifest # {}
  BY <1>1 DEF ArchiveInv
<1>4. RestoreInv'
  BY <1>1, <1>2, <1>3 DEF RestoreInv, RootInv, Accepts
<1> QED BY <1>1, <1>4 DEF RootInv, JobInv

\* ReplaceFile
LEMMA ReplaceFileStep ==
  ASSUME BackupInv, ReplaceFile
  PROVE  BackupInv'
<1> DEFINE f == Min(restore.todo)
<1> USE DEF BackupInv
<1>1. f \in restore.todo /\ f \in DOMAIN restore.archive.members /\ f \in Files
  BY NextFile DEF ReplaceFile, RestoreInv, ArchiveInv, Versions
<1> HIDE DEF f
<1>2. /\ restore.at = "writing"
      /\ destination' = [destination EXCEPT ![f] = restore.archive.members[f]]
      /\ restore' = [restore EXCEPT !.todo = @ \ {f},
                                    !.at = IF restore.todo = {f} THEN "done" ELSE @]
      /\ UNCHANGED <<root, past, edits, output, job>>
  BY DEF ReplaceFile, f
<1>3. restore.archive.members[f] \in Nat
  BY <1>1 DEF RestoreInv, ArchiveInv, RootInv, Versions
<1>4. destination' = [g \in Files |->
            IF g \in DOMAIN restore.archive.members \ (restore.todo \ {f})
              THEN restore.archive.members[g] ELSE restore.before[g]]
  BY <1>1, <1>2, Zenon DEF RestoreInv
<1>5. RestoreInv'
  <2> DEFINE at == IF restore.todo = {f} THEN "done" ELSE "writing"
  <2>1. restore' = [at |-> at, archive |-> restore.archive, todo |-> restore.todo \ {f},
                    before |-> restore.before]
    BY <1>2, Zenon DEF RestoreInv
  <2>2. at \in {"writing", "done"} /\ (restore.todo \ {f} = {} <=> at = "done")
    BY <1>1
  <2> HIDE DEF at
  <2>3. /\ restore'.at = at /\ restore'.archive = restore.archive
        /\ restore'.todo = restore.todo \ {f} /\ restore'.before = restore.before
    BY <2>1
  <2>4. ArchiveInv(restore.archive, root', past', edits' + 1) /\ Accepts(restore.archive)
    BY <1>2 DEF RestoreInv
  <2> QED BY <1>2, <1>4, <2>1, <2>2, <2>3, <2>4, Zenon DEF RestoreInv
<1> QED BY <1>2, <1>3, <1>5, Zenon DEF RootInv, JobInv

\* Before the first backup there is no archive and no job.
LEMMA BackupInvInitial == BackupInit => BackupInv
BY BackupAssumption
   DEF BackupInit, BackupInv, RootInv, JobInv, RestoreInv, ArchiveInv, Versions, NoArchive, NoJob,
       Files

\* Every step of an editor, a backup and a restore preserves the invariant.
LEMMA BackupInvPreserved == BackupInv /\ [BackupNext]_backupVars => BackupInv'
<1> SUFFICES ASSUME BackupInv, [BackupNext]_backupVars PROVE BackupInv'
  OBVIOUS
<1> USE DEF BackupInv
<1>1. CASE Edit
  <2>1. /\ RootInv' /\ past \subseteq past' /\ Edited(root, root', edits + 1)
        /\ edits \in Nat /\ edits' = edits + 1
        /\ UNCHANGED <<output, job, restore, destination>>
    BY <1>1, EditStep, Zenon DEF Edit, RootInv
  <2>2. ArchiveInv(output, root', past', edits' + 1)
    BY <2>1, ArchiveStays
  <2>3. ArchiveInv(restore.archive, root', past', edits' + 1)
    BY <2>1, ArchiveStays DEF RestoreInv
  <2>4. JobInv'
    <3>1. \A g : Versions(g, edits + 1) => Versions(g, edits' + 1)
      BY <2>1 DEF Versions
    <3>2. ASSUME job.at = "digest", NEW f \in DOMAIN job.manifest
          PROVE  Agrees(root', job.manifest, f) \/ Stale(root', job.manifest, f)
      BY <2>1, <3>2 DEF JobInv, Agrees, Stale, Edited, Versions
    <3>3. ASSUME job.at \in {"add", "publish"}
          PROVE  Moment(root', past', job.manifest, Differing(job.manifest, job.members))
      BY <2>1, <3>3, MomentStays DEF JobInv
    <3> QED BY <2>1, <3>1, <3>2, <3>3 DEF JobInv
  <2> QED BY <2>1, <2>2, <2>3, <2>4 DEF RestoreInv
<1>2. CASE Collect
  <2>1. /\ job' = [at |-> "digest", files |-> DOMAIN root, manifest |-> << >>, members |-> << >>]
        /\ DOMAIN root # {} /\ UNCHANGED <<root, past, edits, output, restore, destination>>
    BY <1>2, Zenon DEF Collect, NoJob
  <2>2. DOMAIN << >> = {} /\ Versions(<< >>, edits + 1)
    BY DEF Versions
  <2> QED BY <2>1, <2>2 DEF RootInv, JobInv, RestoreInv, Versions
<1>3. CASE Digest
  BY <1>3, DigestStep
<1>4. CASE AddMember
  BY <1>4, AddMemberStep
<1>5. CASE Publish
  <2>1. ArchiveInv(output', root, past, edits + 1)
    BY <1>5 DEF Publish, JobInv, ArchiveInv
  <2> QED BY <1>5, <2>1 DEF Publish, RootInv, JobInv, RestoreInv, NoJob, Versions
<1>6. CASE BackupStops
  BY <1>6 DEF BackupStops, RootInv, JobInv, RestoreInv, NoJob, Versions
<1>7. CASE Verify
  BY <1>7, VerifyStep
<1>8. CASE ReplaceFile
  BY <1>8, ReplaceFileStep
<1>9. CASE RestoreStops
  BY <1>9 DEF RestoreStops, RootInv, JobInv, RestoreInv
<1>10. CASE UNCHANGED backupVars
  BY <1>10 DEF backupVars, RootInv, JobInv, RestoreInv, Accepts
<1> QED BY <1>1, <1>2, <1>3, <1>4, <1>5, <1>6, <1>7, <1>8, <1>9, <1>10 DEF BackupNext

\* backup and restore: what a restore leaves was the content of the files at one moment.
THEOREM RestoreRestoresOneMoment == BackupSpec => []RestoreIsOneMoment
<1>1. BackupInv => RestoreIsOneMoment
  <2> SUFFICES ASSUME BackupInv PROVE RestoreIsOneMoment
    OBVIOUS
  <2>1. restore.at = "failed" => destination = restore.before
    BY DEF BackupInv, RestoreInv
  <2>2. CASE restore.at = "done"
    <3>1. destination = Restored(restore.before, restore.archive)
      BY <2>2 DEF BackupInv, RestoreInv, Restored
    <3>2. PICK r \in past : \A f \in DOMAIN restore.archive.members :
            Agrees(r, restore.archive.manifest, f)
      BY <2>2 DEF BackupInv, RestoreInv, ArchiveInv, Accepts, Moment, Differing, Agrees
    <3>3. OneMoment(restore.archive.members)
      BY <2>2, <3>2, SMTT(30)
      DEF BackupInv, RestoreInv, ArchiveInv, Accepts, Agrees, OneMoment, IsRestriction
    <3> QED BY <2>1, <3>1, <3>3 DEF RestoreIsOneMoment
  <2> QED BY <2>1, <2>2 DEF RestoreIsOneMoment
<1> QED BY <1>1, BackupInvInitial, BackupInvPreserved, PTL DEF BackupSpec

\* The digests not yet compared with their file may be stale, the others are of one moment.
InspectionInv ==
  /\ inspection = [at |-> inspection.at, manifest |-> inspection.manifest,
                   todo |-> inspection.todo]
  /\ inspection.at \in {"idle", "source", "restored", "failed", "passed"}
  /\ Versions(inspection.manifest, edits + 1)
  /\ inspection.todo \subseteq DOMAIN inspection.manifest
  /\ inspection.at \in {"source", "restored"} => inspection.todo # {}
  /\ inspection.at \in {"source", "restored", "passed"} =>
       Moment(root, past, inspection.manifest,
              CASE inspection.at = "source" -> inspection.todo
                [] inspection.at = "restored" -> inspection.todo \ {Min(inspection.todo)}
                [] inspection.at = "passed" -> {})

\* Every step of an inspection, and every write beside it, keeps InspectionInv.
LEMMA InspectionPreserved ==
  BackupInv /\ InspectionInv /\ [InspectNext]_inspectVars => InspectionInv'
<1> SUFFICES ASSUME BackupInv, InspectionInv, [InspectNext]_inspectVars PROVE InspectionInv'
  OBVIOUS
<1> DEFINE open == CASE inspection.at = "source" -> inspection.todo
                     [] inspection.at = "restored" -> inspection.todo \ {Min(inspection.todo)}
                     [] inspection.at = "passed" -> {}
           f == Min(inspection.todo)
<1>1. CASE Edit /\ UNCHANGED inspection
  <2>1. /\ past \subseteq past' /\ Edited(root, root', edits + 1)
        /\ edits \in Nat /\ edits' = edits + 1
    BY <1>1, EditStep DEF Edit, RootInv, BackupInv
  <2>2. Versions(inspection.manifest, edits + 1)
    BY DEF InspectionInv
  <2>3. Versions(inspection.manifest, edits' + 1)
    BY <2>1, <2>2 DEF Versions
  <2> HIDE DEF open
  <2>4. Moment(root, past, inspection.manifest, open) =>
        Moment(root', past', inspection.manifest, open)
    BY <2>1, <2>2, MomentStays
  <2> QED BY <1>1, <2>3, <2>4 DEF InspectionInv, open
<1>2. CASE BackupNext /\ UNCHANGED <<root, past, edits, inspection>>
  BY <1>2 DEF InspectionInv
<1>3. CASE UNCHANGED inspectVars
  BY <1>3 DEF InspectionInv, inspectVars, backupVars
<1>4. CASE OpenEvidence /\ UNCHANGED backupVars
  <2>1. /\ Moment(root, past, output.manifest, Differing(output.manifest, output.members))
        /\ DOMAIN output.manifest # {} /\ Versions(output.manifest, edits + 1)
    BY <1>4 DEF OpenEvidence, BackupInv, ArchiveInv
  <2>2. Moment(root, past, output.manifest, DOMAIN output.manifest)
    BY <2>1 DEF Moment, Differing
  <2> QED BY <1>4, <2>1, <2>2 DEF OpenEvidence, InspectionInv, backupVars
<1>5. CASE ReadSource /\ UNCHANGED backupVars
  <2>1. inspection.at = "source" /\ inspection.todo # {} /\ f \in inspection.todo
    BY <1>5, NextFile DEF ReadSource, InspectionInv, Versions
  <2>2. CASE SameDigest(root, f)
    <3>1. inspection' = [inspection EXCEPT !.at = "restored"]
      BY <1>5, <2>2 DEF ReadSource
    <3>2. ~Stale(root, inspection.manifest, f)
      BY <2>1, <2>2 DEF SameDigest, Stale, BackupInv, RootInv, Versions
    <3>3. Moment(root, past, inspection.manifest, inspection.todo \ {f})
      BY <2>1, <3>2 DEF InspectionInv, Moment
    <3> QED BY <1>5, <2>1, <3>1, <3>3 DEF InspectionInv, backupVars
  <2>3. CASE ~SameDigest(root, f)
    <3>1. inspection' = [inspection EXCEPT !.at = "failed"]
      BY <1>5, <2>3 DEF ReadSource
    <3> QED BY <1>5, <3>1 DEF InspectionInv, backupVars
  <2> QED BY <2>2, <2>3
<1>6. CASE ReadRestored /\ UNCHANGED backupVars
  <2>1. inspection.at = "restored" /\ inspection.todo # {} /\ f \in inspection.todo
    BY <1>6, NextFile DEF ReadRestored, InspectionInv, Versions
  <2>2. Moment(root, past, inspection.manifest, inspection.todo \ {f})
    BY <2>1 DEF InspectionInv
  <2>3. PICK at \in {"failed", "passed", "source"} :
          /\ inspection' = [inspection EXCEPT !.todo = @ \ {f}, !.at = at]
          /\ at = "passed" => inspection.todo = {f}
          /\ at = "source" => inspection.todo # {f}
    BY <1>6, Zenon DEF ReadRestored
  <2> HIDE DEF f
  <2>4. inspection' = [at |-> at, manifest |-> inspection.manifest,
                       todo |-> inspection.todo \ {f}]
    BY <2>3, Zenon DEF InspectionInv
  <2>5. at = "passed" => inspection.todo \ {f} = {}
    BY <2>3
  <2>6. at = "source" => inspection.todo \ {f} # {}
    BY <2>1, <2>3
  <2> QED BY <1>6, <2>1, <2>2, <2>4, <2>5, <2>6 DEF InspectionInv, backupVars
<1> QED BY <1>1, <1>2, <1>3, <1>4, <1>5, <1>6
        DEF InspectNext, BackupNext, Collect, Digest, AddMember, Publish, BackupStops, Verify,
            ReplaceFile, RestoreStops

\* inspect: an inspection that passes has seen the files as they were at one moment.
THEOREM InspectionSeesOneMoment == InspectSpec => []InspectedIsOneMoment
<1>1. InspectInit => BackupInv /\ InspectionInv
  BY BackupInvInitial DEF InspectInit, InspectionInv, Versions
<1>2. BackupInv /\ InspectionInv /\ [InspectNext]_inspectVars => (BackupInv /\ InspectionInv)'
  BY BackupInvPreserved, InspectionPreserved DEF InspectNext, inspectVars
<1>3. InspectionInv => InspectedIsOneMoment
  BY DEF InspectionInv, InspectedIsOneMoment, Moment, Agrees, OneMoment, IsRestriction
<1> QED BY <1>1, <1>2, <1>3, PTL DEF InspectSpec

-----------------------------------------------------------------------------
(* DurableStore                                                            *)
(*                                                                         *)
(* While nothing is damaged, the sequences are 1 .. lastRowid, and a       *)
(* sequence number in somebody's hands, with the events that go with it,   *)
(* stays right whatever is appended: only the rows after it are new.       *)

Rows == [sequence : Nat, payload : SUBSET EventIds, intact : BOOLEAN]
Processes ==
  [at : {"idle", "appended", "labelled", "verifying", "verified", "failed"},
   args : SUBSET (EventIds \cup Nat), payload : SUBSET EventIds, sequence : Nat]

UpTo(table, n) == {table[s] : s \in 1 .. n}

\* v has come to a sequence that was given, and holds the events up to it.
HoldsAll(v, table, latest, dam) ==
  v.sequence \in 0 .. latest /\ (dam = 0 => v.payload = UpTo(table, v.sequence))

\* A label is not older than what it is put on, and verify_recovery has seen a prefix.
ProcessInv(v, table, latest, dam) ==
  /\ v \in Processes
  /\ HoldsAll(v, table, latest, dam)
  /\ v.at = "labelled" =>
       \E label \in 0 .. latest : v.args = {label} /\ (dam = 0 => v.sequence <= label)
  /\ v.at = "verifying" => v.args \subseteq 1 .. latest

StoredInv ==
  /\ lastRowid \in Nat /\ damage \in Nat
  /\ rows \in [DOMAIN rows -> EventIds] /\ DOMAIN rows \subseteq 1 .. lastRowid
  /\ damage = 0 => DOMAIN rows = 1 .. lastRowid /\ IsInjective(rows)
  /\ snapshot \in Rows /\ checkpoint \in Rows
  /\ snapshot.sequence \in 0 .. lastRowid
  /\ damage = 0 => snapshot.payload \subseteq UpTo(rows, snapshot.sequence) /\ snapshot.intact
  /\ HoldsAll(checkpoint, rows, lastRowid, damage)
  /\ client \in [Clients -> Processes]
  /\ \A c \in Clients : ProcessInv(client[c], rows, lastRowid, damage)

\* The rows up to a sequence that was given are not touched by an append.
LEMMA AppendKeeps ==
  ASSUME NEW table, NEW longer, NEW latest \in Nat,
         \A s \in 1 .. latest : longer[s] = table[s]
  PROVE  /\ \A n \in 0 .. latest : UpTo(longer, n) = UpTo(table, n)
         /\ \A v, dam : ProcessInv(v, table, latest, dam) => ProcessInv(v, longer, latest + 1, dam)
         /\ \A v, dam : HoldsAll(v, table, latest, dam) => HoldsAll(v, longer, latest + 1, dam)
<1>1. ASSUME NEW n \in 0 .. latest PROVE UpTo(longer, n) = UpTo(table, n)
  BY DEF UpTo
<1>2. ASSUME NEW v, NEW dam, HoldsAll(v, table, latest, dam)
      PROVE  HoldsAll(v, longer, latest + 1, dam)
  BY <1>1, <1>2 DEF HoldsAll
<1>3. ASSUME NEW v, NEW dam, ProcessInv(v, table, latest, dam)
      PROVE  ProcessInv(v, longer, latest + 1, dam)
  BY <1>2, <1>3 DEF ProcessInv
<1> QED BY <1>1, <1>2, <1>3

\* COALESCE(MAX(sequence), 0) is a sequence that was given, the last one if none is lost.
LEMMA LastSequenceGiven ==
  ASSUME StoredInv
  PROVE  /\ LastSequence(rows) \in 0 .. lastRowid
         /\ \A s \in DOMAIN rows : s <= LastSequence(rows)
         /\ damage = 0 => LastSequence(rows) = lastRowid
<1> DEFINE S == DOMAIN rows \cup {0}
<1>1. S \in SUBSET Nat /\ S # {} /\ \A s \in S : s <= lastRowid
  BY DEF StoredInv
<1>2. Max(S) \in S /\ \A s \in S : s <= Max(S)
  <2> HIDE DEF S
  <2> QED BY <1>1, MaxIsGreatest DEF StoredInv
<1>3. LastSequence(rows) = Max(S)
  BY DEF LastSequence
<1> HIDE DEF S
<1>4. damage = 0 => S = 0 .. lastRowid
  BY DEF S, StoredInv
<1>5. DOMAIN rows \subseteq S /\ lastRowid \in Nat
  BY DEF S, StoredInv
<1>6. damage = 0 => Max(S) = lastRowid
  BY <1>1, <1>2, <1>4, <1>5
<1>7. Max(S) \in 0 .. lastRowid
  <2>1. Max(S) \in Nat /\ Max(S) <= lastRowid
    BY <1>1, <1>2, Zenon
  <2> QED BY <2>1, <1>5
<1>8. \A s \in DOMAIN rows : s <= Max(S)
  BY <1>2, <1>5
<1> QED BY <1>3, <1>6, <1>7, <1>8

\* A step that changes nothing but what one process holds.
LEMMA ProcessStep ==
  ASSUME StoredInv, NEW c \in Clients, NEW v, ProcessInv(v, rows, lastRowid, damage),
         client' = [client EXCEPT ![c] = v],
         UNCHANGED <<rows, lastRowid, snapshot, checkpoint, damage>>
  PROVE  StoredInv'
<1>1. \A d \in Clients : client'[d] = IF d = c THEN v ELSE client[d]
  BY DEF StoredInv
<1>2. \A d \in Clients : ProcessInv(client'[d], rows, lastRowid, damage)
  BY <1>1 DEF StoredInv
<1>3. client' \in [Clients -> Processes]
  BY DEF StoredInv, ProcessInv
<1> QED BY <1>2, <1>3 DEF StoredInv

\* The INSERT of append: a sequence that was never given, an event that is not stored.
LEMMA AppendCommitsStep ==
  ASSUME StoredInv, NEW c \in Clients, NEW id \in EventIds, AppendCommits(c, id)
  PROVE  StoredInv'
<1> DEFINE v == [client[c] EXCEPT !.at = "appended", !.args = {id}]
<1>1. /\ lastRowid' = lastRowid + 1
      /\ snapshot' = snapshot /\ checkpoint' = checkpoint /\ damage' = damage
  BY DEF AppendCommits
<1>2. /\ rows' = [s \in DOMAIN rows \cup {lastRowid + 1} |->
                    IF s = lastRowid + 1 THEN id ELSE rows[s]]
      /\ id \notin Stored
  BY DEF AppendCommits
<1>3. client' = [client EXCEPT ![c] = v]
  <2>1. client \in [Clients -> Processes]
    BY DEF StoredInv
  <2>2. client' = [client EXCEPT ![c].at = "appended", ![c].args = {id}]
    BY DEF AppendCommits
  <2> QED BY <2>1, <2>2, Zenon
<1>4. lastRowid \in Nat /\ damage \in Nat
  BY DEF StoredInv
<1>5. ASSUME damage = 0
      PROVE  DOMAIN rows' = 1 .. lastRowid' /\ IsInjective(rows')
  BY <1>1, <1>2, <1>4, <1>5 DEF StoredInv, IsInjective, Stored, Range
<1>6. DOMAIN rows' \subseteq 1 .. lastRowid'
  BY <1>1, <1>2, <1>4 DEF StoredInv
<1>7. ASSUME damage = 0
      PROVE  \A s \in 1 .. lastRowid : rows'[s] = rows[s]
  BY <1>2, <1>4, <1>7 DEF StoredInv
<1>8. ProcessInv(v, rows, lastRowid, damage)
  BY Zenon DEF ProcessInv, HoldsAll, StoredInv, Processes
<1> HIDE DEF v
<1>9. \A d \in Clients : client'[d] = IF d = c THEN v ELSE client[d]
  BY <1>3 DEF StoredInv
<1>10. client' \in [Clients -> Processes]
  BY <1>3, <1>8 DEF StoredInv, ProcessInv
<1>11. rows' \in [DOMAIN rows' -> EventIds]
  BY <1>2 DEF StoredInv
<1>12. CASE damage = 0
  <2>1. /\ \A n \in 0 .. lastRowid : UpTo(rows', n) = UpTo(rows, n)
        /\ \A w, dam : ProcessInv(w, rows, lastRowid, dam) => ProcessInv(w, rows', lastRowid + 1, dam)
        /\ \A w, dam : HoldsAll(w, rows, lastRowid, dam) => HoldsAll(w, rows', lastRowid + 1, dam)
    BY <1>4, <1>7, <1>12, AppendKeeps
  <2>2. \A d \in Clients : ProcessInv(client'[d], rows', lastRowid', damage')
    BY <1>1, <1>8, <1>9, <2>1 DEF StoredInv
  <2>3. /\ snapshot.sequence \in 0 .. lastRowid /\ snapshot \in Rows /\ checkpoint \in Rows
        /\ snapshot.payload \subseteq UpTo(rows, snapshot.sequence) /\ snapshot.intact
        /\ HoldsAll(checkpoint, rows, lastRowid, damage)
    BY <1>12 DEF StoredInv
  <2>4. /\ snapshot.sequence \in 0 .. lastRowid'
        /\ snapshot.payload \subseteq UpTo(rows', snapshot.sequence)
        /\ HoldsAll(checkpoint, rows', lastRowid', damage)
    BY <1>1, <1>4, <2>1, <2>3, SMTT(30)
  <2> QED BY <1>1, <1>4, <1>5, <1>6, <1>10, <1>12, <1>11, <2>2, <2>3, <2>4 DEF StoredInv
<1>13. CASE damage # 0
  <2>1. \A d \in Clients : ProcessInv(client'[d], rows', lastRowid', damage')
    <3>1. ASSUME NEW w, ProcessInv(w, rows, lastRowid, damage)
          PROVE  ProcessInv(w, rows', lastRowid', damage')
      BY <1>1, <1>4, <1>13, <3>1 DEF ProcessInv, HoldsAll
    <3> QED BY <1>8, <1>9, <3>1, SMTT(30) DEF StoredInv
  <2>2. /\ snapshot.sequence \in 0 .. lastRowid /\ snapshot \in Rows /\ checkpoint \in Rows
        /\ HoldsAll(checkpoint, rows, lastRowid, damage)
    BY DEF StoredInv
  <2>3. snapshot.sequence \in 0 .. lastRowid' /\ HoldsAll(checkpoint, rows', lastRowid', damage)
    BY <1>1, <1>4, <1>13, <2>2 DEF HoldsAll
  <2> QED BY <1>1, <1>4, <1>6, <1>10, <1>13, <1>11, <2>1, <2>2, <2>3, SMTT(30) DEF StoredInv
<1> QED BY <1>12, <1>13

\* events(sequence + 1): the process holds the events up to the last.
LEMMA ReadEventsStep ==
  ASSUME StoredInv, NEW c \in Clients, ReadEvents(c)
  PROVE  StoredInv'
<1> DEFINE latest == Max({client[c].sequence, LastSequence(rows)})
           v == [client[c] EXCEPT !.payload = @ \cup After(client[c].sequence), !.sequence = latest]
<1>1. ProcessInv(client[c], rows, lastRowid, damage) /\ lastRowid \in Nat
  BY DEF StoredInv
<1>2. client' = [client EXCEPT ![c] = v]
  <2>1. client \in [Clients -> Processes]
    BY DEF StoredInv
  <2>2. client' = [client EXCEPT ![c].payload = @ \cup After(client[c].sequence),
                                 ![c].sequence = Max({@, LastSequence(rows)})]
    BY DEF ReadEvents
  <2> QED BY <2>1, <2>2, Zenon
<1>3. client[c].sequence \in 0 .. lastRowid /\ LastSequence(rows) \in 0 .. lastRowid
      /\ (damage = 0 => LastSequence(rows) = lastRowid)
  BY <1>1, LastSequenceGiven DEF ProcessInv, HoldsAll
<1>4. latest \in 0 .. lastRowid /\ (damage = 0 => latest = lastRowid)
  <2> DEFINE S == {client[c].sequence, LastSequence(rows)}
  <2>1. S \in SUBSET Nat /\ S # {} /\ \A n \in S : n <= lastRowid
    BY <1>3
  <2>2. Max(S) \in S /\ \A n \in S : n <= Max(S)
    <3> HIDE DEF S
    <3> QED BY <1>1, <2>1, MaxIsGreatest, Zenon
  <2> QED BY <1>1, <1>3, <2>2
<1>5. ASSUME damage = 0
      PROVE  client[c].payload \cup After(client[c].sequence) = UpTo(rows, lastRowid)
  BY <1>1, <1>3, <1>5 DEF ProcessInv, HoldsAll, StoredInv, UpTo, After
<1>6. ProcessInv(v, rows, lastRowid, damage)
  <2>1. client[c].at = "idle"
    BY DEF ReadEvents, At
  <2> HIDE DEF latest
  <2>2. v \in Processes
    <3>1. client[c] \in Processes /\ After(client[c].sequence) \subseteq EventIds
      BY DEF StoredInv, After
    <3>2. client[c].payload \cup After(client[c].sequence) \in SUBSET EventIds /\ latest \in Nat
      BY <1>1, <1>4, <3>1 DEF Processes
    <3> QED BY <3>1, <3>2, Zenon DEF Processes
  <2> QED BY <1>4, <1>5, <2>1, <2>2 DEF ProcessInv, HoldsAll
<1> HIDE DEF v
<1> QED BY <1>2, <1>6, ProcessStep, Zenon DEF ReadEvents

\* The other steps of a process: what it does, not what it holds; or it starts again.
LEMMA ProcessSteps ==
  ASSUME StoredInv, NEW c \in Clients,
         \/ AppendReturns(c) \/ LabelSnapshot(c) \/ VerifyEvents(c) \/ VerifySnapshots(c)
         \/ VerifyReturns(c) \/ LoadCheckpoint(c) \/ Restart(c)
  PROVE  StoredInv'
<1>1. /\ client \in [Clients -> Processes] /\ client[c] \in Processes
      /\ ProcessInv(client[c], rows, lastRowid, damage)
      /\ lastRowid \in Nat /\ rows \in [DOMAIN rows -> EventIds]
      /\ DOMAIN rows \subseteq 1 .. lastRowid
  BY DEF StoredInv
<1>2. CASE client' = [client EXCEPT ![c].at = "idle", ![c].args = {}]
           /\ UNCHANGED <<rows, lastRowid, snapshot, checkpoint, damage>>
  <2> DEFINE v == [client[c] EXCEPT !.at = "idle", !.args = {}]
  <2>1. client' = [client EXCEPT ![c] = v]
    BY <1>1, <1>2, Zenon
  <2>2. ProcessInv(v, rows, lastRowid, damage)
    BY <1>1, Zenon DEF ProcessInv, HoldsAll, Processes
  <2> QED BY <1>2, <2>1, <2>2, ProcessStep, Zenon
<1>3. CASE AppendReturns(c)
  BY <1>2, <1>3 DEF AppendReturns
<1>4. CASE LabelSnapshot(c)
  <2> DEFINE v == [client[c] EXCEPT !.at = "labelled", !.args = {Label(rows)}]
  <2>1. client' = [client EXCEPT ![c] = v]
    BY <1>1, <1>4, Zenon DEF LabelSnapshot
  <2>2. Label(rows) \in 0 .. lastRowid /\ (damage = 0 => Label(rows) = lastRowid)
    BY LastSequenceGiven DEF Label
  <2>3. /\ v \in Processes /\ v.sequence = client[c].sequence /\ v.payload = client[c].payload
        /\ v.at = "labelled" /\ v.args = {Label(rows)}
    <3>1. {Label(rows)} \in SUBSET (EventIds \cup Nat)
      BY <1>1, <2>2
    <3> QED BY <1>1, <3>1, Zenon DEF Processes
  <2> HIDE DEF v
  <2>4. ProcessInv(v, rows, lastRowid, damage)
    BY <1>1, <2>2, <2>3 DEF ProcessInv, HoldsAll
  <2> QED BY <1>4, <2>1, <2>4, ProcessStep, Zenon DEF LabelSnapshot
<1>5. CASE VerifyEvents(c)
  <2> DEFINE v == [client[c] EXCEPT !.at = "verifying", !.args = DOMAIN rows]
  <2>1. client' = [client EXCEPT ![c] = v]
    BY <1>1, <1>5, Zenon DEF VerifyEvents
  <2>2. DOMAIN rows \in SUBSET (EventIds \cup Nat)
    BY <1>1
  <2>3. ProcessInv(v, rows, lastRowid, damage)
    BY <1>1, <2>2, Zenon DEF ProcessInv, HoldsAll, Processes
  <2> QED BY <1>5, <2>1, <2>3, ProcessStep, Zenon DEF VerifyEvents
<1>6. CASE VerifySnapshots(c)
  <2>1. PICK at \in {"verified", "failed"} : client' = [client EXCEPT ![c].at = at]
    BY <1>6, Zenon DEF VerifySnapshots
  <2> DEFINE v == [client[c] EXCEPT !.at = at]
  <2>2. client' = [client EXCEPT ![c] = v]
    BY <1>1, <2>1
  <2>3. ProcessInv(v, rows, lastRowid, damage)
    BY <1>1 DEF ProcessInv, HoldsAll, Processes
  <2> QED BY <1>6, <2>2, <2>3, ProcessStep, Zenon DEF VerifySnapshots
<1>7. CASE VerifyReturns(c)
  BY <1>2, <1>7 DEF VerifyReturns
<1>8. CASE LoadCheckpoint(c)
  <2> DEFINE v == [client[c] EXCEPT !.payload = checkpoint.payload,
                                    !.sequence = checkpoint.sequence]
  <2>1. client' = [client EXCEPT ![c] = v]
    BY <1>1, <1>8, Zenon DEF LoadCheckpoint
  <2>2. HoldsAll(checkpoint, rows, lastRowid, damage) /\ checkpoint \in Rows
    BY DEF StoredInv
  <2>3. client[c].at = "idle"
    BY <1>8 DEF LoadCheckpoint, Fresh
  <2>4. ProcessInv(v, rows, lastRowid, damage)
    BY <1>1, <2>2, <2>3, Zenon DEF ProcessInv, HoldsAll, Processes, Rows
  <2> QED BY <1>8, <2>1, <2>4, ProcessStep, Zenon DEF LoadCheckpoint
<1>9. CASE Restart(c)
  <2>1. ProcessInv(Fresh, rows, lastRowid, damage)
    BY <1>1 DEF ProcessInv, HoldsAll, Processes, Fresh, UpTo
  <2> QED BY <1>9, <2>1, ProcessStep, Zenon DEF Restart
<1> QED BY <1>3, <1>4, <1>5, <1>6, <1>7, <1>8, <1>9

\* write_snapshot, the second statement
LEMMA WriteSnapshotStep ==
  ASSUME StoredInv, NEW c \in Clients, WriteSnapshot(c)
  PROVE  StoredInv'
<1> DEFINE v == [client[c] EXCEPT !.at = "idle", !.args = {}]
<1>1. /\ client \in [Clients -> Processes] /\ client[c] \in Processes
      /\ ProcessInv(client[c], rows, lastRowid, damage)
      /\ lastRowid \in Nat /\ damage \in Nat
  BY DEF StoredInv
<1>2. client' = [client EXCEPT ![c] = v] /\ UNCHANGED <<rows, lastRowid, checkpoint, damage>>
  BY <1>1, Zenon DEF WriteSnapshot
<1>3. ProcessInv(v, rows, lastRowid, damage)
  BY <1>1, Zenon DEF ProcessInv, HoldsAll, Processes
<1>4. PICK label \in 0 .. lastRowid :
        client[c].args = {label} /\ (damage = 0 => client[c].sequence <= label)
  BY <1>1 DEF WriteSnapshot, At, ProcessInv
<1>5. Max(client[c].args) = label
  BY <1>4 DEF Max
<1>6. snapshot' = [sequence |-> label, payload |-> client[c].payload, intact |-> TRUE]
  BY <1>5 DEF WriteSnapshot, Row
<1>7. ASSUME damage = 0 PROVE client[c].payload \subseteq UpTo(rows, label)
  BY <1>1, <1>4, <1>7 DEF ProcessInv, HoldsAll, UpTo
<1>8. snapshot' \in Rows
  BY <1>1, <1>6 DEF Rows, Processes
<1> HIDE DEF v
<1>9. /\ \A d \in Clients : ProcessInv(client'[d], rows, lastRowid, damage)
      /\ client' \in [Clients -> Processes]
  BY <1>1, <1>2, <1>3 DEF StoredInv, ProcessInv
<1> QED BY <1>1, <1>2, <1>4, <1>6, <1>7, <1>8, <1>9 DEF StoredInv

\* save
LEMMA SaveCheckpointStep ==
  ASSUME StoredInv, NEW c \in Clients, SaveCheckpoint(c)
  PROVE  StoredInv'
<1>1. client[c] \in Processes /\ HoldsAll(client[c], rows, lastRowid, damage)
  BY DEF StoredInv, ProcessInv
<1>2. /\ checkpoint' = [sequence |-> client[c].sequence, payload |-> client[c].payload,
                        intact |-> TRUE]
      /\ UNCHANGED <<rows, lastRowid, snapshot, client, damage>>
  BY DEF SaveCheckpoint, Row
<1>3. checkpoint' \in Rows /\ HoldsAll(checkpoint', rows, lastRowid, damage)
  BY <1>1, <1>2 DEF Rows, HoldsAll, Processes
<1> QED BY <1>2, <1>3 DEF StoredInv

\* A damaged file: nothing is claimed of the payloads any more.
LEMMA DamageStep ==
  ASSUME StoredInv, Damage
  PROVE  StoredInv'
<1>1. damage' = damage + 1 /\ damage \in Nat /\ damage' # 0 /\ UNCHANGED <<lastRowid, client>>
  BY DEF StoredInv, Damage
<1> DEFINE Fewer == /\ rows' \in [DOMAIN rows' -> EventIds] /\ DOMAIN rows' \subseteq DOMAIN rows
                    /\ snapshot' \in Rows /\ snapshot'.sequence = snapshot.sequence
                    /\ checkpoint' \in Rows /\ checkpoint'.sequence = checkpoint.sequence
<1>2. Fewer
  <2>1. rows \in [DOMAIN rows -> EventIds] /\ snapshot \in Rows /\ checkpoint \in Rows
    BY DEF StoredInv
  <2>2. ASSUME NEW s \in DOMAIN rows, rows' = Restrict(rows, DOMAIN rows \ {s}),
               UNCHANGED <<snapshot, checkpoint>>
        PROVE  Fewer
    BY <2>1, <2>2 DEF Restrict
  <2>3. CASE snapshot' = [snapshot EXCEPT !.intact = FALSE] /\ UNCHANGED <<rows, checkpoint>>
    BY <2>1, <2>3, Zenon DEF Rows
  <2>4. CASE checkpoint' = [checkpoint EXCEPT !.intact = FALSE] /\ UNCHANGED <<rows, snapshot>>
    BY <2>1, <2>4, Zenon DEF Rows
  <2> QED BY <2>2, <2>3, <2>4, Zenon DEF Damage
<1>3. HoldsAll(checkpoint', rows', lastRowid, damage')
  BY <1>1, <1>2 DEF StoredInv, HoldsAll
<1>4. ASSUME NEW c \in Clients PROVE ProcessInv(client[c], rows', lastRowid, damage')
  <2>1. ProcessInv(client[c], rows, lastRowid, damage)
    BY DEF StoredInv
  <2> QED BY <1>1, <2>1 DEF ProcessInv, HoldsAll
<1> QED BY <1>1, <1>2, <1>3, <1>4 DEF StoredInv

\* A new database is empty and no process holds anything.
LEMMA StoredInvInitial == StoreInit => StoredInv
<1> SUFFICES ASSUME StoreInit PROVE StoredInv
  OBVIOUS
<1>1. /\ Fresh \in Processes /\ Fresh.at = "idle" /\ Fresh.sequence = 0 /\ Fresh.payload = {}
      /\ NoRow \in Rows /\ NoRow.sequence = 0 /\ NoRow.payload = {} /\ NoRow.intact
  BY DEF Fresh, Processes, NoRow, Row, Rows
<1>2. UpTo(rows, 0) = {}
  BY DEF UpTo
<1>3. ProcessInv(Fresh, rows, lastRowid, damage) /\ HoldsAll(NoRow, rows, lastRowid, damage)
  BY <1>1, <1>2 DEF StoreInit, ProcessInv, HoldsAll
<1> QED BY <1>1, <1>2, <1>3 DEF StoreInit, StoredInv, IsInjective

\* Every step of a process on the store, crashes included, keeps StoredInv.
LEMMA StoredInvPreserved == StoredInv /\ [StoreNext]_storeVars => StoredInv'
<1> SUFFICES ASSUME StoredInv, [StoreNext]_storeVars PROVE StoredInv'
  OBVIOUS
<1>1. CASE UNCHANGED storeVars
  BY <1>1 DEF storeVars, StoredInv
<1>2. CASE Damage
  BY <1>2, DamageStep
<1>3. ASSUME NEW c \in Clients,
             \/ \E id \in EventIds : AppendCommits(c, id)
             \/ AppendReturns(c) \/ ReadEvents(c) \/ LabelSnapshot(c) \/ WriteSnapshot(c)
             \/ VerifyEvents(c) \/ VerifySnapshots(c) \/ VerifyReturns(c)
             \/ SaveCheckpoint(c) \/ LoadCheckpoint(c) \/ Restart(c)
      PROVE  StoredInv'
  BY <1>3, AppendCommitsStep, ReadEventsStep, ProcessSteps, WriteSnapshotStep, SaveCheckpointStep
<1> QED BY <1>1, <1>2, <1>3 DEF StoreNext

\* StoredInv holds throughout.
LEMMA StoredInvAlways == StoreSpec => []StoredInv
  BY StoredInvInitial, StoredInvPreserved, PTL DEF StoreSpec

\* What is stored, split at a sequence: the events up to it and those after it.
LEMMA SplitAtSequence ==
  ASSUME StoredInv, damage = 0, NEW n \in 0 .. lastRowid
  PROVE  UpTo(rows, n) \cup After(n) = Stored /\ UpTo(rows, n) \cap After(n) = {}
<1>1. lastRowid \in Nat /\ DOMAIN rows = 1 .. lastRowid /\ IsInjective(rows)
  BY DEF StoredInv
<1>2. UpTo(rows, n) \cup After(n) = Stored
  BY <1>1 DEF UpTo, After, Stored, Range
<1>3. ASSUME NEW s \in 1 .. n, NEW t \in DOMAIN rows, t > n, rows[s] = rows[t] PROVE FALSE
  BY <1>1, <1>3 DEF IsInjective
<1> QED BY <1>2, <1>3 DEF UpTo, After

\* append, events, save, load: a process and the checkpoint hold exactly the events up to
\* their sequence, for any number of processes, events and recoveries.
THEOREM CheckpointsRecoverEverythingAlways == StoreSpec => []CheckpointsRecoverEverything
<1>1. StoredInv => CheckpointsRecoverEverything
  <2> SUFFICES ASSUME StoredInv, damage = 0,
                      NEW v \in {client[c] : c \in Clients} \cup {checkpoint}
               PROVE  /\ v.payload \cup After(v.sequence) = Stored
                      /\ v.payload \cap After(v.sequence) = {}
    BY DEF CheckpointsRecoverEverything
  <2>1. HoldsAll(v, rows, lastRowid, damage)
    BY DEF StoredInv, ProcessInv
  <2> QED BY <2>1, SplitAtSequence DEF HoldsAll
<1> QED BY <1>1, StoredInvAlways, PTL

\* write_snapshot: recovery from a snapshot applies no event twice.
THEOREM SnapshotNeverReplaysTwiceAlways == StoreSpec => []SnapshotNeverReplaysTwice
<1>1. StoredInv => SnapshotNeverReplaysTwice
  <2> SUFFICES ASSUME StoredInv, damage = 0
               PROVE  snapshot.payload \cap After(snapshot.sequence) = {}
    BY DEF SnapshotNeverReplaysTwice
  <2>1. snapshot.sequence \in 0 .. lastRowid
        /\ snapshot.payload \subseteq UpTo(rows, snapshot.sequence)
    BY DEF StoredInv
  <2> QED BY <2>1, SplitAtSequence
<1> QED BY <1>1, StoredInvAlways, PTL

\* verify_recovery answers rightly: the rows and the snapshot of any moment between its two
\* queries fit together, unless a row was lost or appended there.
THEOREM VerifyAnswersRightlyAlways == StoreSpec => VerifyAnswersRightly
<1> DEFINE Right(c) ==
      CASE client'[c].at = "verified" ->
             client[c].args \subseteq DOMAIN rows =>
               1 .. snapshot.sequence \subseteq DOMAIN rows /\ snapshot.intact
        [] client'[c].at = "failed" -> damage > 0 \/ client[c].args # DOMAIN rows
        [] OTHER -> TRUE
<1>1. ASSUME StoredInv, StoreNext, NEW c \in Clients,
             At(c, "verifying"), client'[c] # client[c]
      PROVE  VerifySnapshots(c) \/ client'[c].at = "idle"
  <2>1. client \in [Clients -> Processes]
    BY <1>1 DEF StoredInv
  <2>2. CASE Damage
    BY <1>1, <2>2 DEF Damage
  <2>3. ASSUME NEW d \in Clients, d # c,
               \/ \E id \in EventIds : AppendCommits(d, id)
               \/ AppendReturns(d) \/ ReadEvents(d) \/ LabelSnapshot(d) \/ WriteSnapshot(d)
               \/ VerifyEvents(d) \/ VerifySnapshots(d) \/ VerifyReturns(d)
               \/ SaveCheckpoint(d) \/ LoadCheckpoint(d) \/ Restart(d)
        PROVE  client'[c] = client[c]
    BY <2>1, <2>3, SMTT(30)
       DEF AppendCommits, AppendReturns, ReadEvents, LabelSnapshot, WriteSnapshot, VerifyEvents,
           VerifySnapshots, VerifyReturns, SaveCheckpoint, LoadCheckpoint, Restart
  <2>4. CASE VerifySnapshots(c) \/ Restart(c)
    BY <2>1, <2>4 DEF Restart, Fresh
  <2>5. ~(\/ \E id \in EventIds : AppendCommits(c, id)
          \/ AppendReturns(c) \/ ReadEvents(c) \/ LabelSnapshot(c) \/ WriteSnapshot(c)
          \/ VerifyEvents(c) \/ VerifyReturns(c) \/ SaveCheckpoint(c) \/ LoadCheckpoint(c))
    BY <1>1, SMTT(30) DEF At, AppendCommits, AppendReturns, ReadEvents, LabelSnapshot, WriteSnapshot,
                VerifyEvents, VerifyReturns, SaveCheckpoint, LoadCheckpoint, Fresh
  <2>6. CASE Damage \/ \E d \in Clients \ {c} :
               \/ \E id \in EventIds : AppendCommits(d, id)
               \/ AppendReturns(d) \/ ReadEvents(d) \/ LabelSnapshot(d) \/ WriteSnapshot(d)
               \/ VerifyEvents(d) \/ VerifySnapshots(d) \/ VerifyReturns(d)
               \/ SaveCheckpoint(d) \/ LoadCheckpoint(d) \/ Restart(d)
    BY <1>1, <2>2, <2>3, <2>6
  <2> QED BY <1>1, <2>4, <2>5, <2>6 DEF StoreNext
<1>2. ASSUME StoredInv, NEW c \in Clients, VerifySnapshots(c)
      PROVE  Right(c)
  <2>1. /\ client'[c].at = IF Verifies(client[c].args, snapshot) THEN "verified" ELSE "failed"
        /\ lastRowid \in Nat /\ damage \in Nat /\ snapshot.sequence \in 0 .. lastRowid
    BY <1>2 DEF VerifySnapshots, StoredInv, Processes
  <2>2. CASE Verifies(client[c].args, snapshot)
    <3>1. /\ client[c].args = 1 .. Cardinality(client[c].args)
          /\ snapshot.sequence <= Cardinality(client[c].args) /\ snapshot.intact
      BY <2>2 DEF Verifies
    <3>2. client[c].args \subseteq 1 .. lastRowid
      BY <1>2 DEF StoredInv, ProcessInv, VerifySnapshots, At
    <3>3. Cardinality(client[c].args) \in Nat
      <4>1. IsFiniteSet(1 .. lastRowid)
        BY <2>1, FS_Interval
      <4>2. IsFiniteSet(client[c].args)
        BY <3>2, <4>1, FS_Subset, Zenon
      <4> QED BY <4>2, FS_CardinalityType
    <3>4. 1 .. snapshot.sequence \subseteq client[c].args
      <4> DEFINE n == Cardinality(client[c].args)
      <4> HIDE DEF n
      <4>1. snapshot.sequence <= n /\ n \in Nat /\ client[c].args = 1 .. n
        BY <3>1, <3>3 DEF n
      <4> QED BY <2>1, <4>1
    <3> QED BY <2>1, <2>2, <3>1, <3>4
  <2>3. CASE ~Verifies(client[c].args, snapshot)
    <3>1. ASSUME damage = 0, client[c].args = DOMAIN rows PROVE FALSE
      <4>1. client[c].args = 1 .. lastRowid /\ snapshot.intact
        BY <1>2, <3>1 DEF StoredInv
      <4>2. Cardinality(1 .. lastRowid) = lastRowid
        BY <2>1, FS_Interval
      <4> QED BY <2>1, <2>3, <4>1, <4>2 DEF Verifies
    <3> QED BY <2>1, <2>3, <3>1
  <2> QED BY <2>2, <2>3
<1>3. StoredInv /\ [StoreNext]_storeVars =>
        [\A c \in Clients : At(c, "verifying") /\ client'[c] # client[c] => Right(c)]_storeVars
  BY <1>1, <1>2
<1> QED BY <1>3, StoredInvAlways, PTL DEF StoreSpec, VerifyAnswersRightly

=============================================================================
