--------------------------- MODULE BackupRestore ----------------------------
(***************************************************************************)
(* scripts/operations/backup_restore.py: the backup of configuration files *)
(* into an archive with a manifest of digests, and the restore of the      *)
(* archive, while people edit the files and either process may stop.  A    *)
(* file is read and replaced in one piece.  Its content is a version, and  *)
(* a digest tells versions apart; an edit never brings an old one back.    *)
(***************************************************************************)
EXTENDS Naturals, FiniteSetsExt, Functions

CONSTANTS
  MaxFile,         \* the files are 1 .. MaxFile, in the order of their paths
  MaxEdits         \* bound on the edits

ASSUME BackupAssumption == MaxFile \in Nat /\ MaxEdits \in Nat

VARIABLES
  root,            \* the files backed up: file -> version
  past,            \* every value root has had
  edits,
  output,          \* the archive under its final name
  job,             \* the backup: [at, files, manifest, members]
  restore,         \* the restore: [at, archive, todo, before]
  destination      \* the files restored: file -> version

backupVars == <<root, past, edits, output, job, restore, destination>>

Files == 1 .. MaxFile
NoArchive == [manifest |-> << >>, members |-> << >>, exists |-> FALSE]
NoJob == [at |-> "idle", files |-> {}, manifest |-> << >>, members |-> << >>]

BackupInit ==
  /\ root = [f \in Files |-> 1]
  /\ past = {root}
  /\ edits = 0
  /\ output = NoArchive
  /\ job = NoJob
  /\ destination = [f \in Files |-> 0]
  /\ restore = [at |-> "idle", archive |-> NoArchive, todo |-> {}, before |-> destination]

\* The files once f has been written with this version.
Write(files, f, version) ==
  [g \in DOMAIN files \cup {f} |-> IF g = f THEN version ELSE files[g]]

\* Somebody saves a file, new or not, or removes one.
Edit ==
  /\ edits < MaxEdits
  /\ edits' = edits + 1
  /\ \E f \in Files : root' \in {Write(root, f, edits + 2), Restrict(root, DOMAIN root \ {f})}
  /\ past' = past \cup {root'}
  /\ UNCHANGED <<output, job, restore, destination>>

-----------------------------------------------------------------------------
(* backup                                                                  *)

Collect ==
  /\ job.at = "idle" /\ DOMAIN root # {}
  /\ job' = [NoJob EXCEPT !.at = "digest", !.files = DOMAIN root]
  /\ UNCHANGED <<root, past, edits, output, restore, destination>>

\* A file that is gone ends the backup; the temporary archive is removed.
Add(read, f) == Write(read, f, root[f])

\* manifest: the size and digest of every file
Digest ==
  LET f == Min(job.files \ DOMAIN job.manifest)
  IN /\ job.at = "digest"
     /\ job' = IF f \notin DOMAIN root THEN NoJob
               ELSE [job EXCEPT !.manifest = Add(@, f),
                       !.at = IF job.files \ DOMAIN job.manifest = {f} THEN "add" ELSE @]
     /\ UNCHANGED <<root, past, edits, output, restore, destination>>

\* archive.add: every file again, into the temporary archive
AddMember ==
  LET f == Min(job.files \ DOMAIN job.members)
  IN /\ job.at = "add"
     /\ job' = IF f \notin DOMAIN root THEN NoJob
               ELSE [job EXCEPT !.members = Add(@, f),
                       !.at = IF job.files \ DOMAIN job.members = {f} THEN "publish" ELSE @]
     /\ UNCHANGED <<root, past, edits, output, restore, destination>>

\* os.replace
Publish ==
  /\ job.at = "publish"
  /\ output' = [manifest |-> job.manifest, members |-> job.members, exists |-> TRUE]
  /\ job' = NoJob
  /\ UNCHANGED <<root, past, edits, restore, destination>>

BackupStops ==
  /\ job # NoJob
  /\ job' = NoJob
  /\ UNCHANGED <<root, past, edits, output, restore, destination>>

-----------------------------------------------------------------------------
(* restore                                                                 *)

\* Mutant: the archive is unpacked without comparing it with the manifest.
AcceptsAnything(archive) == archive.exists

\* Every file of the manifest is in the archive with its digest.
Accepts(archive) ==
  /\ archive.exists
  /\ \A f \in DOMAIN archive.manifest :
       f \in DOMAIN archive.members /\ archive.members[f] = archive.manifest[f]

\* The archive is opened, unpacked into a staging directory and verified there.
Verify ==
  /\ restore.at \in {"idle", "done", "failed"} /\ output.exists
  /\ restore' = [at |-> IF Accepts(output) THEN "writing" ELSE "failed",
                 archive |-> output, todo |-> DOMAIN output.manifest,
                 before |-> destination]
  /\ UNCHANGED <<root, past, edits, output, job, destination>>

\* Each file is copied beside its target and put in its place.
ReplaceFile ==
  LET f == Min(restore.todo)
  IN /\ restore.at = "writing"
     /\ destination' = [destination EXCEPT ![f] = restore.archive.members[f]]
     /\ restore' = [restore EXCEPT !.todo = @ \ {f},
                                   !.at = IF restore.todo = {f} THEN "done" ELSE @]
     /\ UNCHANGED <<root, past, edits, output, job>>

RestoreStops ==
  /\ restore.at = "writing"
  /\ restore' = [restore EXCEPT !.at = "idle"]
  /\ UNCHANGED <<root, past, edits, output, job, destination>>

BackupNext ==
  \/ Edit
  \/ Collect \/ Digest \/ AddMember \/ Publish \/ BackupStops
  \/ Verify \/ ReplaceFile \/ RestoreStops

BackupSpec == BackupInit /\ [][BackupNext]_backupVars

-----------------------------------------------------------------------------
(* Properties                                                              *)

\* The files that a restore of this archive leaves in place of others.
Restored(others, archive) ==
  [f \in DOMAIN others |->
     IF f \in DOMAIN archive.members THEN archive.members[f] ELSE others[f]]

\* The archived files were the content of those files at the same moment.
OneMoment(members) == \E r \in past : IsRestriction(members, r)

\* A restore that went through leaves the files as they were together at one moment, all
\* of them, although they were digested and archived one by one while being edited: all
\* digests are taken before any file is archived, and a restore that rejects its archive
\* has changed nothing (backup, restore).
RestoreIsOneMoment ==
  /\ restore.at = "failed" => destination = restore.before
  /\ restore.at = "done" =>
       /\ destination = Restored(restore.before, restore.archive)
       /\ OneMoment(restore.archive.members)

=============================================================================
