------------------------- MODULE EvidenceInspection -------------------------
(***************************************************************************)
(* inspect of scripts/operations/inspect_evidence.py: the files, their     *)
(* restored copies and the archive's manifest are compared while edits,    *)
(* backups and restores go on.  Its look at a portfolio snapshot, whose    *)
(* figures are fixed, is left out.                                         *)
(***************************************************************************)
EXTENDS BackupRestore

VARIABLE inspection    \* [at, manifest, todo]; todo: the files still to be read

inspectVars == <<backupVars, inspection>>

InspectInit ==
  BackupInit /\ inspection = [at |-> "idle", manifest |-> << >>, todo |-> {}]

\* The manifest is read from the archive, and the archive closed.  One inspection is
\* followed at a time, begun at any moment: a later one remembers nothing of it.
OpenEvidence ==
  /\ inspection.at = "idle" /\ output.exists
  /\ inspection' = [at |-> "source", manifest |-> output.manifest, todo |-> DOMAIN output.manifest]

\* Mutant: only the sizes are compared.
SameSize(files, f) == f \in DOMAIN files /\ files[f] > 0

\* A missing file raises at once; after a difference the other files are read for nothing,
\* so the inspection counts as failed there.
SameDigest(files, f) == f \in DOMAIN files /\ files[f] = inspection.manifest[f]

ReadSource ==
  LET f == Min(inspection.todo)
  IN /\ inspection.at = "source"
     /\ inspection' = [inspection EXCEPT !.at = IF SameDigest(root, f) THEN "restored" ELSE "failed"]

ReadRestored ==
  LET f == Min(inspection.todo)
  IN /\ inspection.at = "restored"
     /\ inspection' = [inspection EXCEPT
          !.todo = @ \ {f},
          !.at = IF ~SameDigest(destination, f) THEN "failed"
                 ELSE IF inspection.todo = {f} THEN "passed" ELSE "source"]

InspectNext ==
  \/ BackupNext /\ UNCHANGED inspection
  \/ (OpenEvidence \/ ReadSource \/ ReadRestored) /\ UNCHANGED backupVars

InspectSpec == InspectInit /\ [][InspectNext]_inspectVars

-----------------------------------------------------------------------------
(* Properties                                                              *)

\* An inspection that passes has seen the files as they were together at one moment,
\* whatever was edited, archived and restored while it read them one by one: the digests
\* were all taken before it began, and no file had changed since its own (inspect).
InspectedIsOneMoment ==
  inspection.at = "passed" => OneMoment(inspection.manifest)
=============================================================================
