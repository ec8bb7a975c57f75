---------------------------- MODULE HsmSimulator ----------------------------
(***************************************************************************)
(* HSMSimulator of python/operations/hsm_simulator.py: the metadata of its *)
(* keys, its audit log, and a simulator that is built from exported state. *)
(*                                                                         *)
(* The keys themselves and what is done with them are left out.            *)
(***************************************************************************)
EXTENDS Integers, Sequences, FiniteSets

CONSTANTS
  KeyIds,
  MaxAudit,       \* bound on the audit log
  MaxImports      \* bound on the simulators built from exported state

VARIABLES
  rotations,      \* _metadata: KeyIds -> rotation_count, or -1 without a key
  audit,          \* _audit: [sequence, action, key]
  auditSequence,  \* _sequence
  exported,       \* the last exported state
  imports

simulatorVars == <<rotations, audit, auditSequence, exported, imports>>

SimulatorInit ==
  /\ rotations = [k \in KeyIds |-> -1] /\ audit = << >> /\ auditSequence = 0
  /\ exported = [rotations |-> rotations, audit |-> audit]
  /\ imports = 0

\* _audit_event
AuditEvent(action, k) ==
  /\ Len(audit) < MaxAudit
  /\ auditSequence' = auditSequence + 1
  /\ audit' = Append(audit, [sequence |-> auditSequence + 1, action |-> action, key |-> k])
  /\ UNCHANGED <<exported, imports>>

CreateKey(k) ==
  /\ rotations[k] = -1
  /\ rotations' = [rotations EXCEPT ![k] = 0]
  /\ AuditEvent("key_create", k)

\* Mutant: the metadata of the new key starts again.
RotateAnew(k) ==
  /\ rotations[k] # -1
  /\ rotations' = [rotations EXCEPT ![k] = 0]
  /\ AuditEvent("key_rotate", k)

RotateKey(k) ==
  /\ rotations[k] # -1
  /\ rotations' = [rotations EXCEPT ![k] = @ + 1]
  /\ AuditEvent("key_rotate", k)

\* verify, of a key for HMAC-SHA256
VerifyWithKey(k) ==
  /\ rotations[k] # -1
  /\ rotations' = rotations
  /\ AuditEvent("verify", k)

\* disable_key, encrypt, decrypt and sign assign to a field of KeyMetadata before they
\* audit.  The class is frozen: they raise and leave metadata and log as they were.
UseKey(k) == rotations[k] # -1 /\ UNCHANGED simulatorVars

ExportState ==
  /\ exported' = [rotations |-> rotations, audit |-> audit]
  /\ UNCHANGED <<rotations, audit, auditSequence, imports>>

\* max over the sequences of the log
HighestAudited(log) ==
  LET numbers == {log[n].sequence : n \in DOMAIN log} \cup {0}
  IN CHOOSE m \in numbers : \A n \in numbers : n <= m

\* import_state, in place of the simulator: what came after the export is lost
ImportState ==
  /\ imports < MaxImports
  /\ imports' = imports + 1
  /\ rotations' = exported.rotations /\ audit' = exported.audit
  /\ auditSequence' = HighestAudited(exported.audit)
  /\ exported' = exported

SimulatorNext ==
  \/ \E k \in KeyIds : CreateKey(k) \/ RotateKey(k) \/ VerifyWithKey(k) \/ UseKey(k)
  \/ ExportState \/ ImportState

SimulatorSpec == SimulatorInit /\ [][SimulatorNext]_simulatorVars

-----------------------------------------------------------------------------
(* Properties                                                              *)

\* The log is numbered 1, 2, 3 ... and accounts for the metadata: a key exists if its
\* creation is on record, once, and was rotated as often as the log says, on the simulator
\* it was made on or on one built from exported state (create_key, rotate_key,
\* import_state).
AuditExplainsKeys ==
  LET entries(action, k) == {n \in DOMAIN audit : audit[n].action = action /\ audit[n].key = k}
  IN /\ auditSequence = Len(audit) /\ \A n \in DOMAIN audit : audit[n].sequence = n
     /\ \A k \in KeyIds :
          IF rotations[k] = -1 THEN \A n \in DOMAIN audit : audit[n].key # k
          ELSE /\ Cardinality(entries("key_create", k)) = 1
               /\ Cardinality(entries("key_rotate", k)) = rotations[k]
=============================================================================
