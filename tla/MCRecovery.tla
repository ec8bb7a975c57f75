----------------------------- MODULE MCRecovery -----------------------------
(***************************************************************************)
(* What is kept on disk and read back: the event and checkpoint stores,    *)
(* the backup, the journal file and the key custodians; and the calls that *)
(* deploy the nodes.                                                       *)
(* They share no state, so a behaviour exercises one of them: drill says   *)
(* which, and the rest stays in its initial state.                         *)
(***************************************************************************)
EXTENDS DurableStore, EvidenceInspection, JournalFile, KeyCustody, HsmSimulator, Deployment,
        TLC

VARIABLE drill

recoveryVars ==
  <<storeVars, inspectVars, journalVars, custodyVars, simulatorVars, deployVars, drill>>

RecoveryInit ==
  /\ StoreInit /\ InspectInit /\ JournalInit /\ CustodyInit /\ SimulatorInit /\ DeployInit
  /\ drill \in {"store", "backup", "journal", "custody", "hsm", "deploy"}

RecoveryNext ==
  /\ \/ /\ drill = "store" /\ StoreNext
        /\ UNCHANGED <<inspectVars, journalVars, custodyVars, simulatorVars, deployVars>>
     \/ /\ drill = "backup" /\ InspectNext
        /\ UNCHANGED <<storeVars, journalVars, custodyVars, simulatorVars, deployVars>>
     \/ /\ drill = "journal" /\ JournalNext
        /\ UNCHANGED <<storeVars, inspectVars, custodyVars, simulatorVars, deployVars>>
     \/ /\ drill = "custody" /\ CustodyNext
        /\ UNCHANGED <<storeVars, inspectVars, journalVars, simulatorVars, deployVars>>
     \/ /\ drill = "hsm" /\ SimulatorNext
        /\ UNCHANGED <<storeVars, inspectVars, journalVars, custodyVars, deployVars>>
     \/ /\ drill = "deploy" /\ DeployNext
        /\ UNCHANGED <<storeVars, inspectVars, journalVars, custodyVars, simulatorVars>>
  /\ UNCHANGED drill

RecoverySpec == RecoveryInit /\ [][RecoveryNext]_recoveryVars

Symmetry == Permutations(Clients) \cup Permutations(EventIds)
=============================================================================
