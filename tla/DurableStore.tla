---------------------------- MODULE DurableStore ----------------------------
(***************************************************************************)
(* The SQLite event store (python/operations/durable_store.py) and the     *)
(* checkpoint store (interfaces/recovery/checkpoint_store.py), used by     *)
(* several processes, each with a connection of its own.  A statement, or  *)
(* a "with connection" block, is one transaction; what a method does in    *)
(* two statements another process may come between.  A payload is the set  *)
(* of events its writer had read.  A process may stop at any point.        *)
(***************************************************************************)
EXTENDS Naturals, FiniteSetsExt, Functions

CONSTANTS
  Clients,         \* the processes
  EventIds,        \* event_id values
  MaxDamage        \* bound on the damage done to the files

ASSUME StoreAssumption == MaxDamage \in Nat

VARIABLES
  rows,            \* table events: sequence -> event_id
  lastRowid,       \* sqlite_sequence: the largest sequence ever given
  snapshot,        \* table snapshots, of one name: [sequence, payload, intact]
  checkpoint,      \* table checkpoints, of one name: the same
  client,          \* Clients -> what the process is doing and has read
  damage           \* how often a file was damaged

storeVars == <<rows, lastRowid, snapshot, checkpoint, client, damage>>

Stored == Range(rows)
Row(sequence, payload) == [sequence |-> sequence, payload |-> payload, intact |-> TRUE]

\* No row: recovery starts at the first event.
NoRow == Row(0, {})

\* A process: what it is doing, with the sequences or the event it does it with,
\* and its state: the events it has applied and the sequence it has come to.
Fresh == [at |-> "idle", args |-> {}, payload |-> {}, sequence |-> 0]

StoreInit ==
  /\ rows = << >>
  /\ lastRowid = 0
  /\ snapshot = NoRow
  /\ checkpoint = NoRow
  /\ client = [c \in Clients |-> Fresh]
  /\ damage = 0

After(sequence) == {rows[s] : s \in {t \in DOMAIN rows : t > sequence}}

At(c, place) == client[c].at = place

\* COALESCE(MAX(sequence), 0)
LastSequence(table) == Max(DOMAIN table \cup {0})

-----------------------------------------------------------------------------
(* Events                                                                  *)

\* The INSERT of append.  A second event with the same id is refused and leaves
\* no trace, not even a sequence number.
AppendCommits(c, id) ==
  /\ At(c, "idle")
  /\ id \notin Stored
  /\ rows' = [s \in DOMAIN rows \cup {lastRowid + 1} |-> IF s = lastRowid + 1 THEN id ELSE rows[s]]
  /\ lastRowid' = lastRowid + 1
  /\ client' = [client EXCEPT ![c].at = "appended", ![c].args = {id}]
  /\ UNCHANGED <<snapshot, checkpoint, damage>>

\* The SELECT of append, and its return: the sequence, or an error if the row is gone.
AppendReturns(c) ==
  /\ At(c, "appended")
  /\ client' = [client EXCEPT ![c].at = "idle", ![c].args = {}]
  /\ UNCHANGED <<rows, lastRowid, snapshot, checkpoint, damage>>

\* The process applies events(sequence + 1): in its stride or to recover.
ReadEvents(c) ==
  /\ At(c, "idle")
  /\ client' = [client EXCEPT ![c].payload = @ \cup After(client[c].sequence),
                              ![c].sequence = Max({@, LastSequence(rows)})]
  /\ UNCHANGED <<rows, lastRowid, snapshot, checkpoint, damage>>

-----------------------------------------------------------------------------
(* Snapshots, whose sequence the store chooses                             *)

\* Mutant: a snapshot is labelled with the sequence before the last.
LabelTooLow(table) == Max({LastSequence(table), 1}) - 1

Label(table) == LastSequence(table)

\* write_snapshot reads last_sequence() before its transaction begins.
LabelSnapshot(c) ==
  /\ At(c, "idle")
  /\ client' = [client EXCEPT ![c].at = "labelled", ![c].args = {Label(rows)}]
  /\ UNCHANGED <<rows, lastRowid, snapshot, checkpoint, damage>>

WriteSnapshot(c) ==
  /\ At(c, "labelled")
  /\ snapshot' = Row(Max(client[c].args), client[c].payload)
  /\ client' = [client EXCEPT ![c].at = "idle", ![c].args = {}]
  /\ UNCHANGED <<rows, lastRowid, checkpoint, damage>>

-----------------------------------------------------------------------------
(* verify_recovery: the sequences in one query, the snapshots in another   *)

VerifyEvents(c) ==
  /\ At(c, "idle")
  /\ client' = [client EXCEPT ![c].at = "verifying", ![c].args = DOMAIN rows]
  /\ UNCHANGED <<rows, lastRowid, snapshot, checkpoint, damage>>

\* Mutant: the last sequence stands for the number of events.
AcceptsGaps(seen, snap) == snap.sequence <= Max(seen \cup {0}) /\ snap.intact

Verifies(seen, snap) ==
  /\ seen = 1 .. Cardinality(seen)
  /\ snap.sequence <= Cardinality(seen) /\ snap.intact

VerifySnapshots(c) ==
  /\ At(c, "verifying")
  /\ client' = [client EXCEPT
       ![c].at = IF Verifies(client[c].args, snapshot) THEN "verified" ELSE "failed"]
  /\ UNCHANGED <<rows, lastRowid, snapshot, checkpoint, damage>>

VerifyReturns(c) ==
  /\ client[c].at \in {"verified", "failed"}
  /\ client' = [client EXCEPT ![c].at = "idle", ![c].args = {}]
  /\ UNCHANGED <<rows, lastRowid, snapshot, checkpoint, damage>>

-----------------------------------------------------------------------------
(* Checkpoints, whose sequence the caller gives                            *)

\* Mutant: the sequence of the moment, as write_snapshot takes it.
SaveLabelled(c) ==
  /\ At(c, "idle")
  /\ checkpoint' = Row(LastSequence(rows), client[c].payload)
  /\ UNCHANGED <<rows, lastRowid, snapshot, client, damage>>

\* save, which overwrites a checkpoint of a later sequence as well
SaveCheckpoint(c) ==
  /\ At(c, "idle")
  /\ checkpoint' = Row(client[c].sequence, client[c].payload)
  /\ UNCHANGED <<rows, lastRowid, snapshot, client, damage>>

\* A process starts from the checkpoint.  load refuses a damaged payload.
LoadCheckpoint(c) ==
  /\ client[c] = Fresh
  /\ checkpoint.intact
  /\ client' = [client EXCEPT ![c].payload = checkpoint.payload,
                              ![c].sequence = checkpoint.sequence]
  /\ UNCHANGED <<rows, lastRowid, snapshot, checkpoint, damage>>

-----------------------------------------------------------------------------
(* Crashes and damage                                                      *)

\* The process stops; what it had committed stays.
Restart(c) ==
  /\ client[c] # Fresh
  /\ client' = [client EXCEPT ![c] = Fresh]
  /\ UNCHANGED <<rows, lastRowid, snapshot, checkpoint, damage>>

\* A row is lost, or a payload no longer matches its checksum.
Damage ==
  /\ damage < MaxDamage
  /\ damage' = damage + 1
  /\ \/ \E s \in DOMAIN rows : /\ rows' = Restrict(rows, DOMAIN rows \ {s})
                               /\ UNCHANGED <<snapshot, checkpoint>>
     \/ snapshot' = [snapshot EXCEPT !.intact = FALSE] /\ UNCHANGED <<rows, checkpoint>>
     \/ checkpoint' = [checkpoint EXCEPT !.intact = FALSE] /\ UNCHANGED <<rows, snapshot>>
  /\ UNCHANGED <<lastRowid, client>>

StoreNext ==
  \/ \E c \in Clients :
       \/ \E id \in EventIds : AppendCommits(c, id)
       \/ AppendReturns(c)
       \/ ReadEvents(c)
       \/ LabelSnapshot(c)
       \/ WriteSnapshot(c)
       \/ VerifyEvents(c)
       \/ VerifySnapshots(c)
       \/ VerifyReturns(c)
       \/ SaveCheckpoint(c)
       \/ LoadCheckpoint(c)
       \/ Restart(c)
  \/ Damage

StoreSpec == StoreInit /\ [][StoreNext]_storeVars

-----------------------------------------------------------------------------
(* Properties                                                              *)

\* A process and the checkpoint hold exactly the events up to their sequence, so
\* that applying events(sequence + 1) neither misses nor repeats one.  It takes
\* any number of recoveries from checkpoints that other processes saved, in any
\* order and over later ones.
CheckpointsRecoverEverything ==
  damage = 0 =>
    \A v \in {client[c] : c \in Clients} \cup {checkpoint} :
      /\ v.payload \cup After(v.sequence) = Stored
      /\ v.payload \cap After(v.sequence) = {}

\* The label write_snapshot chooses is never older than the payload: recovery from
\* a snapshot applies no event twice, although other processes append between the
\* reading of events, the choice of the label and the write.
SnapshotNeverReplaysTwice ==
  damage = 0 => snapshot.payload \cap After(snapshot.sequence) = {}

\* verify_recovery answers rightly, although it reads the events in one query and the
\* snapshot in another: when it accepts, every event up to the sequence of the snapshot
\* is there, unless a row was lost between the two; when it fails, the files are damaged
\* or another process has appended between the two.
VerifyAnswersRightly ==
  [][\A c \in Clients :
       At(c, "verifying") /\ client'[c] # client[c] =>
         CASE client'[c].at = "verified" ->
                client[c].args \subseteq DOMAIN rows =>
                  1 .. snapshot.sequence \subseteq DOMAIN rows /\ snapshot.intact
           [] client'[c].at = "failed" -> damage > 0 \/ client[c].args # DOMAIN rows
           [] OTHER -> TRUE]_storeVars
=============================================================================
