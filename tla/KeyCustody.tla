----------------------------- MODULE KeyCustody -----------------------------
(***************************************************************************)
(* Two custodians of the versions of one key: InMemoryKeyStore with        *)
(* HmacSimulatorSigner of interfaces/custody/key_store.py, which keeps     *)
(* other keys apart by their ids, and SimulatedHsm of                      *)
(* scripts/operations/production_gate_simulations.py.  A signature is the  *)
(* version it was made with.                                               *)
(***************************************************************************)
EXTENDS Integers, Sequences

CONSTANTS
  MaxVersions,   \* bound on the versions of a key
  People         \* operators and approvers

VARIABLES
  versions,      \* _keys[key_id]: whether version n is active, for n = 1, 2 ...
  provisioned,   \* SimulatedHsm: _keys
  revoked, activeVersion,
  hsmSigned      \* the versions of SimulatedHsm that have signed

hsmVars == <<provisioned, revoked, activeVersion, hsmSigned>>
custodyVars == <<versions, hsmVars>>

CustodyInit ==
  /\ versions = << >>
  /\ provisioned = {} /\ revoked = {} /\ activeVersion = 0 /\ hsmSigned = {}

-----------------------------------------------------------------------------
(* InMemoryKeyStore and its signer                                         *)

Newest(s) == CHOOSE v \in s : \A w \in s : w <= v
ActiveVersions == {v \in DOMAIN versions : versions[v]}

\* Mutant: the versions before stay active.
RotatedAll(vs) == Append(vs, TRUE)

Rotated(vs) == Append([v \in DOMAIN vs |-> FALSE], TRUE)

Rotate ==
  /\ Len(versions) < MaxVersions
  /\ versions' = Rotated(versions)

Revoke(v) ==
  /\ v \in DOMAIN versions
  /\ versions' = [versions EXCEPT ![v] = FALSE]

\* sign, with the version active_key finds, or rotates to when there is none
Sign ==
  \/ ActiveVersions # {} /\ versions' = versions
  \/ /\ ActiveVersions = {} /\ Len(versions) < MaxVersions
     /\ versions' = Rotated(versions)

-----------------------------------------------------------------------------
(* SimulatedHsm                                                            *)

\* provision
Provision(v, operator, approver) ==
  /\ v > activeVersion /\ operator # approver
  /\ provisioned' = provisioned \cup {v}
  /\ revoked' = IF activeVersion = 0 THEN revoked ELSE revoked \cup {activeVersion}
  /\ activeVersion' = v
  /\ UNCHANGED <<hsmSigned, versions>>

\* sign and verify ask for the same
CanSign(v) == v \in provisioned /\ v \notin revoked

HsmSign(v) ==
  /\ CanSign(v)
  /\ hsmSigned' = hsmSigned \cup {v}
  /\ UNCHANGED <<provisioned, revoked, activeVersion, versions>>

CustodyNext ==
  \/ (Rotate \/ Sign \/ \E v \in 1 .. MaxVersions : Revoke(v)) /\ UNCHANGED hsmVars
  \/ \E v \in 1 .. MaxVersions :
       HsmSign(v) \/ \E operator, approver \in People : Provision(v, operator, approver)

CustodySpec == CustodyInit /\ [][CustodyNext]_custodyVars

-----------------------------------------------------------------------------
(* Properties                                                              *)

StoreVersions ==
  INSTANCE KeyVersions WITH
    issued <- DOMAIN versions,
    inUse <- IF ActiveVersions = {} THEN 0 ELSE Newest(ActiveVersions)

\* The version the store signs with is always the newest it ever issued, and one that was
\* rotated out or revoked never comes back, whichever version is revoked (rotate, revoke).
StoreKeepsVersions == StoreVersions!Spec

HsmVersions == INSTANCE KeyVersions WITH issued <- provisioned, inUse <- activeVersion

\* SimulatedHsm keeps the same promise, for versions that need not be consecutive
\* (provision).
HsmKeepsVersions == HsmVersions!Spec

\* Both custodians implement the key versions.
CustodiansKeepVersions == StoreKeepsVersions /\ HsmKeepsVersions

\* Exactly the active version can sign or verify, and every signature of another version
\* is from before it was revoked (sign, verify, provision).
OnlyTheActiveSigns ==
  /\ {v \in provisioned : CanSign(v)} = {activeVersion} \ {0}
  /\ hsmSigned \subseteq revoked \cup {activeVersion}
=============================================================================
