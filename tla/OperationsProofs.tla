-------------------------- MODULE OperationsProofs --------------------------
(***************************************************************************)
(* Proofs about the operator's tools, for any keys, people, nodes, records *)
(* and bounds: the custodians keep the promise of KeyVersions, only the    *)
(* active version of SimulatedHsm signs, the audit log of HSMSimulator     *)
(* accounts for its keys, a deployment works through its nodes in order,   *)
(* and the numbers of the journal on disk survive restarts.                *)
(***************************************************************************)
EXTENDS KeyCustody, HsmSimulator, Deployment, JournalFile, FiniteSetTheorems, TLAPS

-----------------------------------------------------------------------------
(* Sets of numbers                                                         *)

\* Every set of naturals that is not empty has a least element, as < is well-founded.
LEMMA LeastNumber ==
  ASSUME NEW S \in SUBSET Nat, S # {}
  PROVE  \E n \in S : \A m \in S : n <= m
<1> DEFINE R == {pair \in Nat \X Nat : pair[1] < pair[2]}
<1>1. IsWellFoundedOn(R, Nat)
  BY NatLessThanWellFounded, Zenon DEF OpToRel
<1>2. \A m, n \in Nat : m < n => <<m, n>> \in R
  OBVIOUS
<1> HIDE DEF R
<1>3. PICK n \in S : \A m \in S : <<m, n>> \notin R
  BY <1>1, WFMin, Zenon
<1>4. ASSUME NEW m \in S PROVE n <= m
  <2>1. m \in Nat /\ n \in Nat /\ ~(m < n)
    BY <1>2, <1>3, Zenon
  <2> QED BY <2>1
<1> QED BY <1>4

\* Min names the least element.
LEMMA MinIsLeast ==
  ASSUME NEW S \in SUBSET Nat, S # {}
  PROVE  Min(S) \in S /\ \A m \in S : Min(S) <= m
  BY LeastNumber, Zenon DEF Min

-----------------------------------------------------------------------------
(* SimulatedHsm                                                            *)

\* The active version is the greatest, and the revoked ones are all the others.
HsmInv ==
  /\ activeVersion \in Nat
  /\ provisioned \subseteq 1 .. activeVersion
  /\ activeVersion # 0 => activeVersion \in provisioned
  /\ revoked = provisioned \ {activeVersion}
  /\ hsmSigned \subseteq provisioned

\* Nothing is provisioned at first.
LEMMA HsmInvInit == CustodyInit => HsmInv
  BY DEF CustodyInit, HsmInv

\* A new version is greater than all before it, and revokes the one in use (provision).
LEMMA ProvisionKeeps ==
  ASSUME HsmInv, NEW v \in Nat \ {0}, NEW operator, NEW approver,
         Provision(v, operator, approver)
  PROVE  HsmInv'
<1>1. activeVersion' \in Nat /\ activeVersion' \in provisioned'
  BY DEF Provision
<1>2. provisioned' \subseteq 1 .. activeVersion'
  BY DEF Provision, HsmInv
<1>3. revoked' = provisioned' \ {activeVersion'}
  BY DEF Provision, HsmInv
<1> QED BY <1>1, <1>2, <1>3 DEF Provision, HsmInv

\* The invariant of SimulatedHsm is inductive (provision, sign).
LEMMA HsmInvStep == HsmInv /\ [CustodyNext]_custodyVars => HsmInv'
<1> SUFFICES ASSUME HsmInv, [CustodyNext]_custodyVars PROVE HsmInv'
  OBVIOUS
<1>1. CASE UNCHANGED hsmVars
  BY <1>1 DEF hsmVars, HsmInv
<1>2. ASSUME NEW v \in 1 .. MaxVersions, HsmSign(v) PROVE HsmInv'
  BY <1>2 DEF HsmSign, CanSign, HsmInv
<1>3. ASSUME NEW v \in 1 .. MaxVersions, NEW operator \in People, NEW approver \in People,
             Provision(v, operator, approver)
      PROVE  HsmInv'
  BY <1>3, ProvisionKeeps, v \in Nat \ {0}
<1>4. CASE UNCHANGED custodyVars
  BY <1>1, <1>4 DEF custodyVars
<1> QED BY <1>1, <1>2, <1>3, <1>4 DEF CustodyNext

\* The invariant of SimulatedHsm holds in every state.
LEMMA HsmInvAlways == CustodySpec => []HsmInv
  BY HsmInvInit, HsmInvStep, PTL DEF CustodySpec

\* Exactly the active version of SimulatedHsm can sign or verify (sign, verify, provision).
THEOREM OnlyTheActiveSignsAlways == CustodySpec => []OnlyTheActiveSigns
<1>1. HsmInv => OnlyTheActiveSigns
  BY DEF HsmInv, OnlyTheActiveSigns, CanSign
<1> QED BY <1>1, HsmInvAlways, PTL

\* Every step of the custodians issues a newer version of SimulatedHsm's key or leaves its
\* versions alone.
LEMMA HsmStepKeepsVersions ==
  HsmInv /\ [CustodyNext]_custodyVars
    => [HsmVersions!Issue \/ HsmVersions!Retire]_<<provisioned, activeVersion>>
<1> SUFFICES ASSUME HsmInv, [CustodyNext]_custodyVars
             PROVE  HsmVersions!Issue \/ UNCHANGED <<provisioned, activeVersion>>
  OBVIOUS
<1>1. ASSUME NEW v \in 1 .. MaxVersions, NEW operator \in People, NEW approver \in People,
             Provision(v, operator, approver)
      PROVE  HsmVersions!Issue
  <2>1. activeVersion' = v /\ provisioned' = provisioned \cup {v} /\ v > activeVersion
    BY <1>1 DEF Provision
  <2>2. \A w \in provisioned : w < v
    BY <2>1 DEF HsmInv
  <2> QED BY <2>1, <2>2 DEF HsmVersions!Issue
<1>2. ASSUME NEW v \in 1 .. MaxVersions, HsmSign(v)
      PROVE  UNCHANGED <<provisioned, activeVersion>>
  BY <1>2 DEF HsmSign
<1>3. CASE UNCHANGED hsmVars
  BY <1>3 DEF hsmVars
<1>4. CASE UNCHANGED custodyVars
  BY <1>4 DEF custodyVars, hsmVars
<1> QED BY <1>1, <1>2, <1>3, <1>4 DEF CustodyNext

\* For any versions and people, the versions of SimulatedHsm only grow and a revoked one
\* never becomes active again (provision).
THEOREM HsmKeepsVersionsAlways == CustodySpec => HsmKeepsVersions
<1>1. CustodyInit => HsmVersions!Init
  BY DEF CustodyInit, HsmVersions!Init
<1> QED
  BY <1>1, HsmStepKeepsVersions, HsmInvAlways, PTL
  DEF CustodySpec, HsmKeepsVersions, HsmVersions!Spec
-----------------------------------------------------------------------------
(* InMemoryKeyStore                                                        *)

\* No version but the newest is active.
StoreInv ==
  /\ versions \in Seq(BOOLEAN)
  /\ \A v \in DOMAIN versions : versions[v] => v = Len(versions)

\* The version StoreVersions calls in use.
StoreInUse == IF ActiveVersions = {} THEN 0 ELSE Newest(ActiveVersions)

\* The version in use is the newest issued, or none.
LEMMA NewestIsLast ==
  ASSUME StoreInv
  PROVE  /\ ActiveVersions = {} => StoreInUse = 0
         /\ ActiveVersions # {} => ActiveVersions = {Len(versions)} /\ StoreInUse = Len(versions)
<1>1. Len(versions) \in Nat /\ DOMAIN versions = 1 .. Len(versions)
  BY DEF StoreInv
<1>2. ActiveVersions # {} => ActiveVersions = {Len(versions)}
  BY <1>1 DEF ActiveVersions, StoreInv
<1> QED BY <1>1, <1>2 DEF StoreInUse, Newest

\* rotate deactivates what was there and appends an active version.
LEMMA RotatedVersions ==
  ASSUME StoreInv
  PROVE  /\ Rotated(versions) \in Seq(BOOLEAN)
         /\ Len(Rotated(versions)) = Len(versions) + 1
         /\ \A v \in 1 .. Len(versions) : Rotated(versions)[v] = FALSE
         /\ Rotated(versions)[Len(versions) + 1] = TRUE
<1> DEFINE old == [v \in DOMAIN versions |-> FALSE]
<1>1. Len(versions) \in Nat /\ DOMAIN versions = 1 .. Len(versions)
  BY DEF StoreInv
<1>2. old \in Seq(BOOLEAN) /\ Len(old) = Len(versions)
  BY <1>1
<1>3. \A v \in 1 .. Len(versions) : old[v] = FALSE
  BY <1>1
<1> HIDE DEF old
<1>4. Rotated(versions) = Append(old, TRUE)
  BY DEF Rotated, old
<1> QED BY <1>1, <1>2, <1>3, <1>4

\* A step of the store issues the next version, retires the active one, or changes neither.
LEMMA StoreStep ==
  ASSUME StoreInv, [CustodyNext]_custodyVars
  PROVE  /\ StoreInv'
         /\ [StoreVersions!Issue \/ StoreVersions!Retire]_<<DOMAIN versions, StoreInUse>>
<1> DEFINE Kept == UNCHANGED <<DOMAIN versions, StoreInUse>>
<1>1. Len(versions) \in Nat /\ DOMAIN versions = 1 .. Len(versions)
  BY DEF StoreInv
<1>2. CASE UNCHANGED versions
  BY <1>2 DEF StoreInv, StoreInUse, ActiveVersions
<1>3. CASE versions' = Rotated(versions)
  <2>1. /\ versions' \in Seq(BOOLEAN) /\ Len(versions') = Len(versions) + 1
        /\ \A v \in 1 .. Len(versions) : versions'[v] = FALSE
        /\ versions'[Len(versions) + 1] = TRUE
    BY <1>3, RotatedVersions, Zenon
  <2>2. StoreInv'
    BY <1>1, <2>1, DOMAIN versions' = 1 .. Len(versions) + 1 DEF StoreInv
  <2>3. Len(versions) + 1 \in ActiveVersions'
    BY <1>1, <2>1 DEF ActiveVersions
  <2>4. StoreInUse' = Len(versions) + 1
    <3>1. (ActiveVersions # {} => StoreInUse = Len(versions))'
      BY <2>2, NewestIsLast, PTL
    <3> QED BY <2>1, <2>3, <3>1
  <2>5. DOMAIN versions' = DOMAIN versions \cup {Len(versions) + 1}
    BY <1>1, <2>1
  <2>6. StoreVersions!Issue
    BY <1>1, <2>4, <2>5 DEF StoreVersions!Issue, StoreInUse
  <2> QED BY <2>2, <2>6
<1>4. ASSUME NEW r \in 1 .. MaxVersions, Revoke(r)
      PROVE  StoreInv' /\ (StoreVersions!Retire \/ Kept)
  <2>1. /\ r \in 1 .. Len(versions)
        /\ versions' = [versions EXCEPT ![r] = FALSE]
    BY <1>1, <1>4 DEF Revoke
  <2>2. versions' \in Seq(BOOLEAN) /\ Len(versions') = Len(versions)
    <3>1. versions \in [1 .. Len(versions) -> BOOLEAN] /\ Len(versions) \in Nat
      BY DEF StoreInv
    <3>2. versions' \in [1 .. Len(versions) -> BOOLEAN]
      BY <2>1, <3>1
    <3> QED BY <3>1, <3>2
  <2>3. DOMAIN versions' = DOMAIN versions
    BY <1>1, <2>2
  <2>4. ActiveVersions' = ActiveVersions \ {r}
    BY <2>1, <2>3 DEF ActiveVersions, StoreInv
  <2>5. StoreInv'
    <3>1. \A v \in DOMAIN versions' : versions'[v] => v \in ActiveVersions
      BY <2>4 DEF ActiveVersions
    <3> QED BY <2>2, <3>1 DEF StoreInv, ActiveVersions
  <2>6. CASE r \in ActiveVersions
    <3>1. ActiveVersions' = {}
      BY <2>4, <2>6, NewestIsLast
    <3> QED BY <2>3, <2>5, <3>1 DEF StoreVersions!Retire
  <2>7. CASE r \notin ActiveVersions
    BY <2>3, <2>4, <2>5, <2>7 DEF StoreInUse
  <2> QED BY <2>6, <2>7
<1>5. UNCHANGED versions \/ versions' = Rotated(versions) \/ \E r \in 1 .. MaxVersions : Revoke(r)
  BY DEF CustodyNext, Rotate, Sign, HsmSign, Provision, custodyVars
<1> QED BY <1>2, <1>3, <1>4, <1>5

\* For any versions and people, the version InMemoryKeyStore signs with is the newest it
\* issued, and one that was rotated out or revoked never comes back (rotate, revoke).
THEOREM StoreKeepsVersionsAlways == CustodySpec => StoreKeepsVersions
<1>1. CustodyInit => StoreInv /\ StoreVersions!Init
  BY DEF CustodyInit, StoreInv, StoreVersions!Init, ActiveVersions
<1>2. StoreInv /\ [CustodyNext]_custodyVars
        => StoreInv' /\ [StoreVersions!Issue \/ StoreVersions!Retire]_
                          <<DOMAIN versions, IF ActiveVersions = {} THEN 0 ELSE Newest(ActiveVersions)>>
  BY StoreStep DEF StoreInUse
<1> QED BY <1>1, <1>2, PTL DEF CustodySpec, StoreKeepsVersions, StoreVersions!Spec

\* Both custodians implement the key versions (rotate, revoke, provision).
THEOREM CustodiansKeepVersionsAlways == CustodySpec => CustodiansKeepVersions
  BY StoreKeepsVersionsAlways, HsmKeepsVersionsAlways DEF CustodiansKeepVersions

-----------------------------------------------------------------------------
(* HSMSimulator                                                            *)

Entries(log, action, k) == {n \in DOMAIN log : log[n].action = action /\ log[n].key = k}

\* The log accounts for the metadata, as in AuditExplainsKeys.
Accounts(log, metadata) ==
  /\ \A n \in DOMAIN log : log[n].sequence = n
  /\ \A k \in KeyIds :
       IF metadata[k] = -1 THEN \A n \in DOMAIN log : log[n].key # k
       ELSE /\ Cardinality(Entries(log, "key_create", k)) = 1
            /\ Cardinality(Entries(log, "key_rotate", k)) = metadata[k]

AuditEntries ==
  [sequence : Nat, action : {"key_create", "key_rotate", "verify"}, key : KeyIds]
LogsOfKeys == Seq(AuditEntries)

\* The simulator and the exported state, which takes its place on import.
SimulatorInv ==
  /\ audit \in LogsOfKeys /\ exported.audit \in LogsOfKeys
  /\ rotations \in [KeyIds -> Int] /\ exported.rotations \in [KeyIds -> Int]
  /\ auditSequence = Len(audit)
  /\ Accounts(audit, rotations) /\ Accounts(exported.audit, exported.rotations)

\* An entry more is counted where it belongs, and nowhere else (_audit_event).
LEMMA EntriesOfAppend ==
  ASSUME NEW log \in LogsOfKeys, NEW e \in AuditEntries,
         NEW action, NEW k
  PROVE  /\ Cardinality(Entries(log, action, k)) \in Nat
         /\ Entries(Append(log, e), action, k) =
              IF e.action = action /\ e.key = k THEN Entries(log, action, k) \cup {Len(log) + 1}
              ELSE Entries(log, action, k)
         /\ Cardinality(Entries(Append(log, e), action, k)) =
              Cardinality(Entries(log, action, k)) + IF e.action = action /\ e.key = k THEN 1 ELSE 0
<1>1. Len(log) \in Nat /\ DOMAIN log = 1 .. Len(log)
  BY DEF LogsOfKeys
<1>2. /\ DOMAIN Append(log, e) = DOMAIN log \cup {Len(log) + 1}
      /\ \A n \in DOMAIN log : Append(log, e)[n] = log[n]
      /\ Append(log, e)[Len(log) + 1] = e
  BY <1>1 DEF LogsOfKeys
<1>3. IsFiniteSet(Entries(log, action, k)) /\ Len(log) + 1 \notin Entries(log, action, k)
  <2>1. Entries(log, action, k) \in SUBSET (1 .. Len(log))
    BY <1>1 DEF Entries
  <2>2. IsFiniteSet(1 .. Len(log))
    BY <1>1, FS_Interval
  <2> QED BY <1>1, <2>1, <2>2, FS_Subset
<1>4. Entries(Append(log, e), action, k) =
        IF e.action = action /\ e.key = k THEN Entries(log, action, k) \cup {Len(log) + 1}
        ELSE Entries(log, action, k)
  BY <1>1, <1>2 DEF Entries
<1>5. /\ Cardinality(Entries(log, action, k)) \in Nat
      /\ Cardinality(Entries(log, action, k) \cup {Len(log) + 1}) =
           Cardinality(Entries(log, action, k)) + 1
  BY <1>3, FS_CardinalityType, FS_AddElement
<1> QED BY <1>4, <1>5

\* A key is created once, rotated as often as the log says, or only verified with.
LEMMA AuditStep ==
  ASSUME SimulatorInv, NEW k \in KeyIds, CreateKey(k) \/ RotateKey(k) \/ VerifyWithKey(k)
  PROVE  SimulatorInv'
<1> PICK action \in {"key_create", "key_rotate", "verify"} :
      /\ audit' = Append(audit, [sequence |-> auditSequence + 1, action |-> action, key |-> k])
      /\ auditSequence' = auditSequence + 1
      /\ exported' = exported
      /\ action = "key_create" => rotations[k] = -1 /\ rotations' = [rotations EXCEPT ![k] = 0]
      /\ action = "key_rotate" =>
           rotations[k] # -1 /\ rotations' = [rotations EXCEPT ![k] = @ + 1]
      /\ action = "verify" => rotations[k] # -1 /\ rotations' = rotations
  BY DEF CreateKey, RotateKey, VerifyWithKey, AuditEvent
<1> DEFINE e == [sequence |-> auditSequence + 1, action |-> action, key |-> k]
<1>1. Len(audit) \in Nat /\ DOMAIN audit = 1 .. Len(audit)
  BY DEF SimulatorInv, LogsOfKeys
<1>2. e \in AuditEntries
  BY <1>1 DEF SimulatorInv, AuditEntries
<1>3. /\ audit' \in LogsOfKeys /\ Len(audit') = Len(audit) + 1
      /\ DOMAIN audit' = DOMAIN audit \cup {Len(audit) + 1}
      /\ \A n \in DOMAIN audit : audit'[n] = audit[n]
      /\ audit'[Len(audit) + 1] = e
  BY <1>1, <1>2 DEF SimulatorInv, LogsOfKeys
<1>4. /\ e.action = action /\ e.key = k /\ e.sequence = Len(audit) + 1
      /\ audit' = Append(audit, e)
  BY DEF SimulatorInv
<1> HIDE DEF e
<1>5. ASSUME NEW j \in KeyIds, NEW a
      PROVE  /\ Cardinality(Entries(audit, a, j)) \in Nat
             /\ Cardinality(Entries(audit', a, j)) =
                  Cardinality(Entries(audit, a, j)) + IF action = a /\ k = j THEN 1 ELSE 0
  BY <1>2, <1>4, EntriesOfAppend, SMTT(30) DEF SimulatorInv
<1>6. rotations' \in [KeyIds -> Int]
  BY DEF SimulatorInv
<1>7. ASSUME NEW j \in KeyIds, rotations[j] = -1
      PROVE  \A a : Cardinality(Entries(audit, a, j)) = 0
  <2>1. \A a : Entries(audit, a, j) = {}
    BY <1>7, Zenon DEF SimulatorInv, Accounts, Entries
  <2> QED BY <2>1, FS_EmptySet, Zenon
<1>8. ASSUME NEW j \in KeyIds, rotations'[j] = -1
      PROVE  \A n \in DOMAIN audit' : audit'[n].key # j
  <2>1. j # k /\ rotations[j] = -1
    BY <1>8, <1>7, <1>5 DEF SimulatorInv, Accounts
  <2> QED BY <2>1, <1>3, <1>4, SMTT(30) DEF SimulatorInv, Accounts
<1>9. ASSUME NEW j \in KeyIds, rotations'[j] # -1
      PROVE  /\ Cardinality(Entries(audit', "key_create", j)) = 1
             /\ Cardinality(Entries(audit', "key_rotate", j)) = rotations'[j]
  <2>1. CASE j # k
    BY <1>5, <1>9, <2>1 DEF SimulatorInv, Accounts
  <2>2. CASE j = k /\ action = "key_create"
    <3>1. /\ Cardinality(Entries(audit, "key_create", k)) = 0
          /\ Cardinality(Entries(audit, "key_rotate", k)) = 0
      BY <1>7, <2>2
    <3>2. /\ Cardinality(Entries(audit', "key_create", k)) = 0 + 1
          /\ Cardinality(Entries(audit', "key_rotate", k)) = 0 + 0
      BY <1>5, <2>2, <3>1
    <3>3. rotations'[k] = 0
      BY <2>2, SMTT(30) DEF SimulatorInv
    <3> QED BY <2>2, <3>2, <3>3
  <2>3. CASE j = k /\ action = "key_rotate"
    BY <1>5, <2>3 DEF SimulatorInv, Accounts
  <2>4. CASE j = k /\ action = "verify"
    <3>1. /\ Cardinality(Entries(audit, "key_create", k)) = 1
          /\ Cardinality(Entries(audit, "key_rotate", k)) = rotations[k]
      BY <2>4, SMTT(30) DEF SimulatorInv, Accounts
    <3> QED BY <1>5, <2>4, <3>1, SMTT(30)
  <2> QED BY <2>1, <2>2, <2>3, <2>4, Zenon
<1>10. Accounts(audit', rotations')
  BY <1>3, <1>4, <1>8, <1>9 DEF Accounts, SimulatorInv
<1> QED BY <1>3, <1>6, <1>10 DEF SimulatorInv

\* The number an imported simulator goes on from is the length of its log.
LEMMA HighestIsLength ==
  ASSUME NEW log \in LogsOfKeys, \A n \in DOMAIN log : log[n].sequence = n
  PROVE  HighestAudited(log) = Len(log)
<1> DEFINE numbers == {log[n].sequence : n \in DOMAIN log} \cup {0}
<1>1. Len(log) \in Nat /\ numbers = 0 .. Len(log)
  BY DEF LogsOfKeys
<1> QED BY <1>1 DEF HighestAudited

\* The log accounts for the keys on every simulator, however often its state was exported
\* and imported again (create_key, rotate_key, import_state).
THEOREM AuditExplainsKeysAlways == SimulatorSpec => []AuditExplainsKeys
<1>1. SimulatorInit => SimulatorInv
  BY DEF SimulatorInit, SimulatorInv, Accounts, LogsOfKeys
<1>2. SimulatorInv /\ [SimulatorNext]_simulatorVars => SimulatorInv'
  <2> SUFFICES ASSUME SimulatorInv, [SimulatorNext]_simulatorVars PROVE SimulatorInv'
    OBVIOUS
  <2>1. ASSUME NEW k \in KeyIds, CreateKey(k) \/ RotateKey(k) \/ VerifyWithKey(k)
        PROVE  SimulatorInv'
    BY <2>1, AuditStep
  <2>2. CASE UNCHANGED simulatorVars
    BY <2>2 DEF SimulatorInv, simulatorVars
  <2>3. CASE ExportState
    BY <2>3 DEF ExportState, SimulatorInv
  <2>4. CASE ImportState
    <3>1. HighestAudited(exported.audit) = Len(exported.audit)
      BY HighestIsLength DEF SimulatorInv, Accounts
    <3> QED BY <2>4, <3>1 DEF ImportState, SimulatorInv
  <2> QED BY <2>1, <2>2, <2>3, <2>4 DEF SimulatorNext, UseKey
<1>3. SimulatorInv => AuditExplainsKeys
  BY Zenon DEF SimulatorInv, AuditExplainsKeys, Accounts, Entries
<1> QED BY <1>1, <1>2, <1>3, PTL DEF SimulatorSpec

-----------------------------------------------------------------------------
(* Deployment                                                              *)

Calls ==
  [at : {"build", "visit", "done", "failed"}, action : Operations, execute : BOOLEAN,
   inventory : Inventories, selected : SUBSET Nodes, todo : SUBSET Nodes,
   before : [Nodes -> BOOLEAN] \X BOOLEAN]

\* The selected nodes before latest are as asked, what comes after it is as before.
ReachedFrom(then, now, asked, selected, latest) ==
  \A n \in Nodes :
    /\ n < latest /\ n \in selected => now[n] = asked
    /\ n > latest \/ n \notin selected => now[n] = then[n]

\* The nodes already visited come before those still to be visited.
VisitedInOrder(then, now, asked, selected, todo) ==
  /\ \A n \in Nodes : now[n] = IF n \in selected \ todo THEN asked ELSE then[n]
  /\ \A n \in selected \ todo, m \in todo : n < m

DeployInv ==
  /\ services \in [Nodes -> BOOLEAN] /\ built \in BOOLEAN
  /\ call # NoCall =>
       /\ call \in Calls
       /\ call.todo \subseteq call.selected
       /\ ~Valid(call.inventory) => call.before = <<services, built>> /\ call.at = "failed"
       /\ call.at = "visit" => call.todo # {}
       /\ call.at = "build" => call.action \in {"plan", "build"} /\ call.todo # {}
       /\ call.execute /\ call.action \in {"deploy", "down"} =>
            /\ call.at \in {"visit", "done"} =>
                 VisitedInOrder(call.before[1], services, call.action = "deploy",
                                call.selected, call.todo)
            /\ call.at = "done" => call.todo = {}
            /\ call.at = "failed" =>
                 \E latest \in 0 .. MaxNode :
                   ReachedFrom(call.before[1], services, call.action = "deploy",
                               call.selected, latest)

\* A call that ends at some node has reached that node.
LEMMA VisitedIsReached ==
  ASSUME NEW then, NEW now, NEW later, NEW asked, NEW selected \in SUBSET Nodes,
         NEW todo \in SUBSET selected, todo # {},
         VisitedInOrder(then, now, asked, selected, todo),
         \A n \in Nodes \ {Min(todo)} : later[n] = now[n]
  PROVE  Min(todo) \in 0 .. MaxNode /\ ReachedFrom(then, later, asked, selected, Min(todo))
<1>1. Min(todo) \in todo /\ \A n \in todo : Min(todo) <= n
  <2>1. todo \in SUBSET Nat
    BY DeployAssumption DEF Nodes
  <2> QED BY <2>1, MinIsLeast
<1>2. Min(todo) \in 1 .. MaxNode
  BY <1>1, Zenon DEF Nodes
<1>3. ASSUME NEW n \in Nodes, n < Min(todo), n \in selected PROVE later[n] = asked
  BY <1>1, <1>2, <1>3, DeployAssumption DEF VisitedInOrder, Nodes
<1>4. ASSUME NEW n \in Nodes, n > Min(todo) \/ n \notin selected PROVE later[n] = then[n]
  <2>1. n \notin selected \ todo /\ n # Min(todo)
    BY <1>1, <1>2, <1>4, DeployAssumption DEF VisitedInOrder, Nodes
  <2> QED BY <2>1 DEF VisitedInOrder
<1> QED BY <1>2, <1>3, <1>4, DeployAssumption DEF ReachedFrom

\* The visit of the first node that is left keeps the order.
LEMMA VisitKeepsOrder ==
  ASSUME NEW then, NEW now, NEW later, NEW asked, NEW selected \in SUBSET Nodes,
         NEW todo \in SUBSET selected, todo # {},
         VisitedInOrder(then, now, asked, selected, todo),
         \A n \in Nodes \ {Min(todo)} : later[n] = now[n], later[Min(todo)] = asked
  PROVE  VisitedInOrder(then, later, asked, selected, todo \ {Min(todo)})
<1>1. Min(todo) \in todo /\ \A n \in todo : Min(todo) <= n
  <2>1. todo \in SUBSET Nat
    BY DeployAssumption DEF Nodes
  <2> QED BY <2>1, MinIsLeast
<1> QED BY <1>1, DeployAssumption DEF VisitedInOrder, Nodes

\* Every step of a deployment, a call or a node keeps DeployInv.
LEMMA DeployInvPreserved == DeployInv /\ [DeployNext]_deployVars => DeployInv'
<1> SUFFICES ASSUME DeployInv, [DeployNext]_deployVars PROVE DeployInv'
  OBVIOUS
<1> DEFINE asked == call.action = "deploy"
<1>1. ASSUME NEW action \in Operations, NEW execute \in BOOLEAN, NEW inventory \in Inventories,
             NEW selected \in SUBSET Nodes, Invoke(action, execute, inventory, selected)
      PROVE  DeployInv'
  <2> DEFINE at == IF ~Valid(inventory) \/ selected = {} THEN "failed"
                   ELSE IF action \in {"plan", "build"} THEN "build" ELSE "visit"
  <2>1. /\ call' = [at |-> at, action |-> action, execute |-> execute, inventory |-> inventory,
                    selected |-> selected, todo |-> selected, before |-> <<services, built>>]
        /\ UNCHANGED <<services, built>>
    BY <1>1 DEF Invoke
  <2>2. /\ at \in {"failed", "build", "visit"}
        /\ ~Valid(inventory) => at = "failed"
        /\ at # "failed" => selected # {}
        /\ at = "build" => action \in {"plan", "build"}
    OBVIOUS
  <2> HIDE DEF at
  <2>3. VisitedInOrder(services, services, action = "deploy", selected, selected)
    BY DEF VisitedInOrder
  <2>4. ReachedFrom(services, services, action = "deploy", selected, 0) /\ 0 \in 0 .. MaxNode
    BY DeployAssumption DEF ReachedFrom, Nodes
  <2>5. call' \in Calls
    BY <2>1, <2>2 DEF Calls, DeployInv
  <2> QED BY <2>1, <2>2, <2>3, <2>4, <2>5, SMTT(30) DEF DeployInv
<1>2. ASSUME NEW succeeds \in BOOLEAN, Build(succeeds)
      PROVE  DeployInv'
  <2>1. call # NoCall /\ call \in Calls /\ call.at = "build" /\ call.action \in {"plan", "build"}
    BY <1>2 DEF Build, DeployInv, NoCall
  <2>2. PICK at \in {"failed", "done", "visit"} : call' = [call EXCEPT !.at = at]
    BY <1>2 DEF Build
  <2>3. call' \in Calls
    BY <2>1, <2>2 DEF Calls
  <2>4. services' = services /\ built' \in BOOLEAN
    BY <1>2, Zenon DEF Build
  <2> QED BY <2>1, <2>2, <2>3, <2>4 DEF DeployInv, Calls
<1>3. ASSUME NEW succeeds \in BOOLEAN, NEW effective \in BOOLEAN, Visit(succeeds, effective)
      PROVE  DeployInv'
  <2> DEFINE n == Min(call.todo)
             at == IF ~succeeds THEN "failed" ELSE IF call.todo = {n} THEN "done" ELSE "visit"
  <2>1. call # NoCall /\ call \in Calls /\ call.at = "visit" /\ call.todo # {}
    BY <1>3 DEF Visit, DeployInv, NoCall
  <2>2. n \in call.todo /\ n \in Nodes
    BY <2>1, MinIsLeast, DeployAssumption DEF Calls, Nodes
  <2>3. call' = [call EXCEPT !.todo = @ \ {n}, !.at = at] /\ UNCHANGED built
    BY <1>3, <2>1 DEF Visit
  <2>4. services' \in [Nodes -> BOOLEAN] /\ \A m \in Nodes \ {n} : services'[m] = services[m]
    BY <1>3, <2>2 DEF Visit, Commanded, DeployInv
  <2>5. ASSUME call.execute, call.action \in {"deploy", "down"}, succeeds
        PROVE  services'[n] = asked
    <3>1. effective
      BY <1>3, <2>5 DEF Visit
    <3>2. CASE call.action = "deploy"
      BY <1>3, <2>2, <3>1, <3>2, Zenon DEF Visit, Commanded, DeployInv
    <3>3. CASE call.action = "down"
      BY <1>3, <2>2, <3>1, <3>3, Zenon DEF Visit, Commanded, DeployInv
    <3> QED BY <2>5, <3>2, <3>3
  <2>6. Valid(call.inventory) /\ call.todo \subseteq call.selected /\ call.selected \subseteq Nodes
    BY <2>1 DEF DeployInv, Calls
  <2>7. /\ at \in {"failed", "done", "visit"}
        /\ at # "failed" => succeeds
        /\ at = "done" => call.todo \ {n} = {}
        /\ at = "visit" => call.todo \ {n} # {}
    BY <2>2
  <2> HIDE DEF n, at, asked
  <2>8. call' \in Calls
    BY <2>1, <2>3, <2>7, Zenon DEF Calls
  <2>9. ASSUME call.execute, call.action \in {"deploy", "down"}
        PROVE  /\ at # "failed" => VisitedInOrder(call.before[1], services', asked,
                                                  call.selected, call.todo \ {n})
               /\ at = "failed" => \E latest \in 0 .. MaxNode :
                    ReachedFrom(call.before[1], services', asked, call.selected, latest)
    <3>1. VisitedInOrder(call.before[1], services, asked, call.selected, call.todo)
      BY <2>1, <2>9 DEF DeployInv, asked
    <3>2. CASE at = "failed"
      <4>1. Min(call.todo) \in 0 .. MaxNode
            /\ ReachedFrom(call.before[1], services', asked, call.selected, Min(call.todo))
        BY <2>1, <2>4, <2>6, <3>1, VisitedIsReached, SMTT(30) DEF n
      <4> QED BY <3>2, <4>1
    <3>3. CASE at # "failed"
      BY <2>1, <2>4, <2>5, <2>6, <2>7, <2>9, <3>1, <3>3, VisitKeepsOrder, SMTT(30) DEF n
    <3> QED BY <3>2, <3>3, Zenon
  <2>10. /\ call'.at = at /\ call'.todo = call.todo \ {n} /\ call'.selected = call.selected
         /\ call'.action = call.action /\ call'.execute = call.execute
         /\ call'.inventory = call.inventory /\ call'.before = call.before
    BY <2>1, <2>3 DEF Calls
  <2>11. DeployInv
    OBVIOUS
  <2> QED BY <2>3, <2>4, <2>6, <2>7, <2>8, <2>9, <2>10, <2>11, SMTT(30) DEF DeployInv, asked
<1>4. CASE InterruptCall
  <2>1. call # NoCall /\ call \in Calls /\ call.at \in {"build", "visit"}
    BY <1>4 DEF InterruptCall, DeployInv, NoCall
  <2>2. call' = [call EXCEPT !.at = "failed"] /\ UNCHANGED <<services, built>>
    BY <1>4 DEF InterruptCall
  <2>3. call' \in Calls
    BY <2>1, <2>2 DEF Calls
  <2> HIDE DEF asked
  <2>4. ASSUME call.execute, call.action \in {"deploy", "down"}
        PROVE  \E latest \in 0 .. MaxNode :
                 ReachedFrom(call.before[1], services, asked, call.selected, latest)
    <3>1. VisitedInOrder(call.before[1], services, asked, call.selected, call.todo)
      BY <2>1, <2>4, SMTT(30) DEF DeployInv, asked
    <3>2. call.todo # {} /\ call.todo \subseteq call.selected /\ call.selected \subseteq Nodes
      BY <2>1, SMTT(30) DEF DeployInv, Calls
    <3> QED BY <3>1, <3>2, VisitedIsReached, Zenon
  <2> QED BY <2>1, <2>2, <2>3, <2>4 DEF DeployInv, Calls, asked
<1>5. CASE Exit
  BY <1>5, SMTT(30) DEF Exit, DeployInv
<1>6. CASE UNCHANGED deployVars
  BY <1>6 DEF deployVars, DeployInv
<1> QED BY <1>1, <1>2, <1>3, <1>4, <1>5, <1>6, SMTT(30) DEF DeployNext

\* main: wherever a call stops, it has worked off a prefix of the inventory.
THEOREM CallsWorkInOrder == DeploySpec => []CallIsAPrefix
<1>1. DeployInit => DeployInv
  BY Zenon DEF DeployInit, DeployInv
<1>2. DeployInv => CallIsAPrefix
  <2> SUFFICES ASSUME DeployInv, call # NoCall PROVE CallIsAPrefix
    BY SMTT(30) DEF CallIsAPrefix, NoCall
  <2>1. (\E n \in Nodes : call.inventory[n] = "invalid") => call.before = <<services, built>>
    BY DEF DeployInv, Valid
  <2>2. ASSUME call.execute, call.action \in {"deploy", "down"}, call.at = "done"
        PROVE  ReachedFrom(call.before[1], services, call.action = "deploy", call.selected,
                           MaxNode + 1)
    BY <2>2, DeployAssumption DEF DeployInv, VisitedInOrder, ReachedFrom, Nodes
  <2>3. ASSUME call.execute, call.action \in {"deploy", "down"}, call.at # "done"
        PROVE  \E latest \in 0 .. MaxNode :
          ReachedFrom(call.before[1], services, call.action = "deploy", call.selected, latest)
    <3>1. CASE call.at = "failed"
      BY <2>3, <3>1 DEF DeployInv
    <3>2. CASE call.at # "failed"
      <4>1. call.at = "visit" /\ call.todo # {} /\ call.todo \subseteq call.selected
            /\ call.selected \subseteq Nodes
        BY <2>3, <3>2, SMTT(30) DEF DeployInv, Calls
      <4> DEFINE asked == call.action = "deploy"
      <4>2. VisitedInOrder(call.before[1], services, asked, call.selected, call.todo)
        BY <2>3, <4>1 DEF DeployInv
      <4> HIDE DEF asked
      <4>3. \E latest \in 0 .. MaxNode :
              ReachedFrom(call.before[1], services, asked, call.selected, latest)
        BY <4>1, <4>2, VisitedIsReached, Zenon
      <4> QED BY <4>3 DEF asked
    <3> QED BY <3>1, <3>2, SMTT(30)
  <2> QED BY <2>1, <2>2, <2>3, SMTT(30) DEF CallIsAPrefix, ReachedFrom
<1> QED BY <1>1, <1>2, DeployInvPreserved, PTL DEF DeploySpec

-----------------------------------------------------------------------------
(* JournalFile                                                             *)

Pieces ==
  [sequence : Nat, type : {"sent", "ack"}, correlation : Correlations,
   cut : {"no", "before", "inside", "after"}]

\* Without torn lines every line is whole, and numbered by its place.
Numbered == \A n \in DOMAIN file : Whole(file[n]) /\ file[n].sequence = n

WrittenInv ==
  /\ tears \in Nat
  /\ tears = 0 => file \in Seq(Pieces) /\ good = TRUE /\ last = Len(file) /\ Numbered

\* The constructor finds the number of the last line.
LEMMA ScanFindsLast ==
  ASSUME file \in Seq(Pieces), Numbered
  PROVE  Scan = [good |-> TRUE, last |-> Len(file)]
<1>1. Len(file) \in Nat /\ DOMAIN file = 1 .. Len(file)
  OBVIOUS
<1>2. LineStarts = DOMAIN file
  BY <1>1 DEF LineStarts, Numbered
<1>3. ASSUME NEW n \in DOMAIN file PROVE Markers(n) = {n} /\ NumberAt(FirstMarker(n)) = n
  <2> DEFINE ends == {m \in n .. Len(file) : Whole(file[m])}
  <2>1. n \in ends /\ \A k \in ends : n <= k /\ k \in Nat
    BY <1>1 DEF Numbered
  <2>2. LineEnd(n) = n
    BY <2>1 DEF LineEnd
  <2>3. Markers(n) = {n}
    BY <1>1, <2>2 DEF Markers, Numbered, Whole
  <2>4. FirstMarker(n) = n
    BY <1>1, <2>3 DEF FirstMarker
  <2> QED BY <2>3, <2>4 DEF NumberAt, Numbered, Whole
<1> DEFINE lines == {n \in LineStarts : Markers(n) # {}}
           number(n) == NumberAt(FirstMarker(n))
           read == {n \in lines : \A m \in lines : m <= n => number(m) # 0}
<1>4. lines = 1 .. Len(file) /\ read = 1 .. Len(file)
  <2>1. lines = 1 .. Len(file)
    BY <1>1, <1>2, <1>3, Zenon
  <2> HIDE DEF lines
  <2>2. \A m \in lines : number(m) = m /\ m # 0
    BY <1>1, <1>3, <2>1
  <2> HIDE DEF number
  <2> QED BY <2>1, <2>2
<1> DEFINE found == IF read = {} THEN 0 ELSE number(Max(read))
<1>5. found = Len(file)
  <2>1. CASE Len(file) = 0
    BY <1>4, <2>1
  <2>2. CASE Len(file) # 0
    <3>1. Max(1 .. Len(file)) = Len(file)
      BY <1>1, <2>2 DEF Max
    <3>2. number(Len(file)) = Len(file)
      BY <1>1, <1>3, <2>2, SMTT(30)
    <3> HIDE DEF number, lines, read
    <3> QED BY <1>1, <1>4, <2>2, <3>1, <3>2
  <2> QED BY <2>1, <2>2
<1>6. (read = lines) = TRUE
  <2> HIDE DEF read, lines
  <2> QED BY <1>4, SMTT(30)
<1>7. Scan = [good |-> read = lines, last |-> found]
  BY SMTT(30) DEF Scan
<1> HIDE DEF read, lines, found
<1> QED BY <1>5, <1>6, <1>7, Zenon

\* The numbers survive any number of restarts (append, the constructor).
THEOREM NumbersSurviveRestartsAlways == JournalSpec => []NumbersSurviveRestarts
<1>1. JournalInit => WrittenInv
  BY DEF JournalInit, WrittenInv, Numbered
<1>2. WrittenInv /\ [JournalNext]_journalVars => WrittenInv'
  <2> SUFFICES ASSUME WrittenInv, [JournalNext]_journalVars PROVE WrittenInv'
    OBVIOUS
  <2>0. tears' \in Nat /\ (tears' = 0 => tears = 0)
    BY DEF WrittenInv, JournalNext, AppendRecord, TearLine, Reopen, journalVars
  <2> SUFFICES ASSUME tears' = 0, tears = 0 PROVE WrittenInv'
    BY <2>0, Zenon DEF WrittenInv
  <2>1. ASSUME NEW type \in {"sent", "ack"}, NEW c \in Correlations, AppendRecord(type, c)
        PROVE  WrittenInv'
    <3> DEFINE p == Piece(type, c, "no")
    <3>1. p \in Pieces /\ p.sequence = Len(file) + 1 /\ Whole(p)
      <4>1. last + 1 \in Nat /\ last = Len(file)
        BY DEF WrittenInv
      <4> QED BY <4>1 DEF Piece, Pieces, Whole
    <3>2. file' = Append(file, p) /\ last' = last + 1 /\ good' = good
      BY <2>1 DEF AppendRecord
    <3> HIDE DEF p
    <3>3. /\ file' \in Seq(Pieces) /\ Len(file') = Len(file) + 1
          /\ \A n \in 1 .. Len(file) : file'[n] = file[n]
          /\ file'[Len(file) + 1] = p
      BY <3>1, <3>2 DEF WrittenInv
    <3>4. Numbered'
      BY <3>1, <3>3 DEF WrittenInv, Numbered
    <3> QED BY <3>2, <3>3, <3>4, SMTT(30) DEF WrittenInv
  <2>2. ASSUME NEW type, NEW c, NEW cut, TearLine(type, c, cut)
        PROVE  FALSE
    BY <2>2 DEF TearLine
  <2>3. CASE Reopen
    <3>1. good' = TRUE /\ last' = Len(file) /\ file' = file
      BY <2>3, ScanFindsLast, SMTT(30) DEF Reopen, WrittenInv
    <3> QED BY <3>1 DEF WrittenInv, Numbered
  <2>4. CASE UNCHANGED journalVars
    BY <2>4 DEF journalVars, WrittenInv, Numbered
  <2> QED BY <2>1, <2>2, <2>3, <2>4, SMTT(30) DEF JournalNext
<1>3. WrittenInv => NumbersSurviveRestarts
  BY DEF WrittenInv, NumbersSurviveRestarts, Numbered
<1> QED BY <1>1, <1>2, <1>3, PTL DEF JournalSpec

=============================================================================
