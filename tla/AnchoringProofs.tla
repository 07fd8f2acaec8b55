-------------------------- MODULE AnchoringProofs --------------------------
(***************************************************************************)
(* The analytics chain for every set of accounts, roots and payloads: type *)
(* correctness, agreement of its views, statistics and logs, and the       *)
(* write-once registry.                                                    *)
(***************************************************************************)
EXTENDS AnchoringProperties, TLAPS

-----------------------------------------------------------------------------
(* What a step can do.                                                     *)

\* An anchoring that passed every check.
Anchors(sender, payload) ==
    /\ authorizedSubmitters[sender]
    /\ payload.merkleRoot # ZeroRoot
    /\ ~IsAnchored(payload.merkleRoot)
    /\ Store(sender, payload)
    /\ Emit(AnchoredLog(sender, payload))
    /\ result' = "Ok"
    /\ UNCHANGED <<authorizedSubmitters, owner, blockNumber>>

\* A change of owner that passed every check.
Transfers(newOwner) ==
    /\ owner' = newOwner
    /\ result' = "Ok"
    /\ UNCHANGED <<anchorings, merkleRoots, totalAnchorings,
                   authorizedSubmitters, emitted, blockNumber>>

\* Every step is one of six kinds, of which only two write more than the
\* owner, the block number or the result.
LEMMA StepKinds ==
    ASSUME [Next]_vars
    PROVE  \/ \E sender \in Account, payload \in PayloadInputs :
                  Anchors(sender, payload)
           \/ \E submitter \in Address, authorized \in BOOLEAN :
                  SetAuthorization(submitter, authorized)
           \/ \E newOwner \in Account : Transfers(newOwner)
           \/ \E reason \in Reasons : Revert(reason)
           \/ MineBlock
           \/ UNCHANGED vars
<1>1. ASSUME NEW sender \in Account, NEW payload \in PayloadInputs,
             AnchorReconciliation(sender, payload)
      PROVE  Anchors(sender, payload) \/ \E reason \in Reasons : Revert(reason)
  <2>1. CASE AnchorVerdict(sender, payload) # "Ok"
    <3>1. AnchorVerdict(sender, payload) \in Reasons
      BY <2>1 DEF AnchorVerdict, Reasons, AnchorReasons
    <3>2. Revert(AnchorVerdict(sender, payload))
      BY <1>1, <2>1 DEF AnchorReconciliation
    <3> QED BY <3>1, <3>2
  <2>2. CASE AnchorVerdict(sender, payload) = "Ok"
    BY <1>1, <2>2 DEF AnchorReconciliation, AnchorVerdict, Anchors
  <2> QED BY <2>1, <2>2
<1>2. ASSUME NEW sender \in Account, NEW submitter \in Address,
             \/ AuthorizeSubmitter(sender, submitter)
             \/ RevokeSubmitter(sender, submitter)
      PROVE  \/ \E authorized \in BOOLEAN :
                    SetAuthorization(submitter, authorized)
             \/ \E reason \in Reasons : Revert(reason)
  BY <1>2 DEF AuthorizeSubmitter, RevokeSubmitter, Reasons
<1>3. ASSUME NEW sender \in Account, NEW newOwner \in Address,
             TransferOwnership(sender, newOwner)
      PROVE  \/ newOwner \in Account /\ Transfers(newOwner)
             \/ \E reason \in Reasons : Revert(reason)
  <2>1. CASE TransferVerdict(sender, newOwner) # "Ok"
    <3>1. TransferVerdict(sender, newOwner) \in Reasons
      BY <2>1 DEF TransferVerdict, Reasons
    <3>2. Revert(TransferVerdict(sender, newOwner))
      BY <1>3, <2>1 DEF TransferOwnership
    <3> QED BY <3>1, <3>2
  <2>2. CASE TransferVerdict(sender, newOwner) = "Ok"
    <3>1. newOwner \in Account
      BY <2>2 DEF TransferVerdict, Account, OwnerReason
    <3>2. Transfers(newOwner)
      BY <1>3, <2>2 DEF TransferOwnership, Transfers
    <3> QED BY <3>1, <3>2
  <2> QED BY <2>1, <2>2
<1> QED BY <1>1, <1>2, <1>3 DEF Next

-----------------------------------------------------------------------------
(* Type correctness.                                                       *)

\* The constructor leaves well-typed state.
LEMMA InitTypeOK == Init => TypeOK
<1> SUFFICES ASSUME Init PROVE TypeOK
  OBVIOUS
<1> USE ContractAssumption
<1>1. EmptyRecord \in AnchoringRecord
  BY DEF EmptyRecord, AnchoringRecord, ChainId
<1>2. anchorings \in [Bytes32 -> AnchoringRecord]
  BY <1>1 DEF Init
<1>3. authorizedSubmitters \in [Address -> BOOLEAN]
  BY DEF Init
<1> QED BY <1>2, <1>3 DEF Init, TypeOK

\* A submitted payload yields a record and a log of the declared types.
LEMMA AnchoringTypes ==
    ASSUME TypeOK, NEW sender \in Account, NEW payload \in PayloadInputs
    PROVE  /\ NewRecord(sender, payload) \in AnchoringRecord
           /\ NewRecord(sender, payload).merkleRoot = payload.merkleRoot
           /\ payload.merkleRoot \in Bytes32
           /\ AnchoredLog(sender, payload) \in Log
<1>1. payload \in ReconciliationPayload /\ sender \in Address
  BY ContractAssumption DEF Account
<1>2. NewRecord(sender, payload) \in AnchoringRecord
  BY <1>1 DEF NewRecord, AnchoringRecord, ReconciliationPayload, TypeOK
<1>3. AnchoredLog(sender, payload) \in Log
  BY <1>1 DEF AnchoredLog, Log
<1> QED BY <1>1, <1>2, <1>3 DEF NewRecord, ReconciliationPayload

\* Every step keeps the types, the owner's among them.
LEMMA NextTypeOK == TypeOK /\ [Next]_vars => TypeOK'
<1> SUFFICES ASSUME TypeOK, [Next]_vars PROVE TypeOK'
  OBVIOUS
<1>1. ASSUME NEW sender \in Account, NEW payload \in PayloadInputs,
             Anchors(sender, payload)
      PROVE  TypeOK'
  <2>1. anchorings' \in [Bytes32 -> AnchoringRecord]
    BY <1>1, AnchoringTypes DEF Anchors, Store, TypeOK
  <2>2. merkleRoots' \in Seq(Bytes32)
    BY <1>1, AnchoringTypes DEF Anchors, Store, TypeOK
  <2>3. emitted' \in Seq(Log)
    BY <1>1, AnchoringTypes DEF Anchors, Emit, TypeOK
  <2>4. totalAnchorings' \in Nat
    BY <1>1 DEF Anchors, Store, TypeOK
  <2> QED BY <1>1, <2>1, <2>2, <2>3, <2>4 DEF Anchors, TypeOK
<1>2. ASSUME NEW submitter \in Address, NEW authorized \in BOOLEAN,
             SetAuthorization(submitter, authorized)
      PROVE  TypeOK'
  <2>1. authorizedSubmitters' \in [Address -> BOOLEAN]
    BY <1>2 DEF SetAuthorization, TypeOK
  <2>2. emitted' \in Seq(Log)
    BY <1>2 DEF SetAuthorization, Emit, TypeOK, Log
  <2> QED BY <1>2, <2>1, <2>2 DEF SetAuthorization, TypeOK
<1>3. ASSUME NEW newOwner \in Account, Transfers(newOwner)
      PROVE  TypeOK'
  BY <1>3 DEF Transfers, TypeOK
<1>4. ASSUME NEW reason \in Reasons, Revert(reason)
      PROVE  TypeOK'
  BY <1>4 DEF Revert, TypeOK, storage
<1>5. CASE MineBlock
  BY <1>5 DEF MineBlock, TypeOK, storage
<1>6. CASE UNCHANGED vars
  BY <1>6 DEF vars, TypeOK, storage
<1> QED BY <1>1, <1>2, <1>3, <1>4, <1>5, <1>6, StepKinds

\* The contract's state is well typed, and the owner never the zero address.
THEOREM TypeCorrect == Spec => []TypeOK
<1> QED BY InitTypeOK, NextTypeOK, PTL DEF Spec

-----------------------------------------------------------------------------
(* The records and their enumeration.                                      *)

\* Only an anchoring disturbs the three parts, and it adds to each of them
\* the root that its last check found absent.
LEMMA NextEnumeration ==
    TypeOK /\ EnumerationConsistent /\ [Next]_vars => EnumerationConsistent'
<1> SUFFICES ASSUME TypeOK, EnumerationConsistent, [Next]_vars
             PROVE  EnumerationConsistent'
  OBVIOUS
<1>1. ASSUME NEW sender \in Account, NEW payload \in PayloadInputs,
             Anchors(sender, payload)
      PROVE  EnumerationConsistent'
  <2> DEFINE root == payload.merkleRoot
  <2>1. /\ root \in Bytes32 /\ root # ZeroRoot /\ root \notin Anchored
        /\ anchorings' =
               [anchorings EXCEPT ![root] = NewRecord(sender, payload)]
        /\ merkleRoots' = Append(merkleRoots, root)
        /\ totalAnchorings' = totalAnchorings + 1
        /\ NewRecord(sender, payload).merkleRoot = root
    BY <1>1, AnchoringTypes DEF Anchors, Store, Anchored
  <2>2. Anchored' = Anchored \cup {root}
    BY <2>1 DEF Anchored, IsAnchored, TypeOK
  <2>3. \A r \in Anchored' : anchorings'[r].merkleRoot = r
    BY <2>1, <2>2 DEF EnumerationConsistent, Anchored, TypeOK
  <2>4. /\ DOMAIN merkleRoots' = 1 .. Len(merkleRoots) + 1
        /\ \A i \in DOMAIN merkleRoots : merkleRoots'[i] = merkleRoots[i]
        /\ DOMAIN merkleRoots = 1 .. Len(merkleRoots)
        /\ Len(merkleRoots) \in Nat
        /\ merkleRoots'[Len(merkleRoots) + 1] = root
        /\ Len(merkleRoots') = Len(merkleRoots) + 1
    BY <2>1 DEF TypeOK
  <2>5. \A i \in DOMAIN merkleRoots : merkleRoots[i] \in Anchored
    BY DEF EnumerationConsistent
  <2>6. \A i, j \in DOMAIN merkleRoots' :
            merkleRoots'[i] = merkleRoots'[j] => i = j
    <3> SUFFICES ASSUME NEW i \in DOMAIN merkleRoots',
                        NEW j \in DOMAIN merkleRoots',
                        merkleRoots'[i] = merkleRoots'[j]
                 PROVE  i = j
      OBVIOUS
    <3>1. /\ i \in DOMAIN merkleRoots \/ i = Len(merkleRoots) + 1
          /\ j \in DOMAIN merkleRoots \/ j = Len(merkleRoots) + 1
      BY <2>4
    <3> QED BY <2>1, <2>4, <2>5, <3>1 DEF EnumerationConsistent
  <2>7. {merkleRoots'[i] : i \in DOMAIN merkleRoots'} = Anchored'
    <3>1. DOMAIN merkleRoots' = DOMAIN merkleRoots \cup {Len(merkleRoots) + 1}
      BY <2>4
    <3>2. {merkleRoots'[i] : i \in DOMAIN merkleRoots'}
              = {merkleRoots[i] : i \in DOMAIN merkleRoots} \cup {root}
      BY <2>4, <3>1
    <3> QED BY <2>2, <3>2 DEF EnumerationConsistent
  <2>8. totalAnchorings' = Len(merkleRoots')
    BY <2>1, <2>4 DEF EnumerationConsistent
  <2> QED BY <2>3, <2>6, <2>7, <2>8 DEF EnumerationConsistent
<1>2. CASE UNCHANGED <<anchorings, merkleRoots, totalAnchorings>>
  BY <1>2 DEF EnumerationConsistent, Anchored, IsAnchored
<1> QED
  BY <1>1, <1>2, StepKinds
     DEF SetAuthorization, Transfers, Revert, MineBlock, vars, storage

\* Nothing is anchored when the contract is created.
LEMMA InitEnumeration == Init => Anchored = {} /\ EnumerationConsistent
<1> SUFFICES ASSUME Init PROVE Anchored = {} /\ EnumerationConsistent
  OBVIOUS
<1>1. Anchored = {}
  BY DEF Init, Anchored, IsAnchored, EmptyRecord
<1>2. merkleRoots = <<>> /\ totalAnchorings = 0
  BY DEF Init
<1>3. DOMAIN merkleRoots = {} /\ Len(merkleRoots) = 0
  BY <1>2
<1> QED BY <1>1, <1>2, <1>3 DEF EnumerationConsistent

\* Records, enumeration and total agree in every state.
THEOREM EnumerationIsConsistent == Spec => []EnumerationConsistent
<1> QED
  BY InitEnumeration, NextEnumeration, TypeCorrect, PTL DEF Spec

\* The anchored records form a write-once registry: each step adds at most
\* one record, under a fresh root, and changes none.
THEOREM AnchoringsWrittenOnce == Spec => AnchoringsAreWriteOnce
<1>1. Init => Registry!Init
  BY InitEnumeration DEF Registry!Init, Registry!EmptyMap
<1>2. TypeOK /\ [Next]_vars
        => [Registry!Register]_([r \in Anchored |-> anchorings[r]])
  <2> SUFFICES ASSUME TypeOK, [Next]_vars
               PROVE  [Registry!Register]_([r \in Anchored |-> anchorings[r]])
    OBVIOUS
  <2>1. ASSUME NEW sender \in Account, NEW payload \in PayloadInputs,
               Anchors(sender, payload)
        PROVE  Registry!Register
    <3> DEFINE root == payload.merkleRoot
    <3>1. /\ root \in Bytes32 /\ root # ZeroRoot /\ root \notin Anchored
          /\ anchorings' = [anchorings EXCEPT ![root] = NewRecord(sender, payload)]
          /\ NewRecord(sender, payload).merkleRoot = root
      BY <2>1, AnchoringTypes DEF Anchors, Store, Anchored
    <3>2. Anchored' = Anchored \cup {root}
      BY <3>1 DEF Anchored, IsAnchored, TypeOK
    <3>3. \A r \in Anchored : anchorings'[r] = anchorings[r]
      BY <3>1 DEF Anchored, TypeOK
    <3> QED BY <3>1, <3>2, <3>3 DEF Registry!Register, Registry!Put
  <2>2. CASE UNCHANGED anchorings
    BY <2>2 DEF Anchored, IsAnchored
  <2> QED
    BY <2>1, <2>2, StepKinds
       DEF SetAuthorization, Transfers, Revert, MineBlock, vars, storage
<1> QED
  BY <1>1, <1>2, TypeCorrect, PTL DEF Spec, AnchoringsAreWriteOnce, Registry!Spec

-----------------------------------------------------------------------------
(* The logs and the authorizations.                                        *)

\* The log tells who is authorized, the deployer aside: the invariant that
\* makes the history of an anchoring agree with the modifier's check.
AuthorizationLogged ==
    \A a \in Address :
        authorizedSubmitters[a] <=> AuthorizedAfter(emitted, a, Len(emitted))

\* A new log is the last change of the account it names, if it names one, and
\* leaves every earlier change where it was.
LEMMA ChangesAfterAppend ==
    ASSUME TypeOK, NEW log, emitted' = Append(emitted, log),
           NEW N, N = Len(emitted), NEW a
    PROVE  /\ N \in Nat /\ Len(emitted') = N + 1
           /\ \A n \in 1 .. N : emitted'[n] = emitted[n]
           /\ DOMAIN emitted = 1 .. N /\ DOMAIN emitted' = 1 .. N + 1
           /\ emitted'[N + 1] = log
           /\ \A n \in 0 .. N : Changes(emitted', a, n) = Changes(emitted, a, n)
           /\ log.kind = "SubmitterAuthorizationChanged" /\ log.submitter = a
                => Changes(emitted', a, N + 1) = Changes(emitted, a, N) \cup {N + 1}
           /\ ~(log.kind = "SubmitterAuthorizationChanged" /\ log.submitter = a)
                => Changes(emitted', a, N + 1) = Changes(emitted, a, N)
<1>1. /\ N \in Nat /\ Len(emitted') = N + 1
      /\ \A n \in 1 .. N : emitted'[n] = emitted[n]
      /\ DOMAIN emitted = 1 .. N /\ DOMAIN emitted' = 1 .. N + 1
      /\ emitted'[N + 1] = log
  BY DEF TypeOK
<1>2. \A n \in 0 .. N : Changes(emitted', a, n) = Changes(emitted, a, n)
  BY <1>1 DEF Changes, Logs
<1>3. log.kind = "SubmitterAuthorizationChanged" /\ log.submitter = a
        => Changes(emitted', a, N + 1) = Changes(emitted, a, N) \cup {N + 1}
  BY <1>1 DEF Changes, Logs
<1>4. ~(log.kind = "SubmitterAuthorizationChanged" /\ log.submitter = a)
        => Changes(emitted', a, N + 1) = Changes(emitted, a, N)
  BY <1>1 DEF Changes, Logs
<1> QED BY <1>1, <1>2, <1>3, <1>4

\* What the log said of an account at an earlier point, it says for good.
LEMMA AuthorizedAfterAppend ==
    ASSUME TypeOK, NEW log, emitted' = Append(emitted, log),
           NEW N, N = Len(emitted), NEW a
    PROVE  /\ \A n \in 0 .. N : AuthorizedAfter(emitted', a, n) <=> AuthorizedAfter(emitted, a, n)
           /\ ~(log.kind = "SubmitterAuthorizationChanged" /\ log.submitter = a)
                => (AuthorizedAfter(emitted', a, N + 1) <=> AuthorizedAfter(emitted, a, N))
           /\ log.kind = "SubmitterAuthorizationChanged" /\ log.submitter = a
                => (AuthorizedAfter(emitted', a, N + 1) <=> log.authorized)
<1>0. \A n : Changes(emitted, a, n) \subseteq DOMAIN emitted
  BY DEF Changes, Logs
<1>1. \A n \in 0 .. N : AuthorizedAfter(emitted', a, n) <=> AuthorizedAfter(emitted, a, n)
  <2> SUFFICES ASSUME NEW n \in 0 .. N
               PROVE  AuthorizedAfter(emitted', a, n) <=> AuthorizedAfter(emitted, a, n)
    OBVIOUS
  <2>1. Changes(emitted', a, n) = Changes(emitted, a, n)
    BY ChangesAfterAppend
  <2>2. \A i \in Changes(emitted, a, n) : emitted'[i] = emitted[i]
    BY ChangesAfterAppend, <1>0
  <2> QED BY <2>1, <2>2 DEF AuthorizedAfter
<1>2. ~(log.kind = "SubmitterAuthorizationChanged" /\ log.submitter = a)
        => (AuthorizedAfter(emitted', a, N + 1) <=> AuthorizedAfter(emitted, a, N))
  BY ChangesAfterAppend, <1>0 DEF AuthorizedAfter
<1>3. log.kind = "SubmitterAuthorizationChanged" /\ log.submitter = a
        => (AuthorizedAfter(emitted', a, N + 1) <=> log.authorized)
  <2> SUFFICES ASSUME log.kind = "SubmitterAuthorizationChanged",
                      log.submitter = a
               PROVE  AuthorizedAfter(emitted', a, N + 1) <=> log.authorized
    OBVIOUS
  <2>1. Changes(emitted', a, N + 1) = Changes(emitted, a, N) \cup {N + 1}
    BY ChangesAfterAppend
  <2>2. \A i \in Changes(emitted, a, N) : i \in 1 .. N
    BY <1>0, ChangesAfterAppend
  <2>3. N \in Nat /\ emitted'[N + 1] = log
    BY ChangesAfterAppend
  <2>4. \A i \in Changes(emitted', a, N + 1) : i <= N + 1
    BY <2>1, <2>2, <2>3
  <2>5. \A last \in Changes(emitted', a, N + 1) :
            (\A i \in Changes(emitted', a, N + 1) : i <= last) => last = N + 1
    BY <2>1, <2>2, <2>3
  <2> QED BY <2>1, <2>3, <2>4, <2>5 DEF AuthorizedAfter
<1> QED BY <1>1, <1>2, <1>3

\* The two parts are kept together: the mapping changes when the log says so,
\* and an anchoring is logged when the mapping allows it.
LEMMA NextAuthorization ==
    TypeOK /\ AuthorizationLogged /\ SubmittersWereAuthorized /\ [Next]_vars
        => AuthorizationLogged' /\ SubmittersWereAuthorized'
<1> SUFFICES ASSUME TypeOK, AuthorizationLogged, SubmittersWereAuthorized,
                    [Next]_vars
             PROVE  AuthorizationLogged' /\ SubmittersWereAuthorized'
  OBVIOUS
<1> DEFINE N == Len(emitted)
<1>1. ASSUME NEW sender \in Account, NEW payload \in PayloadInputs,
             Anchors(sender, payload)
      PROVE  AuthorizationLogged' /\ SubmittersWereAuthorized'
  <2> DEFINE log == AnchoredLog(sender, payload)
  <2>1. /\ emitted' = Append(emitted, log)
        /\ log.kind = "ReconciliationAnchored" /\ log.submitter = sender
        /\ UNCHANGED authorizedSubmitters
        /\ sender \in Address /\ authorizedSubmitters[sender]
    BY <1>1 DEF Anchors, Emit, AnchoredLog, Account
  <2> HIDE DEF log
  <2>2. PICK M : M = Len(emitted)
    OBVIOUS
  <2>3. /\ M \in Nat /\ Len(emitted') = M + 1
        /\ DOMAIN emitted = 1 .. M /\ DOMAIN emitted' = 1 .. M + 1
        /\ \A n \in 1 .. M : emitted'[n] = emitted[n]
        /\ emitted'[M + 1] = log
    BY <2>1, <2>2, ChangesAfterAppend
  <2>4. \A a : /\ \A n \in 0 .. M : AuthorizedAfter(emitted', a, n) <=> AuthorizedAfter(emitted, a, n)
               /\ AuthorizedAfter(emitted', a, M + 1) <=> AuthorizedAfter(emitted, a, M)
    BY <2>1, <2>2, AuthorizedAfterAppend
  <2>5. \A a \in Address : authorizedSubmitters'[a] <=> AuthorizedAfter(emitted', a, M + 1)
    BY <2>1, <2>2, <2>4 DEF AuthorizationLogged
  <2>6. AuthorizationLogged'
    BY <2>3, <2>5 DEF AuthorizationLogged
  <2>7. ASSUME NEW n \in Logs("ReconciliationAnchored")'
        PROVE  AuthorizedAfter(emitted', emitted'[n].submitter, n)
    <3>1. CASE n = M + 1
      <4>1. AuthorizedAfter(emitted', sender, M + 1)
        BY <2>1, <2>5
      <4> QED BY <2>1, <2>3, <3>1, <4>1
    <3>2. CASE n \in 1 .. M
      <4>1. n \in Logs("ReconciliationAnchored") /\ emitted'[n] = emitted[n]
        BY <2>3, <3>2 DEF Logs
      <4>2. AuthorizedAfter(emitted, emitted[n].submitter, n)
        BY <4>1 DEF SubmittersWereAuthorized
      <4> QED BY <2>4, <3>2, <4>1, <4>2
    <3> QED BY <2>3, <3>1, <3>2 DEF Logs
  <2> QED BY <2>6, <2>7 DEF SubmittersWereAuthorized
<1>2. ASSUME NEW submitter \in Address, NEW authorized \in BOOLEAN,
             SetAuthorization(submitter, authorized)
      PROVE  AuthorizationLogged' /\ SubmittersWereAuthorized'
  <2> DEFINE log == [kind |-> "SubmitterAuthorizationChanged",
                     submitter |-> submitter, authorized |-> authorized]
  <2>1. /\ emitted' = Append(emitted, log)
        /\ log.kind = "SubmitterAuthorizationChanged"
        /\ log.submitter = submitter /\ log.authorized = authorized
        /\ authorizedSubmitters' =
               [authorizedSubmitters EXCEPT ![submitter] = authorized]
    BY <1>2 DEF SetAuthorization, Emit
  <2> HIDE DEF log
  <2>2. PICK M : M = Len(emitted)
    OBVIOUS
  <2>3. /\ M \in Nat /\ Len(emitted') = M + 1
        /\ DOMAIN emitted = 1 .. M /\ DOMAIN emitted' = 1 .. M + 1
        /\ \A n \in 1 .. M : emitted'[n] = emitted[n]
        /\ emitted'[M + 1] = log
    BY <2>1, <2>2, ChangesAfterAppend
  <2>4. \A a : /\ \A n \in 0 .. M : AuthorizedAfter(emitted', a, n) <=> AuthorizedAfter(emitted, a, n)
               /\ a # submitter =>
                      (AuthorizedAfter(emitted', a, M + 1) <=> AuthorizedAfter(emitted, a, M))
               /\ a = submitter => (AuthorizedAfter(emitted', a, M + 1) <=> authorized)
    BY <2>1, <2>2, AuthorizedAfterAppend
  <2>5. \A a \in Address : authorizedSubmitters'[a] <=> AuthorizedAfter(emitted', a, M + 1)
    <3>1. authorizedSubmitters'[submitter] = authorized
      BY <2>1 DEF TypeOK
    <3>2. \A a \in Address : a # submitter
              => authorizedSubmitters'[a] = authorizedSubmitters[a]
      BY <2>1 DEF TypeOK
    <3> QED BY <2>2, <2>4, <3>1, <3>2 DEF AuthorizationLogged
  <2>6. AuthorizationLogged'
    BY <2>3, <2>5 DEF AuthorizationLogged
  <2>7. ASSUME NEW n \in Logs("ReconciliationAnchored")'
        PROVE  AuthorizedAfter(emitted', emitted'[n].submitter, n)
    <3>1. n \in 1 .. M
      BY <2>1, <2>3 DEF Logs
    <3>2. n \in Logs("ReconciliationAnchored") /\ emitted'[n] = emitted[n]
      BY <2>3, <3>1 DEF Logs
    <3>3. AuthorizedAfter(emitted, emitted[n].submitter, n)
      BY <3>2 DEF SubmittersWereAuthorized
    <3>4. PICK a : a = emitted[n].submitter /\ a = emitted'[n].submitter
      BY <3>2
    <3>5. AuthorizedAfter(emitted', a, n)
      BY <2>3, <2>4, <3>1, <3>3, <3>4
    <3> QED BY <3>4, <3>5
  <2> QED BY <2>6, <2>7 DEF SubmittersWereAuthorized
<1>3. CASE UNCHANGED <<authorizedSubmitters, emitted>>
  BY <1>3 DEF AuthorizationLogged, SubmittersWereAuthorized, AuthorizedAfter,
              Changes, Logs
<1> QED
  BY <1>1, <1>2, <1>3, StepKinds DEF Transfers, Revert, MineBlock, vars, storage

\* With no log yet, the deployer alone is authorized.
LEMMA InitAuthorization == Init => AuthorizationLogged /\ SubmittersWereAuthorized
<1> SUFFICES ASSUME Init PROVE AuthorizationLogged /\ SubmittersWereAuthorized
  OBVIOUS
<1>1. emitted = <<>> /\ \A a \in Address : authorizedSubmitters[a] <=> a = Deployer
  BY DEF Init
<1>2. DOMAIN emitted = {}
  BY <1>1
<1>3. \A a, n : Changes(emitted, a, n) = {}
  BY <1>2 DEF Changes, Logs
<1> QED
  BY <1>1, <1>2, <1>3
     DEF AuthorizationLogged, SubmittersWereAuthorized, AuthorizedAfter, Logs

\* Every anchoring came from an account that the log, up to there, shows as
\* authorized: revocation takes effect at once and for good.
THEOREM SubmittersAuthorized == Spec => []SubmittersWereAuthorized
<1>1. Init => TypeOK /\ AuthorizationLogged /\ SubmittersWereAuthorized
  BY InitTypeOK, InitAuthorization
<1>2. /\ TypeOK /\ AuthorizationLogged /\ SubmittersWereAuthorized
      /\ [Next]_vars
      => (TypeOK /\ AuthorizationLogged /\ SubmittersWereAuthorized)'
  BY NextTypeOK, NextAuthorization
<1> QED BY <1>1, <1>2, PTL DEF Spec

-----------------------------------------------------------------------------
(* The statistics.                                                         *)

\* No record is from a block to come, and the array is in the order of the
\* blocks: with the enumeration, that makes its last element the latest.
Chronological ==
    /\ \A r \in Anchored : anchorings[r].anchorBlock <= blockNumber
    /\ \A i, j \in DOMAIN merkleRoots :
          i <= j => anchorings[merkleRoots[i]].anchorBlock
                       <= anchorings[merkleRoots[j]].anchorBlock

\* An anchoring appends a record of the current block; blocks only grow.
LEMMA NextChronological ==
    ASSUME TypeOK, EnumerationConsistent, Chronological, [Next]_vars
    PROVE  Chronological'
<1>1. ASSUME NEW sender \in Account, NEW payload \in PayloadInputs,
             Anchors(sender, payload)
      PROVE  Chronological'
  <2> DEFINE root == payload.merkleRoot
  <2>1. /\ root \in Bytes32 /\ root # ZeroRoot /\ root \notin Anchored
        /\ anchorings' =
               [anchorings EXCEPT ![root] = NewRecord(sender, payload)]
        /\ merkleRoots' = Append(merkleRoots, root)
        /\ NewRecord(sender, payload).merkleRoot = root
        /\ NewRecord(sender, payload).anchorBlock = blockNumber
        /\ blockNumber' = blockNumber
    BY <1>1, AnchoringTypes DEF Anchors, Store, Anchored, NewRecord
  <2>2. Anchored' = Anchored \cup {root}
    BY <2>1 DEF Anchored, IsAnchored, TypeOK
  <2>3. /\ anchorings'[root].anchorBlock = blockNumber
        /\ \A r \in Anchored : anchorings'[r] = anchorings[r]
    BY <2>1 DEF Anchored, TypeOK
  <2>4. blockNumber \in Nat
    BY DEF TypeOK
  <2>5. \A r \in Anchored' : anchorings'[r].anchorBlock <= blockNumber'
    BY <2>1, <2>2, <2>3, <2>4 DEF Chronological
  <2>6. PICK N : N = Len(merkleRoots)
    OBVIOUS
  <2>7. /\ DOMAIN merkleRoots' = 1 .. N + 1 /\ DOMAIN merkleRoots = 1 .. N
        /\ N \in Nat
        /\ \A i \in 1 .. N : merkleRoots'[i] = merkleRoots[i]
        /\ merkleRoots'[N + 1] = root
    BY <2>1, <2>6 DEF TypeOK
  <2>8. \A i \in 1 .. N : merkleRoots[i] \in Anchored
    BY <2>7 DEF EnumerationConsistent
  <2>9. ASSUME NEW i \in 1 .. N + 1, NEW j \in 1 .. N + 1, i <= j
        PROVE  anchorings'[merkleRoots'[i]].anchorBlock
                  <= anchorings'[merkleRoots'[j]].anchorBlock
    <3>1. CASE j \in 1 .. N
      <4>1. i \in 1 .. N
        BY <2>7, <2>9, <3>1
      <4>2. anchorings[merkleRoots[i]].anchorBlock
               <= anchorings[merkleRoots[j]].anchorBlock
        BY <2>7, <2>9, <3>1, <4>1 DEF Chronological
      <4> QED BY <2>3, <2>7, <2>8, <3>1, <4>1, <4>2
    <3>2. CASE j = N + 1 /\ i \in 1 .. N
      <4>1. anchorings[merkleRoots[i]].anchorBlock <= blockNumber
        BY <2>8, <3>2 DEF Chronological
      <4> QED BY <2>3, <2>7, <2>8, <3>2, <4>1
    <3>3. CASE j = N + 1 /\ i = N + 1
      BY <2>3, <2>4, <2>7, <3>3
    <3> QED BY <2>7, <3>1, <3>2, <3>3
  <2> QED BY <2>5, <2>7, <2>9 DEF Chronological
<1>2. CASE MineBlock
  BY <1>2 DEF MineBlock, storage, Chronological, Anchored, IsAnchored, TypeOK,
              AnchoringRecord
<1>3. CASE UNCHANGED <<anchorings, merkleRoots, blockNumber>>
  BY <1>3 DEF Chronological, Anchored, IsAnchored
<1> QED
  BY <1>1, <1>2, <1>3, StepKinds
     DEF SetAuthorization, Transfers, Revert, vars, storage

\* getStatistics reports the latest anchoring, although the array is all it
\* looks at and the timestamps are the submitters'.
THEOREM StatisticsAreLatest == Spec => []StatisticsReportLatest
<1>1. Init => Chronological
  <2>1. ASSUME Init PROVE Anchored = {} /\ DOMAIN merkleRoots = {}
    <3>1. merkleRoots = <<>>
      BY <2>1 DEF Init
    <3> QED BY <2>1, <3>1, InitEnumeration
  <2> QED BY <2>1 DEF Chronological
<1>2. TypeOK /\ EnumerationConsistent /\ Chronological /\ [Next]_vars
        => Chronological'
  BY NextChronological
<1>3. TypeOK /\ EnumerationConsistent /\ Chronological
        => StatisticsReportLatest
  <2> SUFFICES ASSUME TypeOK, EnumerationConsistent, Chronological
               PROVE  StatisticsReportLatest
    OBVIOUS
  <2>1. ASSUME merkleRoots # <<>>
        PROVE  /\ GetStatistics.latestRoot \in Anchored
               /\ GetStatistics.latestTimestamp
                     = anchorings[GetStatistics.latestRoot].timestamp
               /\ \A r \in Anchored :
                     anchorings[r].anchorBlock
                       <= anchorings[GetStatistics.latestRoot].anchorBlock
    <3>1. PICK N : N = Len(merkleRoots)
      OBVIOUS
    <3>2. N \in Nat /\ N > 0 /\ DOMAIN merkleRoots = 1 .. N
      BY <2>1, <3>1 DEF TypeOK
    <3>3. /\ GetStatistics.latestRoot = merkleRoots[N]
          /\ GetStatistics.latestTimestamp = anchorings[merkleRoots[N]].timestamp
      BY <2>1, <3>1 DEF GetStatistics
    <3>4. merkleRoots[N] \in Anchored
      BY <3>2 DEF EnumerationConsistent
    <3>5. ASSUME NEW r \in Anchored
          PROVE  anchorings[r].anchorBlock <= anchorings[merkleRoots[N]].anchorBlock
      <4>1. PICK i \in DOMAIN merkleRoots : r = merkleRoots[i]
        BY DEF EnumerationConsistent
      <4>2. i <= N /\ N \in DOMAIN merkleRoots
        BY <3>2
      <4> QED BY <4>1, <4>2 DEF Chronological
    <3> QED BY <3>3, <3>4, <3>5
  <2> QED BY <2>1 DEF StatisticsReportLatest, Chronological
<1> QED
  BY <1>1, <1>2, <1>3, TypeCorrect, EnumerationIsConsistent, PTL DEF Spec

-----------------------------------------------------------------------------
(* The logs.                                                               *)

\* An anchoring is the only step that adds an anchoring log or a record, and
\* it adds both, with the same contents.
LEMMA NextLogsRebuild ==
    ASSUME TypeOK, LogsRebuildRecords, [Next]_vars
    PROVE  LogsRebuildRecords'
<1>1. ASSUME NEW sender \in Account, NEW payload \in PayloadInputs,
             Anchors(sender, payload)
      PROVE  LogsRebuildRecords'
  <2> DEFINE root == payload.merkleRoot
             log == AnchoredLog(sender, payload)
             record == NewRecord(sender, payload)
             A == Logs("ReconciliationAnchored")
  <2>1. /\ root \in Bytes32 /\ root # ZeroRoot /\ root \notin Anchored
        /\ anchorings' = [anchorings EXCEPT ![root] = record]
        /\ record.merkleRoot = root
        /\ emitted' = Append(emitted, log)
    BY <1>1, AnchoringTypes DEF Anchors, Store, Emit, Anchored
  <2>2. /\ log.kind = "ReconciliationAnchored" /\ log.payload = payload
        /\ log.submitter = sender /\ record.submitter = sender
        /\ \A field \in DOMAIN payload : payload[field] = record[field]
    <3>1. payload \in ReconciliationPayload
      BY ContractAssumption
    <3> QED BY <3>1 DEF AnchoredLog, NewRecord, ReconciliationPayload
  <2>3. PICK N : N = Len(emitted)
    OBVIOUS
  <2> HIDE DEF log, record
  <2>4. /\ N \in Nat
        /\ DOMAIN emitted = 1 .. N /\ DOMAIN emitted' = 1 .. N + 1
        /\ \A n \in 1 .. N : emitted'[n] = emitted[n]
        /\ emitted'[N + 1] = log
    BY <2>1, <2>3 DEF TypeOK
  <2>5. A' = A \cup {N + 1} /\ \A n \in A : n \in 1 .. N /\ n # N + 1
    BY <2>2, <2>4 DEF Logs
  <2>6. Anchored' = Anchored \cup {root}
    BY <2>1 DEF Anchored, IsAnchored, TypeOK
  <2>7. anchorings'[root] = record /\ \A r \in Anchored : anchorings'[r] = anchorings[r]
    BY <2>1 DEF Anchored, TypeOK
  <2>8. \A n \in A : emitted'[n] = emitted[n]
                     /\ emitted[n].payload.merkleRoot \in Anchored
    BY <2>4, <2>5 DEF LogsRebuildRecords
  <2> HIDE DEF A
  <2>9. ASSUME NEW r \in Anchored'
        PROVE  \E n \in A' :
                  /\ emitted'[n].payload.merkleRoot = r
                  /\ emitted'[n].submitter = anchorings'[r].submitter
                  /\ \A field \in DOMAIN emitted'[n].payload :
                        emitted'[n].payload[field] = anchorings'[r][field]
    <3>1. CASE r \in Anchored
      <4>1. PICK n \in A :
                  /\ emitted[n].payload.merkleRoot = r
                  /\ emitted[n].submitter = anchorings[r].submitter
                  /\ \A field \in DOMAIN emitted[n].payload :
                        emitted[n].payload[field] = anchorings[r][field]
        BY <3>1 DEF LogsRebuildRecords, A
      <4> QED BY <2>5, <2>7, <2>8, <3>1, <4>1
    <3>2. CASE r = root
      <4>1. N + 1 \in A'
        BY <2>5
      <4> QED BY <2>2, <2>4, <2>7, <3>2, <4>1
    <3> QED BY <2>6, <3>1, <3>2
  <2>10. ASSUME NEW m \in A', NEW n \in A',
                emitted'[m].payload.merkleRoot = emitted'[n].payload.merkleRoot
         PROVE  m = n
    <3>1. CASE m \in A /\ n \in A
      BY <2>8, <2>10, <3>1 DEF LogsRebuildRecords, A
    <3>2. emitted'[N + 1].payload.merkleRoot = root
      BY <2>2, <2>4
    <3>3. \A k \in A : emitted'[k].payload.merkleRoot # root
      BY <2>1, <2>8
    <3> QED BY <2>5, <2>10, <3>1, <3>2, <3>3
  <2>11. \A n \in A' : emitted'[n].payload.merkleRoot \in Anchored'
    BY <2>2, <2>4, <2>5, <2>6, <2>8
  <2> QED BY <2>9, <2>10, <2>11 DEF LogsRebuildRecords, A
<1>2. ASSUME NEW submitter \in Address, NEW authorized \in BOOLEAN,
             SetAuthorization(submitter, authorized)
      PROVE  LogsRebuildRecords'
  <2> DEFINE log == [kind |-> "SubmitterAuthorizationChanged",
                     submitter |-> submitter, authorized |-> authorized]
  <2>1. emitted' = Append(emitted, log) /\ UNCHANGED anchorings
        /\ log.kind # "ReconciliationAnchored"
    BY <1>2 DEF SetAuthorization, Emit
  <2> HIDE DEF log
  <2>2. PICK N : N = Len(emitted)
    OBVIOUS
  <2>3. /\ N \in Nat
        /\ DOMAIN emitted = 1 .. N /\ DOMAIN emitted' = 1 .. N + 1
        /\ \A n \in 1 .. N : emitted'[n] = emitted[n]
        /\ emitted'[N + 1] = log
    BY <2>1, <2>2 DEF TypeOK
  <2>4. /\ Logs("ReconciliationAnchored")' = Logs("ReconciliationAnchored")
        /\ \A n \in Logs("ReconciliationAnchored") : emitted'[n] = emitted[n]
    BY <2>1, <2>3 DEF Logs
  <2>5. Anchored' = Anchored
    BY <2>1 DEF Anchored, IsAnchored
  <2>6. PICK A : A = Logs("ReconciliationAnchored")
    OBVIOUS
  <2>7. /\ Logs("ReconciliationAnchored")' = A
        /\ \A n \in A : emitted'[n] = emitted[n]
        /\ anchorings' = anchorings
    BY <2>1, <2>4, <2>6
  <2>8. /\ \A r \in Anchored :
              \E n \in A :
                 /\ emitted[n].payload.merkleRoot = r
                 /\ emitted[n].submitter = anchorings[r].submitter
                 /\ \A field \in DOMAIN emitted[n].payload :
                       emitted[n].payload[field] = anchorings[r][field]
        /\ \A m, n \in A :
              emitted[m].payload.merkleRoot = emitted[n].payload.merkleRoot
                => m = n
        /\ \A n \in A : emitted[n].payload.merkleRoot \in Anchored
    BY <2>6 DEF LogsRebuildRecords
  <2>9. \A r \in Anchored' :
            \E n \in A :
               /\ emitted'[n].payload.merkleRoot = r
               /\ emitted'[n].submitter = anchorings'[r].submitter
               /\ \A field \in DOMAIN emitted'[n].payload :
                     emitted'[n].payload[field] = anchorings'[r][field]
    BY <2>5, <2>7, <2>8
  <2>10. /\ \A m, n \in A :
               emitted'[m].payload.merkleRoot = emitted'[n].payload.merkleRoot
                 => m = n
         /\ \A n \in A : emitted'[n].payload.merkleRoot \in Anchored'
    BY <2>5, <2>7, <2>8
  <2> QED BY <2>7, <2>9, <2>10 DEF LogsRebuildRecords
<1>3. CASE UNCHANGED <<anchorings, emitted>>
  BY <1>3 DEF LogsRebuildRecords, Logs, Anchored, IsAnchored
<1> QED
  BY <1>1, <1>2, <1>3, StepKinds DEF Transfers, Revert, MineBlock, vars, storage

\* The logs alone tell every record, with its submitter and its payload, and
\* each of them once.
THEOREM LogsTellRecords == Spec => []LogsRebuildRecords
<1>1. Init => LogsRebuildRecords
  <2>1. ASSUME Init
        PROVE  Anchored = {} /\ Logs("ReconciliationAnchored") = {}
    <3>1. emitted = <<>>
      BY <2>1 DEF Init
    <3> QED BY <2>1, <3>1, InitEnumeration DEF Logs
  <2> QED BY <2>1 DEF LogsRebuildRecords
<1>2. TypeOK /\ LogsRebuildRecords /\ [Next]_vars => LogsRebuildRecords'
  BY NextLogsRebuild
<1> QED BY <1>1, <1>2, TypeCorrect, PTL DEF Spec
=============================================================================
