------------------------ MODULE SupplyChainAnchoring ------------------------
(***************************************************************************)
(* The analytics chain: the contract SupplyChainAnchoring.sol.  Its state  *)
(* variables are variables, its external functions are actions, its logs   *)
(* are the history emitted.                                                *)
(*                                                                         *)
(* A transaction runs alone and as a whole, so an action is one call.  A   *)
(* require that fails reverts the call: the reason is returned and nothing *)
(* else happens.  An account or a 32-byte word is a member of a small set. *)
(*                                                                         *)
(* An operator commented "Fault:" is a faulty variant of the operator that *)
(* follows it; the specification does not use it.                          *)
(***************************************************************************)
EXTENDS Naturals, Sequences, StorageMap

CONSTANTS
    Address,        \* accounts, the zero address included
    ZeroAddress,
    Deployer,       \* msg.sender of the constructor
    Bytes32,        \* Merkle roots, the zero word included
    ZeroRoot,
    PayloadInputs,  \* the reconciliation payloads that callers submit
    MaxBlock,       \* bound: the highest block number
    MaxLogs         \* bound: logs ever emitted

VARIABLES
    anchorings,             \* mapping merkleRoot => AnchoringRecord
    merkleRoots,            \* array of the roots, for enumeration
    totalAnchorings,
    authorizedSubmitters,   \* mapping address => bool
    owner,
    emitted,                \* logs emitted so far
    blockNumber,            \* block.number
    result                  \* "Ok" or the revert reason of the last call

storage == <<anchorings, merkleRoots, totalAnchorings, authorizedSubmitters,
             owner, emitted>>
vars == <<storage, blockNumber, result>>

-----------------------------------------------------------------------------
(* Domain types.                                                           *)

Account == Address \ {ZeroAddress}

\* The one operational chain that is anchored, and the default string.
ChainId == {"", "substrate-operational-01"}

ReconciliationPayload ==
    [merkleRoot : Bytes32, startBlock : Nat, endBlock : Nat, eventCount : Nat,
     timestamp : Nat, chainId : ChainId]

AnchoringRecord ==
    [merkleRoot : Bytes32, startBlock : Nat, endBlock : Nat, eventCount : Nat,
     timestamp : Nat, chainId : ChainId, anchorBlock : Nat, submitter : Address]

\* What the mapping holds under a root that was never written.
EmptyRecord ==
    [merkleRoot |-> ZeroRoot, startBlock |-> 0, endBlock |-> 0,
     eventCount |-> 0, timestamp |-> 0, chainId |-> "", anchorBlock |-> 0,
     submitter |-> ZeroAddress]

\* Logs.  AnchoringFailed is declared by the contract and never emitted.
Log ==
    [kind : {"ReconciliationAnchored"}, payload : ReconciliationPayload,
     submitter : Address]
    \cup
    [kind : {"SubmitterAuthorizationChanged"}, submitter : Address,
     authorized : BOOLEAN]

OwnerReason == "Only owner can call this function"
AnchorReasons ==
    {"Caller not authorized to submit anchorings", "Invalid Merkle root",
     "Event count must be positive", "Invalid block range",
     "Merkle root already anchored"}
Reasons == AnchorReasons \cup {OwnerReason, "Invalid new owner"}

ASSUME ContractAssumption ==
    /\ ZeroAddress \in Address
    /\ Deployer \in Account
    /\ ZeroRoot \in Bytes32
    /\ PayloadInputs \subseteq ReconciliationPayload
    /\ MaxBlock \in Nat
    /\ MaxLogs \in Nat

-----------------------------------------------------------------------------
(* Views.                                                                  *)

\* _isAnchored
IsAnchored(merkleRoot) == anchorings[merkleRoot].merkleRoot # ZeroRoot

GetStatistics ==
    IF merkleRoots = <<>>
    THEN [totalCount |-> totalAnchorings, latestRoot |-> ZeroRoot,
          latestTimestamp |-> 0]
    ELSE LET latestRoot == merkleRoots[Len(merkleRoots)] IN
         [totalCount |-> totalAnchorings, latestRoot |-> latestRoot,
          latestTimestamp |-> anchorings[latestRoot].timestamp]

-----------------------------------------------------------------------------
(* Effects of a call.                                                      *)

\* A require that failed, or a modifier's.
Revert(reason) ==
    /\ result' = reason
    /\ UNCHANGED <<storage, blockNumber>>

Emit(log) ==
    /\ Len(emitted) < MaxLogs
    /\ emitted' = Append(emitted, log)

-----------------------------------------------------------------------------
(* anchorReconciliation.                                                   *)

\* Fault: the zero root is let through.
AnchorVerdictZeroRoot(sender, payload) ==
    IF ~authorizedSubmitters[sender]
         THEN "Caller not authorized to submit anchorings"
    ELSE IF payload.eventCount = 0 THEN "Event count must be positive"
    ELSE IF payload.endBlock < payload.startBlock THEN "Invalid block range"
    ELSE IF IsAnchored(payload.merkleRoot) THEN "Merkle root already anchored"
    ELSE "Ok"

\* Fault: a root can be anchored again.
AnchorVerdictDuplicate(sender, payload) ==
    IF ~authorizedSubmitters[sender]
         THEN "Caller not authorized to submit anchorings"
    ELSE IF payload.merkleRoot = ZeroRoot THEN "Invalid Merkle root"
    ELSE IF payload.eventCount = 0 THEN "Event count must be positive"
    ELSE IF payload.endBlock < payload.startBlock THEN "Invalid block range"
    ELSE "Ok"

\* The modifier and the requires, in their order.
AnchorVerdict(sender, payload) ==
    IF ~authorizedSubmitters[sender]
         THEN "Caller not authorized to submit anchorings"
    ELSE IF payload.merkleRoot = ZeroRoot THEN "Invalid Merkle root"
    ELSE IF payload.eventCount = 0 THEN "Event count must be positive"
    ELSE IF payload.endBlock < payload.startBlock THEN "Invalid block range"
    ELSE IF IsAnchored(payload.merkleRoot) THEN "Merkle root already anchored"
    ELSE "Ok"

NewRecord(sender, payload) ==
    [merkleRoot |-> payload.merkleRoot, startBlock |-> payload.startBlock,
     endBlock |-> payload.endBlock, eventCount |-> payload.eventCount,
     timestamp |-> payload.timestamp, chainId |-> payload.chainId,
     anchorBlock |-> blockNumber, submitter |-> sender]

\* Fault: the newest root is put in front of the older ones.
StoreAtFront(sender, payload) ==
    /\ anchorings' = [anchorings EXCEPT ![payload.merkleRoot] =
                          NewRecord(sender, payload)]
    /\ merkleRoots' = <<payload.merkleRoot>> \o merkleRoots
    /\ totalAnchorings' = totalAnchorings + 1

\* The record, the enumeration and the total change together.
Store(sender, payload) ==
    /\ anchorings' = [anchorings EXCEPT ![payload.merkleRoot] =
                          NewRecord(sender, payload)]
    /\ merkleRoots' = Append(merkleRoots, payload.merkleRoot)
    /\ totalAnchorings' = totalAnchorings + 1

\* Fault: the log names the owner as the submitter.
AnchoredLogOwner(sender, payload) ==
    [kind |-> "ReconciliationAnchored", payload |-> payload,
     submitter |-> owner]

AnchoredLog(sender, payload) ==
    [kind |-> "ReconciliationAnchored", payload |-> payload,
     submitter |-> sender]

AnchorReconciliation(sender, payload) ==
    LET verdict == AnchorVerdict(sender, payload) IN
    \/ /\ verdict # "Ok"
       /\ Revert(verdict)
    \/ /\ verdict = "Ok"
       /\ Store(sender, payload)
       /\ Emit(AnchoredLog(sender, payload))
       /\ result' = "Ok"
       /\ UNCHANGED <<authorizedSubmitters, owner, blockNumber>>

-----------------------------------------------------------------------------
(* Access control.                                                         *)

\* authorizeSubmitter and revokeSubmitter differ in the value they write.
SetAuthorization(submitter, authorized) ==
    /\ authorizedSubmitters' =
           [authorizedSubmitters EXCEPT ![submitter] = authorized]
    /\ Emit([kind |-> "SubmitterAuthorizationChanged",
             submitter |-> submitter, authorized |-> authorized])
    /\ result' = "Ok"
    /\ UNCHANGED <<anchorings, merkleRoots, totalAnchorings, owner,
                   blockNumber>>

AuthorizeSubmitter(sender, submitter) ==
    \/ sender # owner /\ Revert(OwnerReason)
    \/ sender = owner /\ SetAuthorization(submitter, TRUE)

\* Fault: the log is emitted and the mapping keeps its entry.
RevokeSubmitterLogOnly(sender, submitter) ==
    \/ sender # owner /\ Revert(OwnerReason)
    \/ /\ sender = owner
       /\ Emit([kind |-> "SubmitterAuthorizationChanged",
                submitter |-> submitter, authorized |-> FALSE])
       /\ result' = "Ok"
       /\ UNCHANGED <<anchorings, merkleRoots, totalAnchorings,
                      authorizedSubmitters, owner, blockNumber>>

RevokeSubmitter(sender, submitter) ==
    \/ sender # owner /\ Revert(OwnerReason)
    \/ sender = owner /\ SetAuthorization(submitter, FALSE)

\* Fault: the new owner is not checked.
TransferVerdictUnchecked(sender, newOwner) ==
    IF sender # owner THEN OwnerReason ELSE "Ok"

TransferVerdict(sender, newOwner) ==
    IF sender # owner THEN OwnerReason
    ELSE IF newOwner = ZeroAddress THEN "Invalid new owner"
    ELSE "Ok"

\* The authorizations stay as they are, the former owner's included.
TransferOwnership(sender, newOwner) ==
    LET verdict == TransferVerdict(sender, newOwner) IN
    \/ /\ verdict # "Ok"
       /\ Revert(verdict)
    \/ /\ verdict = "Ok"
       /\ owner' = newOwner
       /\ result' = "Ok"
       /\ UNCHANGED <<anchorings, merkleRoots, totalAnchorings,
                      authorizedSubmitters, emitted, blockNumber>>

-----------------------------------------------------------------------------
(* The chain.                                                              *)

\* The constructor: it authorizes the deployer and emits nothing.
Init ==
    /\ anchorings = [r \in Bytes32 |-> EmptyRecord]
    /\ merkleRoots = <<>>
    /\ totalAnchorings = 0
    /\ authorizedSubmitters = [a \in Address |-> a = Deployer]
    /\ owner = Deployer
    /\ emitted = <<>>
    /\ blockNumber = 0
    /\ result = "Ok"

MineBlock ==
    /\ blockNumber < MaxBlock
    /\ blockNumber' = blockNumber + 1
    /\ UNCHANGED <<storage, result>>

Next ==
    \/ \E sender \in Account :
          \/ \E payload \in PayloadInputs :
                AnchorReconciliation(sender, payload)
          \/ \E submitter \in Address :
                \/ AuthorizeSubmitter(sender, submitter)
                \/ RevokeSubmitter(sender, submitter)
          \/ \E newOwner \in Address : TransferOwnership(sender, newOwner)
    \/ MineBlock

Spec == Init /\ [][Next]_vars

\* The types of the contract's state.  The owner is a real account in every
\* state: with the zero address nobody could manage submitters again.
TypeOK ==
    /\ anchorings \in [Bytes32 -> AnchoringRecord]
    /\ merkleRoots \in Seq(Bytes32)
    /\ totalAnchorings \in Nat
    /\ authorizedSubmitters \in [Address -> BOOLEAN]
    /\ owner \in Account
    /\ emitted \in Seq(Log)
    /\ blockNumber \in Nat
    /\ result \in Reasons \cup {"Ok"}
=============================================================================
