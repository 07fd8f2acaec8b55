----------------------- MODULE MultichainTraceability -----------------------
(***************************************************************************)
(* Both chains, and between them the reconciliation daemon: the pallet's   *)
(* runtime events are cut into finalized blocks, and the daemon anchors    *)
(* the readings of the blocks since its last window in the contract.       *)
(*                                                                         *)
(* The repository has no code of the daemon.  Modelled is what             *)
(* exp_partition and the generator's reconciliation record say of it: one  *)
(* window covers all that was finalized since the last anchoring, nothing  *)
(* can be submitted in a partition, and after the heal the next window     *)
(* covers the backlog.  A transaction or its receipt may be lost; then the *)
(* daemon submits the same window again.                                   *)
(*                                                                         *)
(* The operational chain is the whole pallet: any caller, any call, and    *)
(* the clock.  It has no duplicate check, so that a reading may be         *)
(* processed again while it is fresh, and a later window may have the      *)
(* readings, hence the root, of an earlier one.                            *)
(*                                                                         *)
(* An operator commented "Fault:" is a faulty variant of the operator that *)
(* follows the faults; the specification does not use it.                  *)
(***************************************************************************)
EXTENDS TraceabilityPallet, SequencesExt

CONSTANTS
    Daemon, ZeroAccount,    \* accounts of the analytics chain
    ZeroWord,               \* the zero root
    MaxBlocks,              \* bound: finalized blocks
    MaxFaults               \* bound: partitions and losses

VARIABLES
    anchorings, merkleRoots, totalAnchorings, authorizedSubmitters, owner,
    emitted, blockNumber,
    receipt,        \* of the contract's last call
    blocks,         \* for each finalized block, the length of the trail then
    anchoredTo,     \* the last block that the daemon knows to be anchored
    pending,        \* the window without a receipt: none or one payload
    connected,      \* whether the daemon reaches the analytics chain
    faults          \* history: partitions and losses so far

contract == <<anchorings, merkleRoots, totalAnchorings, authorizedSubmitters,
              owner, emitted, blockNumber, receipt>>
daemon == <<anchoredTo, pending, connected, faults>>
allVars == <<vars, contract, blocks, daemon>>

ASSUME MultichainAssumption == MaxBlocks \in Nat /\ MaxFaults \in Nat

\* build_merkle_tree over a window: its root pins the sequence of readings.
Root(hashes) == [merkle |-> hashes]
Roots == {ZeroWord} \cup {Root(w) : w \in BoundedSeq(EventHashes, MaxDeposits - 1)}

Contract ==
    INSTANCE SupplyChainAnchoring
        WITH Address <- {Daemon, ZeroAccount}, ZeroAddress <- ZeroAccount,
             Deployer <- Daemon, Bytes32 <- Roots, ZeroRoot <- ZeroWord,
             PayloadInputs <- {}, MaxBlock <- 0, MaxLogs <- MaxBlocks,
             result <- receipt

-----------------------------------------------------------------------------
(* Windows.                                                                *)

\* The hashes of the readings among the first k runtime events of a log.
WithReading(log, k, readings) ==
    IF log[k].event.kind = "EventProcessed"
    THEN Append(readings, log[k].event.event_hash)
    ELSE readings
Trail == INSTANCE Iteration WITH Step <- WithReading
ReadingsIn(log) == Trail!Iterate(log, <<>>, Len(log))

\* The readings of the first b blocks, in order, and their number.
FinalReadings(b) == IF b = 0 THEN <<>> ELSE ReadingsIn(deposited)[blocks[b]]
FinalizedBy(b) == Len(FinalReadings(b))

\* The readings of the blocks first to last.
WindowReadings(first, last) ==
    SubSeq(FinalReadings(last), FinalizedBy(first - 1) + 1, FinalizedBy(last))

\* Fault: a window holds the last finalized block alone.
NextWindowOfLastBlock ==
    LET first == Len(blocks)
        last == Len(blocks)
    IN [merkleRoot |-> Root(WindowReadings(first, last)),
        startBlock |-> first, endBlock |-> last,
        eventCount |-> Len(WindowReadings(first, last)),
        timestamp |-> now, chainId |-> "substrate-operational-01"]

\* The reconciliation record over all blocks since the last anchoring.
NextWindow ==
    LET first == anchoredTo + 1
        last == Len(blocks)
    IN [merkleRoot |-> Root(WindowReadings(first, last)),
        startBlock |-> first, endBlock |-> last,
        eventCount |-> Len(WindowReadings(first, last)),
        timestamp |-> now, chainId |-> "substrate-operational-01"]

\* Fault: a window without a receipt is built anew.
SubmittedAnew == NextWindow

\* What the daemon submits: the window that has no receipt, or the next one.
Submitted == IF pending = <<>> THEN NextWindow ELSE pending[1]

\* A window without readings is not submitted: the contract refuses it.
HasWindow ==
    \/ pending # <<>>
    \/ anchoredTo < Len(blocks) /\ FinalizedBy(anchoredTo) < FinalizedBy(Len(blocks))

-----------------------------------------------------------------------------
(* The chains.                                                             *)

MultichainInit ==
    /\ Init
    /\ Contract!Init
    /\ blocks = <<>>
    /\ anchoredTo = 0
    /\ pending = <<>>
    /\ connected = TRUE
    /\ faults = 0

\* Any call of the pallet, or its clock.  A call that fails changes nothing
\* but its result, which neither the daemon nor the contract sees.
OperationalStep ==
    /\ Next
    /\ result' = "Ok"
    /\ UNCHANGED <<contract, blocks, daemon>>

FinalizeBlock ==
    /\ Len(blocks) < MaxBlocks
    /\ blocks' = Append(blocks, Len(deposited))
    /\ UNCHANGED <<vars, contract, daemon>>

-----------------------------------------------------------------------------
(* The daemon.                                                             *)

Fault == faults < MaxFaults /\ faults' = faults + 1

\* Fault: only a submission that anchors something is taken for done.
IsDoneOk(answer) == answer = "Ok"

\* The answers after which a window is known to be anchored.
IsDone(answer) == answer \in {"Ok", "Merkle root already anchored"}

\* The transaction is executed and its receipt arrives.
SubmitAcknowledged ==
    /\ connected
    /\ HasWindow
    /\ Contract!AnchorReconciliation(Daemon, Submitted)
    /\ IF IsDone(receipt')
       THEN anchoredTo' = Submitted.endBlock /\ pending' = <<>>
       ELSE pending' = <<Submitted>> /\ UNCHANGED anchoredTo
    /\ UNCHANGED <<vars, blocks, connected, faults>>

\* The transaction is executed and its receipt is lost.
SubmitReceiptLost ==
    /\ connected
    /\ HasWindow
    /\ Fault
    /\ Contract!AnchorReconciliation(Daemon, Submitted)
    /\ pending' = <<Submitted>>
    /\ UNCHANGED <<vars, blocks, anchoredTo, connected>>

\* The transaction is lost.
SubmitLost ==
    /\ connected
    /\ HasWindow
    /\ Fault
    /\ pending' = <<Submitted>>
    /\ UNCHANGED <<vars, contract, blocks, anchoredTo, connected>>

Partition ==
    /\ connected
    /\ Fault
    /\ connected' = FALSE
    /\ UNCHANGED <<vars, contract, blocks, anchoredTo, pending>>

Heal ==
    /\ ~connected
    /\ connected' = TRUE
    /\ UNCHANGED <<vars, contract, blocks, anchoredTo, pending, faults>>

MultichainNext ==
    \/ OperationalStep \/ FinalizeBlock
    \/ SubmitAcknowledged \/ SubmitReceiptLost \/ SubmitLost
    \/ Partition \/ Heal

\* Partitions heal, and a daemon that can submit goes on until an answer
\* arrives; nobody has to send readings or to make blocks.
MultichainSpec ==
    /\ MultichainInit
    /\ [][MultichainNext]_allVars
    /\ WF_allVars(Heal)
    /\ WF_allVars(SubmitAcknowledged)

-----------------------------------------------------------------------------

Record(k) == anchorings[merkleRoots[k]]
LastCovered(k) == IF k = 0 THEN 0 ELSE Record(k).endBlock

\* The readings that the ledger covers, and those of its first n windows.
CoveredReadings == UNION {ToSet(merkleRoots[k].merkle) : k \in DOMAIN merkleRoots}
CoveredByFirst(n) == UNION {ToSet(merkleRoots[k].merkle) : k \in 1 .. n}

\* The contract checks each window alone, yet the windows of the ledger are
\* in order: each has the root and the number of the readings of its blocks,
\* none overlaps another or is ahead of finality, and what was final before
\* it begins is covered by the windows before it.  A gap between two windows
\* thus has only readings that were processed again, through partitions,
\* losses, resubmissions and replays.
WindowsInOrder ==
    \A k \in DOMAIN merkleRoots :
        LET window == WindowReadings(Record(k).startBlock, Record(k).endBlock)
        IN /\ merkleRoots[k] = Root(window)
           /\ Record(k).eventCount = Len(window)
           /\ LastCovered(k - 1) < Record(k).startBlock
           /\ Record(k).endBlock <= Len(blocks)
           /\ ToSet(FinalReadings(Record(k).startBlock - 1))
                  \subseteq CoveredByFirst(k - 1)

\* The contract knows a window by its root alone.  If the daemon goes on
\* because its root is anchored, then what is anchored under it is this very
\* window, submitted before, or an earlier one that ended before it and has
\* the same readings in the same order, each of them processed again: no
\* reading is passed over, whether or not the window was submitted before.
RefusedWindowIsCovered ==
    [][receipt' = "Merkle root already anchored" /\ anchoredTo' # anchoredTo
          => LET record == anchorings[Submitted.merkleRoot] IN
             /\ WindowReadings(record.startBlock, record.endBlock)
                    = WindowReadings(anchoredTo + 1, anchoredTo')
             /\ \/ /\ record.startBlock = anchoredTo + 1
                   /\ record.endBlock = anchoredTo'
                \/ record.endBlock <= anchoredTo]_allVars

\* What the daemon believes to be anchored is covered, each reading of it;
\* and the ledger is ahead of that belief by one window at most: the next one,
\* whose receipt the daemon has not seen.
BeliefIsCovered ==
    LET windows == Len(merkleRoots) IN
    /\ ToSet(FinalReadings(anchoredTo)) \subseteq CoveredReadings
    /\ \/ LastCovered(windows) <= anchoredTo
       \/ /\ pending # <<>>
          /\ pending[1].merkleRoot = merkleRoots[windows]
          /\ Record(windows).startBlock = anchoredTo + 1
          /\ LastCovered(windows - 1) <= anchoredTo

\* Together the chains are one ledger of readings whose covered prefix grows.
Ledger ==
    INSTANCE CoverageLedger
        WITH final <- FinalReadings(Len(blocks)), covered <- CoveredReadings
ChainsFormLedger == Ledger!Spec

\* No reading is left behind: whatever was final at some time is covered
\* later, if partitions heal and losses end.
EveryReadingCovered ==
    \A reading \in EventHashes :
        reading \in ToSet(FinalReadings(Len(blocks)))
            ~> reading \in CoveredReadings
=============================================================================
