# Formal model of the multichain traceability prototype

TLA+ modules, TLC configurations and TLAPS proofs for the code in this
repository: the operational chain's FRAME pallet, the analytics chain's anchoring
contract, the Merkle trees and the daemon that connect them, the workload generator, the
experiments about partitions, churn, connectivity and IPFS, and the program that turns
their results into tables. Every definition is translated from the source lines that
`PROJECT.json` names for it.

## 1. The system

Devices sign readings; the **operational chain** (`substrate-pallet/lib.rs`) registers
devices, admits their readings and moves batches through custody; a
**reconciliation daemon** (not in the repository; described by
`simulation/robustness_simulation.py` and by the generator's `reconciliation` record)
collects what the chain finalized, builds one Merkle root per window and submits it to
the **analytics chain** (`ethereum-contract/src/SupplyChainAnchoring.sol`); a **consumer**
fetches payloads from IPFS and checks them against an anchored root.

| Component | State | Operations | Talks to | Hard about it | What makes it correct |
|---|---|---|---|---|---|
| Pallet (`substrate-pallet/lib.rs`) | `Devices`, `Events`, `Batches`, three counters, runtime events | `onboard_device`, `process_event`, `evaluate_governance` | callers, the clock, the daemon through its runtime events | replay and freshness; a call that fails after it wrote; long sequences of calls by several roles | write-once registry, verifiable store, confined replay, counters = trail = storage, custody order |
| Contract (`SupplyChainAnchoring.sol`) | `anchorings`, `merkleRoots`, `totalAnchorings`, `authorizedSubmitters`, `owner`, logs | `anchorReconciliation`, `authorizeSubmitter`, `revokeSubmitter`, `transferOwnership`, views | daemon, owner, auditors | resubmission; revocation against submission; four views of one anchoring | write-once records, consistent enumeration and statistics, logs that rebuild records, authorized submitters |
| Daemon (no code; described by `exp_partition` and the reconciliation record) | last block anchored, the window without a receipt | collect a window, submit, resubmit | both chains | lost transactions and receipts, more blocks in between, partitions, replayed readings | windows in order, whose gaps hold nothing uncovered; one growing ledger, no reading left behind |
| Partition experiment (`exp_partition`, `plot_partition_validation.py`) | last anchoring, backlog, staleness | anchoring on a cadence, when connected | - | a partition anywhere on the cadence; the loop written twice | bounded staleness, complete backlog, prompt recovery, equal series |
| Churn and IPFS curves (`robustness_simulation.py`) | points of a curve | closed formulas | - | thresholds at multiples of three; power of a power | a formula equals the sum over all states it abbreviates |
| Edge (`substrate-pallet/connectivity.rs`) | on/off link, buffered readings | emit, deliver late, process | the pallet | late bursts, rounding at the window | admission = wait within window, accepted = stored |
| Merkle trees (generator, `ipfs_measure.py`, contract, its tests) | none | build, prove, verify | daemon, contract, consumer | odd levels, order, three hash conventions | a proof pins a payload, root and count pin a window |
| Workload generator (`generate_scenario.py`) | devices, credentials, readings, custody transfers, summary | three loops, signing, counting, Merkle root, cost model | the pallet and the contract (by its output) | one fact written down in several places; encodings of its own | readings, credentials, custody, summary and costs tell one story |
| IPFS measurement (`ipfs_measure.py`) | identifiers, round trips, verdicts; an external repository | add, cat, verify | the `ipfs` program | exit codes are ignored: a failure is an empty output | a verdict is no better than what was stored and fetched |
| Paper tables (`generate_paper_tables.py`) | CSV files, loaded rows, artifacts on disk | load, five artifacts | the experiments, by their files | a run that breaks off; files rewritten meanwhile; units | artifacts of one run agree |
| Benchmark runtime, weights | none | assembly | - | - | - |

The hazards this code has, each at its line and with the properties that cover it, are
listed in `PROJECT.json` under `hazards`.

## 2. The modules

| Module | Models |
|---|---|
| `TraceabilityPallet` | the pallet: storage items as variables, an extrinsic as an action, `deposited` as the history of its runtime events with their time |
| `PalletProperties` | what daemon and auditor may rely on |
| `SupplyChainAnchoring`, `AnchoringProperties` | the contract, and what its auditors may rely on |
| `MultichainTraceability` | both chains, composed: it EXTENDS the pallet, takes the contract by INSTANCE, and adds finalized blocks, the daemon and the faults between the chains |
| `CoverageLedger` | abstract: one growing sequence of final readings, and the set of those in a prefix of it, which are anchored. The composition implements it |
| `PartitionRecovery` | `exp_partition`, one loop iteration per action; `anchored_at` is the history of the anchoring steps |
| `RobustnessCurves` | the formulas of E2 and E4 as exact weights, each beside the sum over states that it abbreviates |
| `RobustnessStudy` | the main program: E1 with the copy of its loop in the plot, its report, then the sweeps of E2 and E4 |
| `EdgeConnectivity` | `connectivity.rs`, composed with `TraceabilityPallet`: a late reading goes through the pallet's own `ProcessEvent` |
| `MerkleTrees` | the generator's root; build, proof and verify of `ipfs_measure.py`; `verifyMerkleProof` and the trees of its test. The three `while` loops over rows differ in how two nodes make one, so they are one loop, `Rows`, with the tree as a parameter |
| `IpfsMeasurement` | `ipfs_measure.py` on top of `MerkleTrees`; each command may fail |
| `WorkloadGenerator` | `generate_scenario.py`, one loop iteration per action |
| `AnalyticalModel` | the fees and gas costs of the tables and the generator, in exact units |
| `PaperTables` | `generate_paper_tables.py` across runs, with experiments that rewrite its input |
| `WorkloadReplay` | what `_sign_event` signs, in front of the pallet |
| `WriteOnceRegistry` | abstract: an entry is written once and stays. The device registry and the anchoring records both implement it |
| `CustodyLifecycle` | abstract: a batch enters its stages one at a time. The pallet implements it |
| `StorageMap` | maps of chain storage |
| `Iteration` | a loop of a bounded number of rounds as a recursive function, with the round as a constant operator that INSTANCE replaces, and two lemmas: the recursion has a solution, and induction along it |
| `MC*` | inputs and constants for TLC |
| `MultichainProofs` (the pallet, and the composition), `AnchoringProofs`, `MerkleProofs`, `RobustnessProofs`, `EdgeProofs`, `WorkloadProofs`, `TablesProofs` | theorems |

**Correspondence.** An extrinsic or a transaction runs alone and as a whole, so it is
one action. Its checks are one operator (`OnboardVerdict`, `EventVerdict`,
`AnchorVerdict`, `TransferVerdict`) that returns the first failing check in the code's
order. A failing call is an action too: FRAME's storage layer (`Fail`) and the EVM
(`Revert`) undo what it wrote, and only `result` changes. `result` is what the caller
got from the last call. An operator commented `Fault:` is a plausible bug; no
specification uses it.

**Data.** A byte string is a short sequence of numbers, a fixed-width encoding one
element of it; nothing separates the fields of a signed message, as in the code. A
signature is the pair of key and message, a hash is an injective constructor tagged
with its algorithm. The contract's words and accounts are members of small sets that
contain the zero word and the zero address. Fees are in units that make all of them whole
numbers, a mean is a fraction, and a probability `a / D` is the weight `a`, so that sums
and powers are exact where the code rounds in floating point.

**The daemon.** There is no code of it. `MultichainTraceability` takes from the repository
that one window covers all that was finalized since the last anchoring
(`robustness_simulation.py:61-65`), the fields of a window
(`generate_scenario.py:439-444`), that nothing is submitted during a partition and that
the next window after the heal covers the backlog. That a window without a receipt is
submitted again, unchanged, and that the refusal `Merkle root already anchored` counts as
done, is what a daemon in front of this contract has to do: the mutants of
`WindowsInOrder` and `EveryReadingCovered` show what happens otherwise.

The operational chain of the composition is the whole pallet: any caller, any call that
succeeds, custody and the clock. A call that fails changes only its `result`, which neither
the daemon nor the contract sees, so the composition leaves it out. The contract takes part
with the daemon's anchorings alone, at a block number that stays 0; its other functions and
callers are in run `anchoring`.

The contract knows a window by its root alone, and the pallet has no duplicate check. A
reading that is processed again while it is fresh can thus give a later window the root of
an earlier one. That window is refused at its first submission, the daemon takes it for
anchored, and its blocks have no record of their own: the ledger has a gap. What holds is
that nothing is lost by it. `WindowsInOrder` says that the windows never overlap and that
what a gap leaves out is covered by the windows before it, `RefusedWindowIsCovered` that
whatever is anchored under the root of a refused window has the same readings in the same
order, `BeliefIsCovered` that all readings up to where the daemon stopped are covered.

**The windows.** `ReadingsIn(log)` goes through the runtime events of the pallet and keeps
the hashes of its `EventProcessed`; `FinalReadings(b)` are those up to the end of block
`b`, and a window is the part of them that its first and last block enclose.

**The loops of the trees.** A row is at most as long as the leaves are many, and each round
shortens it, so `Rows` makes as many rounds as there are leaves and leaves a single node as
it is; `Height` is the number of rounds that the code's loop makes. Which position a leaf
has in each row (`i //= 2`) is `Places`.

## 3. The runs

| Run | Question | Size | Bounds and why they suffice |
|---|---|---|---|
| `pallet` | registry, store, replay, counters, custody | 100,228 states | two devices and a rival credential for one id; readings fresh, stale, future, restamped, foreign and malformed; two batches, each kind of role; three times around a window of 1; four runtime events: a registration and three readings or evaluations, or one batch through all its stages, with any refused calls in between |
| `anchoring` | records, enumeration, statistics, logs, access | 228,230 | three accounts (zero among them), two roots and zero, one payload per check, two blocks, four logs: authorize, anchor, revoke, anchor again |
| `multichain` | windows, ledger, coverage | 128,528 | two readings, fresh at different times, each of which can be processed again at its time, and a batch whose custody events lie between readings; four runtime events, a registration and three more; three blocks: a reading anchored, the same reading alone in the next block, hence a refused window and a gap, then the other reading; two faults of any kind: a lost receipt and then a lost retry, a partition between the two |
| `robustness` | cadence, report, curves | 9,400 | period of 4 steps, every window starting in steps 0..9 and 0..9 long: begins and heals on, before and after each anchoring, shorter and longer than a period; 4, 6 and 10 validators, a multiple of three among them; two payloads on up to four replicas, outages of a tenth, two tenths and a half |
| `edge` | late delivery | 9,516 | quarter-second ticks, window of 2 s, periods shorter and longer than it, eight readings, so that an outage holds several |
| `merkle` | proofs and roots; the measurement's verdicts | 2,351 | every window of up to eight events over two payloads: all shapes of odd levels up to three levels; a measurement of four payloads in which every command may fail |
| `workload` | consistency of the generated scenario | 1,166 | none: the intervals are the code's, two start times |
| `tables` | what runs leave on disk | 67,579 | two runs and four rewrites: a complete run and one that breaks off, a rewrite before, between and after the loads; contents without rows, without a stage, with a number that does not parse, with other columns |

Deadlock checking is off only where the modelled program ends (the study, `edge`, a full
window or a measurement that has printed in `merkle`, the generator, the bounded runs of
`tables`) or where time, runtime events, blocks and faults of `multichain` are used up. In the chains
alone a call can always be made and fail, so they never stop.

The violation runs show where code and text disagree:

| Run | Text | Code |
|---|---|---|
| `pallet_rejected` | "Policy evaluation counter" | the Rejected arm's count and event are undone with its error |
| `merkle_onchain` | "Ready for Algorithm 4 anchoring", "independent verification" | no event of the generator's root has an on-chain proof |
| `replay` | "Sign an event exactly as the pallet will verify it" | text against SCALE bytes |
| `tables_latency` | "Time (seconds)", and the unit s in the table | the samples of `latency_ms` are averaged and printed as they are |

More disagreements need no run. `README.md:24` promises "replay attack prevention",
but there is no duplicate check: a signed reading can be processed and counted again
while it is fresh, and what holds is `ReplayConfined`. A block whose window is refused
because its readings were processed before has no record on the contract, although
`exp_partition` lets every window cover its blocks by a root of its own; its readings are in
an earlier record. The contract's comment
"Emitted when reconciliation fails" stands on `AnchoringFailed`, which no statement emits.
In the generator a custody transfer costs as much as a checkpoint (180,000 weight, 192
bytes) and an anchoring 275,446 gas, while the tables' constants say 200,000 and 256 for a
transfer and 101,000 gas; for registrations, events and checkpoints the two copies of the
cost model use the same numbers.

**Fairness.** Two specifications assume fairness. `RobustnessStudy` (and
`PartitionRecovery` alone) assumes weak fairness of its next step: `for` loops over finite
grids in one process, which run to their end. On it rests `Recovers`.
`MultichainTraceability` assumes weak fairness of `Heal` (partitions end, as those of
`exp_partition` do) and of `SubmitAcknowledged` (a connected daemon goes on submitting on
its cadence until an answer arrives; losses are bounded by `MaxFaults`). Nothing makes
devices send or blocks come. On it rests `EveryReadingCovered`. The chains alone promise
nothing about progress of their callers, so no liveness is claimed of them.

## 4. The proofs

TLAPS proves for every value of the constants, under the assumptions named in the
modules (`PalletAssumption`, `ContractAssumption`, `MultichainAssumption`,
`MeasurementAssumption`, `PartitionAssumption`, `StudyAssumption`, `EdgeAssumption`,
`TablesAssumption`, `WorkloadAssumption`), which only say of which kind each constant is.
No theorem assumes fairness, and none limits the faults. Four theorems relate constants
to each other or fix them, in a named hypothesis that the numbers in the code meet:
`ReportsAreTrue`, `WindowIsMeasured`, `ColdChainIsUnbroken` and `SummaryIsAlwaysTrue`.

**Induction.** The library states induction and recursion for an operator parameter, which
no installed prover can instantiate. `Iteration` therefore states induction along an
interval for a *set* of numbers, from the well-foundedness of `<` on the naturals, and
recursion for a constant operator of the module, which each INSTANCE gives its value:
`Trail` (readings of a log), `Climb` (rows of a tree), `Descent` (places of a leaf), `Walk`
and `Check` (the two verifications). What these loops compute is thus proved for inputs of
every length.

* `MultichainProofs`, part one, about the pallet: `TypeCorrect`;
  `DeviceRegistryWrittenOnce` (refinement of `WriteOnceRegistry`: a device is written
  under an unused key, and no other action touches the map); `StoredEventsAlwaysVerify` and `SignaturesPinReadings`. The last
  needs that the encoding is injective for one device id: time and type are fixed-width,
  the payload is the rest.
  Of the trail: `TrailIsSelfContained`, with the strengthening `Announced` (every
  registered device was announced with its key); `ReplayIsConfined`, with the
  strengthening that each processed reading was inside the window at its admission.
  `CustodyRefinesLifecycle` (the stages of the batches implement
  `CustodyLifecycle`: every transition of the state machine leads to the next stage, and
  an evaluation writes one batch); `CustodyIsOrdered`, with the strengthening
  `StageIsCount` (the stage of a batch is one more than the evaluations of it in the
  trail, without which the next evaluation could announce any stage);
  `CountersAreExact`, with the strengthening that the registry is finite, so that a fresh
  device id makes it larger by one.
  `StorageIsRebuilt`, by the three parts of the property: a call
  writes its map under the key and with the value that its runtime event tells, and a
  lemma about appending one event relates what the trail said before and after.
* `AnchoringProofs`: `TypeCorrect`; `EnumerationIsConsistent`; `AnchoringsWrittenOnce`;
  `SubmittersAuthorized`, with the strengthening that the log of authorization changes,
  read to its end, is the mapping `authorizedSubmitters`; `StatisticsAreLatest`, with the
  strengthening `Chronological` (the array is in the order of the blocks, and no record is
  from a block to come); `LogsTellRecords`, inductive with the types alone.
* `MultichainProofs`, part two, about both chains: `WindowsAlwaysInOrder`,
  `BeliefAlwaysCovered`, `RefusalsAreCovered` and the refinement `ChainsImplementLedger`,
  from one inductive invariant in three parts, which was checked on the instance of
  `multichain` as well. None of it assumes that a reading is processed once.
  *TrailInv*: the ends of the blocks are in order within the trail. *LedgerInv*: every
  anchored root is enumerated, each record has the root and number of the readings between
  its blocks, begins after the one before it ends, and what was final before it is covered
  by those before it (`PriorCovered`); the covered readings are exactly those of the blocks
  up to the last record's end. *DaemonInv*: either the daemon knows the whole ledger, and
  what was final where it stopped is what the ledger covers (`KnowsLedger`), or its window
  without a receipt is the ledger's last record (`MissesLast`). Without it a resubmission
  could be refused for a window that the daemon has never seen. The argument about a
  submitted window: if its root is new, the record that is made covers the readings up to
  its end together with those before it (`WindowCompletes`); if the root is known, the
  record under it has the same readings, because a root pins its window, so they were
  covered before (`AnswerCovers`). What is final stays as it is when events and blocks are
  added (`FinalReadingsStable`, `ReadingsOfAppend`), so older records still fit.
* `MerkleProofs`, for windows of any length: `ProofsPinPayloads`, `RootsPinWindows`,
  `ContractProofsPinLeaves`. Rows shrink to one node (`HeightFacts`) and a leaf's place
  stays inside them (`PlaceFacts`). On the way up the walk's node is the tree's node at
  that place exactly if the leaf is the right one, because a hash of a pair determines
  either node given the other (`VerifyFacts`, `ContractFacts`); on the way down equal rows
  stem from equal rows of the same length (`ParentsDiffer`, `SameRootSameLeaves`). For the
  measurement, `FullRoundtripVouches` and `InclusionIsPinned` follow with the invariant
  `MeasureInv`: an identifier was returned by the add of its own payload, which stored
  it, and a fetch that gave the payload back had been asked for that identifier. They hold
  for any number of payloads, any position and any commands that fail. That a hash is
  injective is how the model represents it, not a fact about Blake2 or Keccak.
* `RobustnessProofs`: one inductive invariant for `TypeCorrect`, `PeakIsBounded`,
  `BacklogIsComplete` and `RecoveryIsPrompt`. `Cadence` in it says that an anchoring is
  overdue by no more steps than the partition has lasted, `NotRecovered` that until the
  recovery no root is anchored after the partition began; without them a step could find
  any staleness.
  Each step of the study is a step of the experiment or leaves it
  alone, so the experiment's invariant holds throughout (`StudyInvariance`).
  `SeriesAlwaysAgree`; `ReportsAreTrue`, that the reported time names the first anchoring
  since the heal, a reported 0 an anchoring in the very step of it, with the strengthening
  `Recovered` over the history `anchored_at` (as long as nothing is reported no anchoring is
  at or after the heal, and what is reported is the first one, `FirstAnchoring`). It assumes
  `GridCoversRecovery`, that the grid outlasts the heal by a period (the code's does: 120
  minutes against 60 + 5);
  `QuorumsIntersect`, from the threshold of `_finalize_prob`: the sum of two quorums
  exceeds four thirds of the validators, so more than a third is in both.
* `EdgeProofs`: `AdmittedAreAllStored`, with the strengthening `StoredWereEmitted` (every
  stored reading carries the number of an earlier one, so that the next is a new event);
  `WindowIsMeasured`, from `EdgeRegistered` (the pallet answers by the wait alone, because
  the device is registered with the key it signs with) and a lemma about rounding. It
  assumes `WindowAfterEpoch`: the chain's clock is further from the epoch than the window
  is wide, and a payload of one element is not too long, as in the test.
* `TablesProofs`: `RunsLeavePrefixes` and `LatencyViewsAlwaysAgree`, for any contents of the
  files. `Progress` says that the step a run has reached tells what it has written: nothing
  while it loads, and at the m-th artifact those before it that have data and none from it
  on. Without it a run that breaks off could have left anything. `TableIsLoaded` says that
  the table of the latest run shows the rows that this run has loaded, so the figure, made
  two artifacts later, cannot show other ones.
* `WorkloadProofs`: the invariant `GeneratorInv`, checked on the instance of `workload`
  before it was proved, says what is in the scenario after every iteration: which readings
  the farm's rounds left (`FarmContents`), which the truck's temperature and GPS loops
  (`TransportContents`), how many of each type are in the lists (`Counted`), that devices
  and credentials are those of the setup (`DevicesKnown`), and that hand-overs and summary
  are made of what the loops have left (`Concluded`). With it `CredentialsAlwaysCover`
  holds for any number and length of intervals, every seed and start time.
  `ColdChainIsUnbroken` needs
  `LoopsMeetHandOvers`: the farm's loop ends at the hand-over in hour 24 and the truck's at
  the one in hour 42, which are 288 and 216 rounds of five minutes. `SummaryIsAlwaysTrue`
  needs `IntervalsOfTheCode`, since the summary is written as literals; the start time and
  the length of an interval remain free.

**Only model-checked:** `Recovers` and `EveryReadingCovered`, which are liveness under
fairness, and `CurvesCountStates`. Its sums are folds over sets of states, where an
induction would have to follow the order in which the fold picks them, and its weights are
powers and binomials, for which the provers have no facts. What of E2 does not hang on
these sums, that two quorums intersect, is proved.

## 5. Not modelled

The daemon's own code (there is none, see section 2) and the chains' consensus; E3 of the
robustness study and its copy in `plot_connectivity_validation.py`, formulas over
exponentials without an exact counterpart (the behaviour they describe is in
`EdgeConnectivity`); the values of temperatures and coordinates and their jitter; gas and
weight measurements; medians, percentiles, LaTeX and drawing; timings and the CSV of the
IPFS measurement; the benchmark runtime and generated weights. `errors.csv` is loaded by
the tables and never used. `SignatureVerificationFailed`, `TimestampStale` and
`AnchoringFailed` are declared and never emitted; `Suspended` and `Revoked` are never
assigned. u64 counters do not wrap within any bound considered (2^64 calls).

## 6. What could follow

1. Two daemons, and a contract whose owner revokes one of them during a resubmission.
2. The curves with powers and sums as recursive functions over intervals, so that
   `CurvesCountStates` can be proved along `Iteration`.
