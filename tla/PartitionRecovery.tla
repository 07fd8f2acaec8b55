-------------------------- MODULE PartitionRecovery --------------------------
(***************************************************************************)
(* Experiment E1 of the robustness study (exp_partition): the anchoring    *)
(* cadence of the reconciliation daemon across one partition between the   *)
(* two chains.  An iteration of the loop over the time grid is an action;  *)
(* time is counted in grid steps, a step being the code's dt.              *)
(*                                                                         *)
(* The code runs one partition window; here Init picks any window from     *)
(* PartitionWindows, so that the claims of the docstring are checked       *)
(* wherever the partition falls on the cadence.                            *)
(*                                                                         *)
(* An operator commented "Fault:" is a faulty variant of the operator that *)
(* follows the faults; the specification does not use it.                  *)
(***************************************************************************)
EXTENDS Integers

CONSTANTS
    ANCHOR_MIN,         \* anchoring cadence (5 minutes, 20 steps)
    EventsPerStep,      \* EVENT_RATE * dt (5 events)
    LastStep,           \* bound: the index of the last time in the grid
    PartitionWindows    \* the windows considered, as [start, dur] records

VARIABLES
    i,              \* the step that the loop is about to process
    p_start,        \* when the partition begins
    p_dur,          \* how long it lasts
    last_anchor,    \* when a root was last anchored
    unanchored,     \* finalized events that no anchored root covers
    staleness,      \* of the step last processed
    peak_stale,
    recovery_time,  \* from the heal to the next anchoring; None before
    anchored_at     \* history: the steps in which a root was anchored

vars == <<i, p_start, p_dur, last_anchor, unanchored, staleness, peak_stale,
          recovery_time, anchored_at>>

None == -1

ASSUME PartitionAssumption ==
    /\ ANCHOR_MIN \in Nat \ {0}
    /\ EventsPerStep \in Nat
    /\ LastStep \in Nat
    /\ PartitionWindows \subseteq [start : Nat, dur : Nat]

healed == p_start + p_dur
partitioned == p_start <= i /\ i < healed

larger(a, b) == IF a >= b THEN a ELSE b

-----------------------------------------------------------------------------

Init ==
    /\ i = 0
    /\ \E w \in PartitionWindows : p_start = w.start /\ p_dur = w.dur
    /\ last_anchor = 0
    /\ unanchored = 0
    /\ staleness = 0
    /\ peak_stale = 0
    /\ recovery_time = None
    /\ anchored_at = {}

\* Fault: the daemon does not try again until a full period after the heal.
anchorsLate ==
    i - last_anchor >= ANCHOR_MIN /\ ~(p_start <= i /\ i < healed + ANCHOR_MIN)

\* Fault: the heal goes unnoticed.
anchorsUntilPartition == i - last_anchor >= ANCHOR_MIN /\ ~(p_start <= i)

\* Anchoring is attempted on the cadence and succeeds when connected.
anchors == i - last_anchor >= ANCHOR_MIN /\ ~partitioned

\* Fault: the events of this step are counted before the anchoring clears.
backlogCleared == IF anchors THEN 0 ELSE unanchored + EventsPerStep

\* The events of this step are counted after the anchoring cleared the rest.
backlog == (IF anchors THEN 0 ELSE unanchored) + EventsPerStep

\* Fault: every later anchoring overwrites the recovery time.
recoveryLast == IF anchors /\ healed <= i THEN i - healed ELSE recovery_time

\* Only the first anchoring after the heal sets it.
recovery ==
    IF anchors /\ healed <= i /\ recovery_time = None
    THEN i - healed ELSE recovery_time

\* One iteration of the loop over t.
Step ==
    /\ i <= LastStep
    /\ last_anchor' = IF anchors THEN i ELSE last_anchor
    /\ anchored_at' = IF anchors THEN anchored_at \cup {i} ELSE anchored_at
    /\ recovery_time' = recovery
    /\ unanchored' = backlog
    /\ staleness' = i - last_anchor'
    /\ peak_stale' = larger(peak_stale, staleness')
    /\ i' = i + 1
    /\ UNCHANGED <<p_start, p_dur>>

Next == Step

Spec == Init /\ [][Next]_vars /\ WF_vars(Next)

-----------------------------------------------------------------------------

\* The types of the loop's variables.
TypeOK ==
    /\ i \in Nat
    /\ p_start \in Nat
    /\ p_dur \in Nat
    /\ last_anchor \in Nat
    /\ unanchored \in Nat
    /\ staleness \in Nat
    /\ peak_stale \in Nat
    /\ recovery_time \in Nat \cup {None}
    /\ anchored_at \subseteq Nat

\* "Peak staleness is bounded by D + ANCHOR_MIN", wherever the partition
\* falls between two anchorings.
PeakBounded == peak_stale <= p_dur + ANCHOR_MIN

\* "No events are lost": the backlog is all that was finalized since the last
\* anchoring, this step included, so the next root leaves no event out.
BacklogCoversStaleness ==
    i > 0 => unanchored = EventsPerStep * (staleness + 1)

\* "On heal the next anchor clears the whole backlog": recovery comes at the
\* heal, or when the running period ends if the partition was shorter.
RecoveryPrompt ==
    LET latest == larger(0, ANCHOR_MIN - p_dur) IN
    /\ recovery_time # None => recovery_time <= latest
    /\ i > healed + latest => recovery_time # None

\* The daemon catches up: some anchoring after the heal does happen.
Recovers == (healed + ANCHOR_MIN <= LastStep) ~> (recovery_time # None)
=============================================================================
