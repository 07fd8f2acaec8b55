--------------------------- MODULE RobustnessStudy ---------------------------
(***************************************************************************)
(* The main program of the robustness study: experiment after experiment,  *)
(* each adding to the summary that is written last.  E1 is the loop of     *)
(* PartitionRecovery, with the copy of it in plot_partition_validation.py  *)
(* run in step; E2 and E4 sweep the formulas of RobustnessCurves, a point  *)
(* of a curve at a time.  E3 is a formula over exponentials and left out.  *)
(***************************************************************************)
EXTENDS PartitionRecovery, RobustnessCurves, Sequences

CONSTANTS
    ChurnCases,     \* sequence of [n, D]: validators, and the resolution
    Outages,        \* sequence of per-replica outages q, in tenths
    Factors,        \* bound: the largest replication factor
    K               \* payloads of the batch

VARIABLES
    experiment,     \* the experiment that runs
    case,           \* which curve of it
    curve,          \* the points of that curve so far
    summary,        \* what the experiments reported
    last,           \* plot_partition_validation: when a root was last anchored
    s               \* and the staleness at the last step

sweep == <<case, curve>>
studyVars == <<vars, experiment, sweep, summary, last, s>>

ASSUME StudyAssumption ==
    /\ \A c \in DOMAIN ChurnCases : ChurnCases[c] \in [n : Nat \ {0}, D : Nat \ {0}]
    /\ \A c \in DOMAIN Outages : Outages[c] \in 0 .. 10
    /\ Factors \in Nat \ {0}
    /\ K \in Nat \ {0}

-----------------------------------------------------------------------------

StudyInit ==
    /\ Init
    /\ experiment = "partition"
    /\ case = 1
    /\ curve = <<>>
    /\ summary = <<>>
    /\ last = 0
    /\ s = 0

\* Fault: the copy takes the heal for part of the partition.
lastAnchorLateHeal ==
    IF i - last >= ANCHOR_MIN /\ ~(p_start <= i /\ i <= healed) THEN i ELSE last

\* staleness_series, its loop body.
lastAnchor ==
    IF i - last >= ANCHOR_MIN /\ ~(p_start <= i /\ i < healed) THEN i ELSE last

PartitionStep ==
    /\ experiment = "partition"
    /\ Step
    /\ last' = lastAnchor
    /\ s' = i - last'
    /\ UNCHANGED <<experiment, sweep, summary>>

\* The end of exp_partition: "recovery_time or 0.0", and a literal 0.
PartitionReport ==
    /\ experiment = "partition"
    /\ i > LastStep
    /\ summary' = [partition_min |-> p_dur, peak_staleness_min |-> peak_stale,
                   recovery_min |->
                       IF recovery_time = None THEN 0 ELSE recovery_time,
                   events_lost |-> 0]
    /\ experiment' = "churn"
    /\ UNCHANGED <<vars, sweep, last, s>>

\* The point of the curve of c that comes next: unavailability in steps of
\* 1/D from none to a half.
ChurnPoint ==
    LET c == ChurnCases[case] IN
    /\ experiment = "churn"
    /\ Len(curve) <= c.D \div 2
    /\ curve' = Append(curve, finalize_prob(c.n, Len(curve), c.D))
    /\ UNCHANGED <<vars, experiment, case, summary, last, s>>

IpfsPoint ==
    /\ experiment = "ipfs"
    /\ Len(curve) < Factors
    /\ curve' = Append(curve, BatchAvail(Outages[case], Len(curve) + 1, K, 10))
    /\ UNCHANGED <<vars, experiment, case, summary, last, s>>

\* A curve is drawn: the next one, or the next experiment.
NextCurve(name, length, cases, next) ==
    /\ experiment = name
    /\ Len(curve) = length
    /\ curve' = <<>>
    /\ \/ case < cases /\ case' = case + 1 /\ UNCHANGED experiment
       \/ case = cases /\ case' = 1 /\ experiment' = next
    /\ UNCHANGED <<vars, summary, last, s>>

StudyNext ==
    \/ PartitionStep
    \/ PartitionReport
    \/ ChurnPoint
    \/ NextCurve("churn", ChurnCases[case].D \div 2 + 1, Len(ChurnCases), "ipfs")
    \/ IpfsPoint
    \/ NextCurve("ipfs", Factors, Len(Outages), "written")

StudySpec == StudyInit /\ [][StudyNext]_studyVars /\ WF_studyVars(StudyNext)

-----------------------------------------------------------------------------

\* Two programs draw the staleness of one experiment, each with a loop of its
\* own: they show the same series.
SeriesAgree ==
    /\ last = last_anchor
    /\ s = staleness

\* The recovery time of the summary is the time from the heal to the first
\* anchoring since: a root was anchored that many steps after the heal, and
\* none between.  So a 0 says that one was anchored in the very step of the
\* heal, not that none ever was.
ReportedRecoveryHappened ==
    summary # <<>> =>
        LET reported == healed + summary.recovery_min
        IN /\ reported \in anchored_at
           /\ \A step \in anchored_at : step >= healed => reported <= step

\* Each point of a curve is the weight of all the states that it stands for.
\* The binomial sum from Need(n) on counts every set of online validators
\* with "online > 2n/3", multiples of three included; the power of a power
\* counts every state of the replicas in which "all K events" are there.
CurvesCountStates ==
    curve # <<>> =>
        \/ /\ experiment = "churn"
           /\ curve[Len(curve)] = FinalizeWeight(ChurnCases[case].n,
                                       Len(curve) - 1, ChurnCases[case].D)
        \/ /\ experiment = "ipfs"
           /\ curve[Len(curve)] = BatchWeight(Outages[case], Len(curve), K, 10)
=============================================================================
