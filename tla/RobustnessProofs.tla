-------------------------- MODULE RobustnessProofs --------------------------
(***************************************************************************)
(* The partition experiment and the study around it, for every cadence,    *)
(* event rate, grid and set of partition windows, and the quorum rule for  *)
(* every number of validators.                                             *)
(***************************************************************************)
EXTENDS RobustnessStudy, FiniteSetTheorems, TLAPS

-----------------------------------------------------------------------------
(* E1: the partition experiment.                                           *)

\* How long anchoring can have been due before step i: one period, and the
\* part of the partition that has passed while it lasts.
Overdue == IF p_start < i /\ i <= healed THEN i - p_start ELSE 0

Cadence ==
    /\ last_anchor <= i
    /\ i > 0 => staleness = i - 1 - last_anchor
    /\ i - last_anchor <= ANCHOR_MIN + Overdue

\* Until the recovery no root is anchored after the partition began.
NotRecovered == recovery_time = None => last_anchor <= p_start

\* Before the first step nothing has been finalized.
Empty == i = 0 => unanchored = 0

IInv ==
    /\ TypeOK
    /\ Cadence
    /\ Empty
    /\ NotRecovered
    /\ PeakBounded
    /\ BacklogCoversStaleness
    /\ RecoveryPrompt

\* The loop starts in the invariant.
LEMMA InitIInv == Init => IInv
<1> USE PartitionAssumption
<1> QED
  BY DEF Init, IInv, TypeOK, Cadence, NotRecovered, PeakBounded,
         BacklogCoversStaleness, RecoveryPrompt, Empty, Overdue, healed,
         larger, None

\* One iteration keeps the types: subtracting an earlier time from a later
\* one is all the arithmetic there is.
LEMMA StepTypeOK == IInv /\ Step => TypeOK'
<1> USE PartitionAssumption
<1> QED
  BY DEF IInv, Step, TypeOK, Cadence, larger, recovery, anchors, backlog,
         partitioned, healed, None

\* An anchoring that is due is made at once outside the partition, so the
\* delay only grows inside it.
LEMMA StepCadence == IInv /\ Step => Cadence'
<1> USE PartitionAssumption
<1> SUFFICES ASSUME IInv, Step PROVE Cadence'
  OBVIOUS
<1>1. CASE anchors
  BY <1>1 DEF IInv, Step, TypeOK, Cadence, anchors, Overdue, healed
<1>2. CASE ~anchors
  BY <1>2 DEF IInv, Step, TypeOK, Cadence, anchors, Overdue, partitioned, healed
<1> QED BY <1>1, <1>2

\* The peak is a staleness that the cadence bounds.
LEMMA StepPeak == IInv /\ Step => PeakBounded'
<1> USE PartitionAssumption
<1> SUFFICES ASSUME IInv, Step PROVE PeakBounded'
  OBVIOUS
<1>1. staleness' <= p_dur + ANCHOR_MIN
  BY StepCadence, StepTypeOK
     DEF IInv, Step, TypeOK, Cadence, Overdue, healed
<1> QED BY <1>1, StepTypeOK DEF IInv, Step, TypeOK, PeakBounded, larger

\* One more step is one more helping of events.
LEMMA Distribute == \A a, n \in Nat : a * n + a = a * (n + 1)
OBVIOUS

\* An anchoring resets the backlog and the staleness together.
LEMMA StepBacklog == IInv /\ Step => BacklogCoversStaleness'
<1> USE PartitionAssumption
<1> SUFFICES ASSUME IInv, Step PROVE BacklogCoversStaleness'
  OBVIOUS
<1>1. CASE anchors
  <2>1. staleness' = 0 /\ unanchored' = EventsPerStep
    BY <1>1 DEF IInv, Step, TypeOK, backlog
  <2>2. EventsPerStep = EventsPerStep * (0 + 1)
    OBVIOUS
  <2> QED BY <2>1, <2>2 DEF BacklogCoversStaleness
<1>2. CASE ~anchors /\ i = 0
  <2>1. staleness' = 0 /\ unanchored' = EventsPerStep
    BY <1>2 DEF IInv, Step, TypeOK, Cadence, Empty, backlog
  <2>2. EventsPerStep = EventsPerStep * (0 + 1)
    OBVIOUS
  <2> QED BY <2>1, <2>2 DEF BacklogCoversStaleness
<1>3. CASE ~anchors /\ i > 0
  <2>1. staleness' = staleness + 1
    BY <1>3 DEF IInv, Step, TypeOK, Cadence
  <2>2. unanchored' = EventsPerStep * (staleness + 1) + EventsPerStep
    BY <1>3 DEF IInv, Step, TypeOK, BacklogCoversStaleness, backlog
  <2>3. EventsPerStep * (staleness + 1) + EventsPerStep
            = EventsPerStep * ((staleness + 1) + 1)
    BY Distribute DEF IInv, TypeOK
  <2> QED BY <2>1, <2>2, <2>3 DEF BacklogCoversStaleness
<1>4. i = 0 \/ i > 0
  BY DEF IInv, TypeOK
<1> QED BY <1>1, <1>2, <1>3, <1>4

\* Before the recovery the last anchoring is from before the partition, so
\* the next one is due ANCHOR_MIN after that, or at the heal.
LEMMA StepRecovery == IInv /\ Step => NotRecovered' /\ RecoveryPrompt'
<1> USE PartitionAssumption
<1> SUFFICES ASSUME IInv, Step PROVE NotRecovered' /\ RecoveryPrompt'
  OBVIOUS
<1>1. NotRecovered'
  BY DEF IInv, Step, TypeOK, NotRecovered, recovery, anchors, partitioned,
         healed, None
<1>2. RecoveryPrompt'
  BY DEF IInv, Step, TypeOK, Cadence, NotRecovered, RecoveryPrompt, Overdue,
         recovery, anchors, partitioned, healed, larger, None
<1> QED BY <1>1, <1>2

\* One iteration keeps the invariant, and a pause too.
LEMMA NextIInv == IInv /\ [Next]_vars => IInv'
<1>1. IInv /\ Step => IInv'
  <2>1. IInv /\ Step => Empty'
    BY DEF IInv, TypeOK, Step, Empty
  <2> QED
    BY <2>1, StepTypeOK, StepCadence, StepPeak, StepBacklog, StepRecovery
       DEF IInv
<1>2. IInv /\ UNCHANGED vars => IInv'
  BY DEF IInv, vars, TypeOK, Cadence, NotRecovered, PeakBounded,
         BacklogCoversStaleness, RecoveryPrompt, Empty, Overdue, healed
<1> QED BY <1>1, <1>2 DEF Next

\* The invariant holds throughout the experiment.
THEOREM Invariance == Spec => []IInv
<1> QED BY InitIInv, NextIInv, PTL DEF Spec

\* The variables of the loop keep their types: no subtraction of times goes
\* below zero.
THEOREM TypeCorrect == Spec => []TypeOK
<1>1. IInv => TypeOK
  BY DEF IInv
<1> QED BY <1>1, Invariance, PTL

\* The docstring's bound: staleness never exceeds the length of the partition
\* and one anchoring period.
THEOREM PeakIsBounded == Spec => []PeakBounded
<1>1. IInv => PeakBounded
  BY DEF IInv
<1> QED BY <1>1, Invariance, PTL

\* No event is lost: the backlog always holds all that was finalized since
\* the last anchoring.
THEOREM BacklogIsComplete == Spec => []BacklogCoversStaleness
<1>1. IInv => BacklogCoversStaleness
  BY DEF IInv
<1> QED BY <1>1, Invariance, PTL

\* The first anchoring after the heal comes at the heal, or when the period
\* that was running ends.
THEOREM RecoveryIsPrompt == Spec => []RecoveryPrompt
<1>1. IInv => RecoveryPrompt
  BY DEF IInv
<1> QED BY <1>1, Invariance, PTL

-----------------------------------------------------------------------------
(* E1 inside the study.                                                    *)

\* A step of the study is one of the experiment, or leaves it as it is.
LEMMA StudySteps ==
    ASSUME [StudyNext]_studyVars
    PROVE  [Next]_vars
<1> QED
  BY DEF StudyNext, PartitionStep, PartitionReport, ChurnPoint, IpfsPoint,
         NextCurve, studyVars, Next

\* The bounds of the experiment hold throughout the study.
THEOREM StudyInvariance == StudySpec => []IInv
<1>1. StudyInit => IInv
  BY InitIInv DEF StudyInit
<1>2. IInv /\ [StudyNext]_studyVars => IInv'
  BY StudySteps, NextIInv
<1> QED BY <1>1, <1>2, PTL DEF StudySpec

\* The two programs' loops draw the same series, for every partition window:
\* their conditions on the partition are the same one.
THEOREM SeriesAlwaysAgree == StudySpec => []SeriesAgree
<1>1. StudyInit => SeriesAgree
  BY DEF StudyInit, Init, SeriesAgree
<1>2. SeriesAgree /\ [StudyNext]_studyVars => SeriesAgree'
  <2>1. SeriesAgree /\ PartitionStep => SeriesAgree'
    BY DEF SeriesAgree, PartitionStep, Step, lastAnchor, anchors, partitioned
  <2>2. SeriesAgree /\ UNCHANGED <<last, s, last_anchor, staleness>> => SeriesAgree'
    BY DEF SeriesAgree
  <2> QED
    BY <2>1, <2>2
       DEF StudyNext, PartitionReport, ChurnPoint, IpfsPoint, NextCurve,
           studyVars, vars
<1> QED BY <1>1, <1>2, PTL DEF StudySpec

\* The grid leaves room for one period after each heal.
GridCoversRecovery ==
    \A w \in PartitionWindows : w.start + w.dur + ANCHOR_MIN <= LastStep

\* A root was anchored d steps after the heal, and none between.
FirstAnchoring(d) ==
    /\ healed + d \in anchored_at
    /\ \A step \in anchored_at : step >= healed => healed + d <= step

\* The recovery time is that of the first anchoring since the heal, and there
\* is none before the recovery; and the window is one of those considered.
Recovered ==
    /\ \A step \in anchored_at : step < i
    /\ recovery_time = None => \A step \in anchored_at : step < healed
    /\ recovery_time # None => FirstAnchoring(recovery_time)
    /\ \E w \in PartitionWindows : p_start = w.start /\ p_dur = w.dur

\* Before the first anchoring since the heal there is none, after it the later
\* ones are later; and the window never changes.
LEMMA StudyRecovered ==
    ASSUME IInv, Recovered, [StudyNext]_studyVars
    PROVE  Recovered'
<1>1. CASE Step
  <2>1. /\ i \in Nat /\ healed \in Nat /\ healed' = healed /\ i' = i + 1
        /\ anchored_at \subseteq Nat
        /\ recovery_time \in Nat \cup {None}
        /\ recovery_time' = recovery
    BY <1>1 DEF IInv, TypeOK, Step, healed
  <2>2. \E w \in PartitionWindows : p_start' = w.start /\ p_dur' = w.dur
    BY <1>1 DEF Recovered, Step
  <2>3. CASE ~anchors
    <3>1. anchored_at' = anchored_at /\ recovery_time' = recovery_time
      BY <1>1, <2>3 DEF Step, recovery
    <3> QED BY <2>1, <2>2, <3>1 DEF Recovered, FirstAnchoring
  <2>4. CASE anchors
    <3>1. anchored_at' = anchored_at \cup {i}
      BY <1>1, <2>4 DEF Step
    <3>2. \A step \in anchored_at' : step < i'
      BY <2>1, <3>1 DEF Recovered
    <3>3. CASE recovery_time # None
      <4>1. recovery_time' = recovery_time
        BY <2>1, <3>3 DEF recovery
      <4>2. FirstAnchoring(recovery_time)'
        BY <2>1, <3>1, <3>3, <4>1 DEF Recovered, FirstAnchoring
      <4> QED BY <2>2, <3>2, <3>3, <4>1, <4>2 DEF Recovered
    <3>4. CASE recovery_time = None /\ healed <= i
      <4>1. recovery_time' = i - healed /\ healed + (i - healed) = i
        BY <2>1, <2>4, <3>4 DEF recovery
      <4>2. \A step \in anchored_at : step < healed
        BY <3>4 DEF Recovered
      <4>3. FirstAnchoring(recovery_time)'
        BY <2>1, <3>1, <4>1, <4>2 DEF FirstAnchoring
      <4>4. recovery_time' # None
        BY <2>1, <3>4, <4>1 DEF None
      <4> QED BY <2>2, <3>2, <4>3, <4>4 DEF Recovered
    <3>5. CASE recovery_time = None /\ ~(healed <= i)
      <4>1. recovery_time' = None
        BY <2>1, <3>5 DEF recovery
      <4>2. \A step \in anchored_at' : step < healed'
        BY <2>1, <3>1, <3>5 DEF Recovered
      <4> QED BY <2>2, <3>2, <4>1, <4>2 DEF Recovered
    <3> QED BY <3>3, <3>4, <3>5
  <2> QED BY <2>3, <2>4
<1>2. CASE UNCHANGED vars
  BY <1>2 DEF Recovered, FirstAnchoring, vars, healed
<1> QED BY <1>1, <1>2, StudySteps DEF Next

\* While a summary is there its recovery time is that of the loop, which is
\* over.
Reported ==
    summary # <<>> => /\ experiment # "partition"
                      /\ recovery_time # None
                      /\ summary.recovery_min = recovery_time

\* The report finds a recovery if the grid is long enough for it.
LEMMA StudyReported ==
    ASSUME GridCoversRecovery, IInv, Recovered, Reported,
           [StudyNext]_studyVars
    PROVE  Reported'
<1>1. CASE PartitionReport
  <2>1. recovery_time # None
    BY <1>1, PartitionAssumption
       DEF PartitionReport, GridCoversRecovery, Recovered, IInv, TypeOK,
           RecoveryPrompt, healed, larger
  <2> QED BY <1>1, <2>1 DEF PartitionReport, Reported, vars
<1>2. CASE PartitionStep
  BY <1>2 DEF PartitionStep, Reported
<1>3. CASE \/ ChurnPoint \/ IpfsPoint
           \/ UNCHANGED studyVars
  BY <1>3 DEF ChurnPoint, IpfsPoint, studyVars, vars, Reported
<1>4. ASSUME NEW name, NEW length, NEW cases, NEW next,
             NextCurve(name, length, cases, next), next # "partition"
      PROVE  Reported'
  BY <1>4 DEF NextCurve, vars, Reported
<1> QED BY <1>1, <1>2, <1>3, <1>4 DEF StudyNext

\* A summary that was written reports the first anchoring since the heal,
\* whenever the grid is long enough: "or 0.0" never stands for "never".
THEOREM ReportsAreTrue ==
    GridCoversRecovery => (StudySpec => []ReportedRecoveryHappened)
<1> SUFFICES ASSUME GridCoversRecovery
             PROVE  StudySpec => []ReportedRecoveryHappened
  OBVIOUS
<1>1. StudyInit => Recovered /\ Reported
  BY DEF StudyInit, Init, Recovered, Reported, None
<1>2. IInv /\ Recovered /\ Reported /\ [StudyNext]_studyVars
        => Recovered' /\ Reported'
  BY StudyRecovered, StudyReported
<1>3. Recovered /\ Reported => ReportedRecoveryHappened
  BY DEF Recovered, Reported, FirstAnchoring, ReportedRecoveryHappened
<1> QED
  BY <1>1, <1>2, <1>3, StudyInvariance, PTL DEF StudySpec

-----------------------------------------------------------------------------
(* E2: the quorum that the binomial sum starts from.                       *)

\* floor(2n/3) + 1 is the least number above 2n/3, for the multiples of three
\* and for the others.
LEMMA NeedIsStrictTwoThirds ==
    ASSUME NEW n \in Nat, NEW k \in Nat
    PROVE  k >= Need(n) <=> 3 * k > 2 * n
BY DEF Need

\* Why a quorum finalizes: any two quorums of one set of validators share
\* more than a third of it, whoever is online.
THEOREM QuorumsIntersect ==
    ASSUME NEW validators, IsFiniteSet(validators),
           NEW A \in SUBSET validators, NEW B \in SUBSET validators,
           Finalizes(A, validators), Finalizes(B, validators)
    PROVE  3 * Cardinality(A \cap B) > Cardinality(validators)
<1>1. /\ IsFiniteSet(A) /\ IsFiniteSet(B)
      /\ IsFiniteSet(A \cap B) /\ IsFiniteSet(A \cup B)
      /\ Cardinality(A \cup B) <= Cardinality(validators)
  BY FS_Subset, FS_Union
<1>2. /\ Cardinality(A) \in Nat /\ Cardinality(B) \in Nat
      /\ Cardinality(A \cap B) \in Nat /\ Cardinality(validators) \in Nat
      /\ Cardinality(A \cup B) \in Nat
  BY <1>1, FS_CardinalityType
<1>3. Cardinality(A \cup B)
          = Cardinality(A) + Cardinality(B) - Cardinality(A \cap B)
  BY <1>1, FS_Union
<1>4. /\ 3 * Cardinality(A) > 2 * Cardinality(validators)
      /\ 3 * Cardinality(B) > 2 * Cardinality(validators)
  BY <1>2, NeedIsStrictTwoThirds DEF Finalizes
<1> QED BY <1>1, <1>2, <1>3, <1>4
=============================================================================
