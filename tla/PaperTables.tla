----------------------------- MODULE PaperTables -----------------------------
(***************************************************************************)
(* generate_paper_tables.py: tables and figures from the experiments' CSV  *)
(* files.  A run loads the three files it uses, one after the other, and   *)
(* then makes five artifacts in a fixed order.  Artifacts stay on disk     *)
(* from run to run; experiments rewrite their files at any time.           *)
(*                                                                         *)
(* A file that is missing and one without rows load alike, so both are     *)
(* <<>>.  A row is well formed except that a number may not parse.         *)
(* Costs are in the units of AnalyticalModel, latencies in milliseconds.   *)
(*                                                                         *)
(* An operator commented "Fault:" is a faulty variant of the operator that *)
(* follows the faults; the specification does not use it.                  *)
(***************************************************************************)
EXTENDS Integers, SequencesExt, AnalyticalModel

CONSTANTS
    CostFiles, LatencyFiles, ComplexityFiles,   \* what each file can hold
    MaxRuns,    \* bound: runs of the program
    MaxEdits    \* bound: times that an experiment rewrites a file

VARIABLES
    csv,        \* the files in the results directory
    results,    \* what the run has loaded of each
    pc,         \* the step that comes next; "idle" between runs
    artifacts,  \* on disk: what each shows
    made_by,    \* history: the run that wrote each artifact, 0 for none
    run,        \* history: the number of the run
    edits       \* history: rewrites so far

vars == <<csv, results, pc, artifacts, made_by, run, edits>>

ASSUME TablesAssumption == MaxRuns \in Nat /\ MaxEdits \in Nat

Sections == {"costs", "latencies", "complexity"}
FilesOf ==
    [costs |-> CostFiles, latencies |-> LatencyFiles,
     complexity |-> ComplexityFiles]

\* The artifacts in the order in which main makes them, and the section of
\* the results that each is made from.
Artifacts == <<"cost_comparison", "latency_breakdown", "complexity_validation",
               "latency_figure", "scaling_plot">>
SectionOf ==
    [cost_comparison |-> "costs", latency_breakdown |-> "latencies",
     complexity_validation |-> "complexity", latency_figure |-> "latencies",
     scaling_plot |-> "complexity"]

\* Text that float() refuses.
NotANumber == -1

-----------------------------------------------------------------------------
(* Means, as exact fractions.                                              *)

Fraction(num, den) == [num |-> num, den |-> den]
Add(a, b) == Fraction(a.num * b.den + b.num * a.den, a.den * b.den)
SumOf(fractions) == FoldSeq(Add, Fraction(0, 1), fractions)
Mean(numbers) == Fraction(SumOf([k \in DOMAIN numbers |->
                                    Fraction(numbers[k], 1)]).num, Len(numbers))

-----------------------------------------------------------------------------
(* The cost table.                                                         *)

Predicted ==
    [device_registration |-> PredictDeviceCost(1),
     event_processing |-> PredictEventCost(1),
     governance_checkpoint |-> PredictGovernanceCost(1),
     merkle_anchoring |-> PredictAnchoringCost]

\* The total leaves the anchoring out.
BatchOperations ==
    <<"device_registration", "event_processing", "governance_checkpoint">>

CostsOf(costs, op) ==
    LET rows == SelectSeq(costs, LAMBDA row : row.operation = op)
    IN [k \in DOMAIN rows |-> rows[k].cost_usd]

\* measured_means.get(op, predicted)
Measured(costs, op) ==
    IF CostsOf(costs, op) = <<>> THEN Fraction(Predicted[op], 1)
    ELSE Mean(CostsOf(costs, op))

TotalMeasured(costs) ==
    SumOf([k \in DOMAIN BatchOperations |->
              Measured(costs, BatchOperations[k])])

CostTable(costs) ==
    [measured |-> [op \in DOMAIN Predicted |-> Measured(costs, op)],
     total |-> TotalMeasured(costs)]

-----------------------------------------------------------------------------
(* Latencies, and scaling.                                                 *)

Stages == {"event_submission", "substrate_inclusion", "substrate_finality",
           "reconciliation_trigger", "ethereum_anchoring"}

SamplesOf(latencies, stage) ==
    LET rows == SelectSeq(latencies, LAMBDA row : row.stage = stage)
    IN [k \in DOMAIN rows |-> rows[k].latency_ms]

\* generate_latency_table: a line for each stage with samples.  The numbers
\* are printed with the unit s.
LatencyTable(latencies) ==
    [stage \in {s \in Stages \cup {"end_to_end"} :
                   SamplesOf(latencies, s) # <<>>} |->
        Mean(SamplesOf(latencies, stage))]

\* generate_latency_breakdown_figure: a bar for each stage, 0 without samples.
LatencyFigure(latencies) ==
    [stage \in Stages |->
        IF SamplesOf(latencies, stage) = <<>> THEN Fraction(0, 1)
        ELSE Mean(SamplesOf(latencies, stage))]

ScalingColumns == {"scale", "device_lookup_s", "policy_eval_s"}

\* The complexity table is literal text, whatever the rows say.
ComplexityTable ==
    [device_lookup |-> 98, event_validation |-> 99, policy_evaluation |-> 97,
     merkle_construction |-> 99]

Render(artifact, rows) ==
    CASE artifact = "cost_comparison" -> CostTable(rows)
      [] artifact = "latency_breakdown" -> LatencyTable(rows)
      [] artifact = "complexity_validation" -> ComplexityTable
      [] artifact = "latency_figure" -> LatencyFigure(rows)
      [] artifact = "scaling_plot" -> rows

\* Skips: no rows, or not the columns of the plot.
Skips(artifact, rows) ==
    \/ rows = <<>>
    \/ /\ rows # <<>>
       /\ artifact = "scaling_plot"
       /\ ~ ScalingColumns \subseteq DOMAIN rows[1]

NumbersRead ==
    [cost_comparison |-> {"cost_usd"}, latency_breakdown |-> {"latency_ms"},
     complexity_validation |-> {}, latency_figure |-> {"latency_ms"},
     scaling_plot |-> ScalingColumns]

\* float() raises: nothing catches it.
Raises(artifact, rows) ==
    \E k \in DOMAIN rows : \E column \in NumbersRead[artifact] :
        rows[k][column] = NotANumber

-----------------------------------------------------------------------------

Init ==
    /\ csv \in [Sections -> {<<>>}]
    /\ results = csv
    /\ pc = "idle"
    /\ artifacts = [a \in ToSet(Artifacts) |-> <<>>]
    /\ made_by = [a \in ToSet(Artifacts) |-> 0]
    /\ run = 0
    /\ edits = 0

\* An experiment replaces, or removes, its file.
Experiment ==
    /\ edits < MaxEdits
    /\ edits' = edits + 1
    /\ \E section \in Sections : \E rows \in FilesOf[section] :
          csv' = [csv EXCEPT ![section] = rows]
    /\ UNCHANGED <<results, pc, artifacts, made_by, run>>

Start ==
    /\ pc = "idle"
    /\ run < MaxRuns
    /\ run' = run + 1
    /\ pc' = "costs"
    /\ UNCHANGED <<csv, results, artifacts, made_by, edits>>

\* load_experimental_results, file by file.
Load(section, next) ==
    /\ pc = section
    /\ results' = [results EXCEPT ![section] = csv[section]]
    /\ pc' = next
    /\ UNCHANGED <<csv, artifacts, made_by, run, edits>>

Continue(n) ==
    pc' = IF n = Len(Artifacts) THEN "idle" ELSE Artifacts[n + 1]

Skip(n) ==
    /\ pc = Artifacts[n]
    /\ Skips(Artifacts[n], results[SectionOf[Artifacts[n]]])
    /\ Continue(n)
    /\ UNCHANGED <<csv, results, artifacts, made_by, run, edits>>

\* Fault: the exception is caught for each artifact.
CrashCaught(n) ==
    LET rows == results[SectionOf[Artifacts[n]]] IN
    /\ pc = Artifacts[n]
    /\ ~ Skips(Artifacts[n], rows)
    /\ Raises(Artifacts[n], rows)
    /\ Continue(n)
    /\ UNCHANGED <<csv, results, artifacts, made_by, run, edits>>

\* The exception ends the run.
Crash(n) ==
    LET rows == results[SectionOf[Artifacts[n]]] IN
    /\ pc = Artifacts[n]
    /\ ~ Skips(Artifacts[n], rows)
    /\ Raises(Artifacts[n], rows)
    /\ pc' = "idle"
    /\ UNCHANGED <<csv, results, artifacts, made_by, run, edits>>

\* Fault: an artifact is made from the file as it is by then.
WriteFromFile(n) ==
    LET rows == csv[SectionOf[Artifacts[n]]] IN
    /\ pc = Artifacts[n]
    /\ ~ Skips(Artifacts[n], rows)
    /\ ~ Raises(Artifacts[n], rows)
    /\ artifacts' = [artifacts EXCEPT ![Artifacts[n]] =
                         Render(Artifacts[n], rows)]
    /\ made_by' = [made_by EXCEPT ![Artifacts[n]] = run]
    /\ Continue(n)
    /\ UNCHANGED <<csv, results, run, edits>>

Write(n) ==
    LET rows == results[SectionOf[Artifacts[n]]] IN
    /\ pc = Artifacts[n]
    /\ ~ Skips(Artifacts[n], rows)
    /\ ~ Raises(Artifacts[n], rows)
    /\ artifacts' = [artifacts EXCEPT ![Artifacts[n]] =
                         Render(Artifacts[n], rows)]
    /\ made_by' = [made_by EXCEPT ![Artifacts[n]] = run]
    /\ Continue(n)
    /\ UNCHANGED <<csv, results, run, edits>>

Next ==
    \/ Experiment
    \/ Start
    \/ Load("costs", "latencies")
    \/ Load("latencies", "complexity")
    \/ Load("complexity", Artifacts[1])
    \/ \E n \in DOMAIN Artifacts : Skip(n) \/ Crash(n) \/ Write(n)

Spec == Init /\ [][Next]_vars

-----------------------------------------------------------------------------

\* A run that breaks off leaves a prefix: an artifact of the run has every
\* earlier artifact with data from the same run, so that no two artifacts of
\* one run are separated by one of an older run.
RunLeavesPrefix ==
    \A j, k \in DOMAIN Artifacts :
        /\ j < k
        /\ made_by[Artifacts[k]] = run
        /\ ~ Skips(Artifacts[j], results[SectionOf[Artifacts[j]]])
        => made_by[Artifacts[j]] = run

\* The latency table and the latency figure of a run show the same means,
\* though the file may be rewritten between the two.
LatencyViewsAgree ==
    LET table == artifacts["latency_breakdown"]
        figure == artifacts["latency_figure"]
    IN  /\ made_by["latency_figure"] # 0
        /\ made_by["latency_figure"] = made_by["latency_breakdown"]
        => \A stage \in Stages :
              figure[stage] = IF stage \in DOMAIN table THEN table[stage]
                              ELSE Fraction(0, 1)

\* The latency table prints its numbers in seconds, and the figure calls its
\* axis "Time (seconds)": a number shown is the mean of the samples, which
\* are in milliseconds, divided by 1000.
LatenciesInSeconds ==
    LET shown == artifacts["latency_breakdown"] IN
    made_by["latency_breakdown"] = run /\ run # 0 =>
        \A stage \in DOMAIN shown :
            LET mean == Mean(SamplesOf(results["latencies"], stage))
            IN 1000 * shown[stage].num * mean.den = mean.num * shown[stage].den
=============================================================================
