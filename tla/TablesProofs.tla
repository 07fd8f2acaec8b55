----------------------------- MODULE TablesProofs -----------------------------
(***************************************************************************)
(* What the runs of generate_paper_tables.py leave on disk, for every      *)
(* content of the files, any number of runs and rewrites at any time.      *)
(***************************************************************************)
EXTENDS PaperTables, TLAPS

-----------------------------------------------------------------------------
(* The invariant.                                                          *)

Loading == {"costs", "latencies", "complexity"}

OfThisRun(n) == made_by[Artifacts[n]] = run

SkippedNow(n) == Skips(Artifacts[n], results[SectionOf[Artifacts[n]]])

TablesTypes ==
    /\ run \in Nat
    /\ made_by \in [ToSet(Artifacts) -> 0 .. run]
    /\ DOMAIN artifacts = ToSet(Artifacts)
    /\ DOMAIN results = Sections
    /\ pc \in {"idle"} \cup Loading \cup ToSet(Artifacts)

\* Where the run stands tells what it has written: nothing while it loads,
\* then the artifacts before the next one, as far as they have data.
Progress ==
    /\ pc # "idle" => run # 0
    /\ pc \in Loading => \A n \in DOMAIN Artifacts : ~ OfThisRun(n)
    /\ \A m \in DOMAIN Artifacts : pc = Artifacts[m] =>
          /\ \A n \in 1 .. m - 1 : OfThisRun(n) \/ SkippedNow(n)
          /\ \A n \in m .. Len(Artifacts) : ~ OfThisRun(n)

\* The table of this run shows the rows that the run has loaded.
TableIsLoaded ==
    /\ run # 0
    /\ made_by["latency_breakdown"] = run
    => artifacts["latency_breakdown"] = LatencyTable(results["latencies"])

TablesInv ==
    /\ TablesTypes
    /\ Progress
    /\ RunLeavesPrefix
    /\ TableIsLoaded
    /\ LatencyViewsAgree

-----------------------------------------------------------------------------
(* The artifacts and their order.                                          *)

\* Five artifacts with names of their own, none the name of a loading step.
LEMMA ArtifactFacts ==
    /\ DOMAIN Artifacts = 1 .. 5 /\ Len(Artifacts) = 5
    /\ \A n \in 1 .. 5 : Artifacts[n] \in ToSet(Artifacts)
    /\ \A n \in 1 .. 5 : Artifacts[n] \notin {"idle"} \cup Loading
    /\ \A m, n \in 1 .. 5 : Artifacts[m] = Artifacts[n] => m = n
    /\ Artifacts[1] = "cost_comparison"
    /\ Artifacts[2] = "latency_breakdown" /\ Artifacts[4] = "latency_figure"
    /\ "latency_breakdown" \in ToSet(Artifacts)
    /\ "latency_figure" \in ToSet(Artifacts)
<1>1. DOMAIN Artifacts = 1 .. 5 /\ Len(Artifacts) = 5
  BY DEF Artifacts
<1>2. \A n \in 1 .. 5 : n = 1 \/ n = 2 \/ n = 3 \/ n = 4 \/ n = 5
  OBVIOUS
<1>3. \A n \in 1 .. 5 : Artifacts[n] \in ToSet(Artifacts)
  BY <1>1 DEF ToSet
<1>4. \A n \in 1 .. 5 : Artifacts[n] \notin {"idle"} \cup Loading
  BY <1>2 DEF Artifacts, Loading
<1>5. \A m, n \in 1 .. 5 : Artifacts[m] = Artifacts[n] => m = n
  BY <1>2 DEF Artifacts
<1>6. /\ Artifacts[1] = "cost_comparison"
      /\ Artifacts[2] = "latency_breakdown" /\ Artifacts[4] = "latency_figure"
  BY DEF Artifacts
<1>7. /\ Artifacts[2] \in ToSet(Artifacts)
      /\ Artifacts[4] \in ToSet(Artifacts)
  BY <1>3
<1> QED BY <1>1, <1>3, <1>4, <1>5, <1>6, <1>7

-----------------------------------------------------------------------------
(* The steps.                                                              *)

LEMMA InitTablesInv == Init => TablesInv
<1> SUFFICES ASSUME Init PROVE TablesInv
  OBVIOUS
<1>1. TablesTypes
  BY DEF Init, TablesTypes, Sections
<1>2. Progress
  <2>1. pc = "idle"
    BY DEF Init
  <2> QED BY <2>1, ArtifactFacts DEF Progress, Loading
<1>3. RunLeavesPrefix
  BY ArtifactFacts DEF Init, RunLeavesPrefix
<1>4. TableIsLoaded /\ LatencyViewsAgree
  BY ArtifactFacts DEF Init, TableIsLoaded, LatencyViewsAgree
<1> QED BY <1>1, <1>2, <1>3, <1>4 DEF TablesInv

\* What a run starts with is an older run's.
LEMMA StartInv ==
    ASSUME TablesInv, Start
    PROVE  TablesInv'
<1>1. /\ run \in Nat /\ run' = run + 1 /\ pc' = "costs"
      /\ UNCHANGED <<csv, results, artifacts, made_by, edits>>
  BY DEF Start, TablesInv, TablesTypes
<1>2. \A a \in ToSet(Artifacts) : made_by[a] \in 0 .. run
  BY DEF TablesInv, TablesTypes
<1>3. \A a \in ToSet(Artifacts) : made_by'[a] # run'
  BY <1>1, <1>2
<1>4. \A n \in 1 .. 5 : ~ OfThisRun(n)'
  BY <1>3, ArtifactFacts DEF OfThisRun
<1>5. TablesTypes'
  <2>1. made_by \in [ToSet(Artifacts) -> 0 .. run]
    BY DEF TablesInv, TablesTypes
  <2>2. made_by' \in [ToSet(Artifacts) -> 0 .. run']
    BY <2>1, <1>1
  <2> QED BY <1>1, <2>2 DEF TablesInv, TablesTypes, Loading
<1>6. Progress'
  BY <1>1, <1>4, ArtifactFacts DEF Progress, Loading
<1>7. RunLeavesPrefix'
  BY <1>3, ArtifactFacts DEF RunLeavesPrefix
<1>8. TableIsLoaded' /\ LatencyViewsAgree'
  BY <1>1, <1>3, ArtifactFacts DEF TablesInv, TableIsLoaded, LatencyViewsAgree
<1> QED BY <1>5, <1>6, <1>7, <1>8 DEF TablesInv

\* A run loads before it writes.
LEMMA LoadInv ==
    ASSUME TablesInv, NEW section \in Loading,
           NEW next \in Loading \cup {Artifacts[1]}, Load(section, next)
    PROVE  TablesInv'
<1>1. /\ pc = section /\ pc' = next /\ section \in Loading
      /\ results' = [results EXCEPT ![section] = csv[section]]
      /\ UNCHANGED <<csv, artifacts, made_by, run, edits>>
  BY DEF Load
<1>2. run # 0 /\ \A n \in 1 .. 5 : ~ OfThisRun(n)
  BY <1>1, ArtifactFacts DEF TablesInv, Progress, Loading
<1>3. \A n \in 1 .. 5 : ~ OfThisRun(n)'
  BY <1>1, <1>2 DEF OfThisRun
<1>4. TablesTypes'
  BY <1>1, ArtifactFacts DEF TablesInv, TablesTypes
<1>5. Progress'
  <2>1. \A m \in 1 .. 5 : pc' = Artifacts[m] => m = 1
    BY <1>1, ArtifactFacts
  <2>2. pc' # "idle" /\ run' # 0
    BY <1>1, <1>2, ArtifactFacts DEF Loading
  <2> QED BY <2>1, <2>2, <1>3, ArtifactFacts DEF Progress
<1>6. RunLeavesPrefix'
  BY <1>3, ArtifactFacts DEF RunLeavesPrefix, OfThisRun
<1>7. TableIsLoaded'
  BY <1>1, <1>3, ArtifactFacts DEF TableIsLoaded, OfThisRun
<1>8. LatencyViewsAgree'
  BY <1>1 DEF TablesInv, LatencyViewsAgree
<1> QED BY <1>4, <1>5, <1>6, <1>7, <1>8 DEF TablesInv

\* After the n-th artifact, written or skipped, the run goes on with the next.
LEMMA ContinueProgress ==
    ASSUME TablesInv, NEW n \in 1 .. 5, pc = Artifacts[n],
           Continue(n), UNCHANGED <<results, run>>,
           OfThisRun(n)' \/ SkippedNow(n)',
           \A m \in 1 .. 5 : m # n => made_by'[Artifacts[m]] = made_by[Artifacts[m]]
    PROVE  Progress' /\ RunLeavesPrefix'
<1>1. /\ run # 0
      /\ \A m \in 1 .. n - 1 : OfThisRun(m) \/ SkippedNow(m)
      /\ \A m \in n .. 5 : ~ OfThisRun(m)
  BY ArtifactFacts DEF TablesInv, Progress
<1>2. /\ \A m \in 1 .. n : OfThisRun(m)' \/ SkippedNow(m)'
      /\ \A m \in n + 1 .. 5 : ~ OfThisRun(m)'
  <2>1. \A m \in 1 .. 5 : m # n => (OfThisRun(m)' <=> OfThisRun(m))
    BY DEF OfThisRun
  <2>2. \A m \in 1 .. 5 : SkippedNow(m)' <=> SkippedNow(m)
    BY DEF SkippedNow
  <2>3. \A m \in 1 .. n - 1 : OfThisRun(m)' \/ SkippedNow(m)'
    BY <1>1, <2>1, <2>2
  <2>4. \A m \in n + 1 .. 5 : ~ OfThisRun(m)'
    BY <1>1, <2>1
  <2>5. \A m \in 1 .. n : m \in 1 .. n - 1 \/ m = n
    OBVIOUS
  <2> QED BY <2>3, <2>4, <2>5
<1>3. Progress'
  <2>1. CASE n = 5
    BY <2>1, ArtifactFacts DEF Progress, Continue, Loading
  <2>2. CASE n # 5
    <3>1. n + 1 \in 1 .. 5 /\ pc' = Artifacts[n + 1]
      BY <2>2, ArtifactFacts DEF Continue
    <3>2. \A m \in 1 .. 5 : pc' = Artifacts[m] => m = n + 1
      BY <3>1, ArtifactFacts
    <3>3. pc' # "idle" /\ pc' \notin Loading
      BY <3>1, ArtifactFacts
    <3>4. run' # 0
      BY <1>1
    <3>5. \A m \in 1 .. 5 : pc' = Artifacts[m] =>
             /\ \A k \in 1 .. m - 1 : OfThisRun(k)' \/ SkippedNow(k)'
             /\ \A k \in m .. 5 : ~ OfThisRun(k)'
      BY <3>2, <1>2
    <3> QED BY <3>3, <3>4, <3>5, ArtifactFacts DEF Progress
  <2> QED BY <2>1, <2>2
<1>4. RunLeavesPrefix'
  <2>1. n + 1 \in 1 .. 6 /\ (n + 1) - 1 = n
    OBVIOUS
  <2>2. ASSUME NEW j \in 1 .. 5, NEW k \in 1 .. 5, j < k, OfThisRun(k)',
               ~ SkippedNow(j)'
        PROVE  OfThisRun(j)'
    <3>1. j \in 1 .. n
      BY <2>2, <1>2
    <3> QED BY <3>1, <2>2, <1>2
  <2> QED BY <2>2, ArtifactFacts DEF RunLeavesPrefix, OfThisRun, SkippedNow
<1> QED BY <1>3, <1>4

LEMMA SkipInv ==
    ASSUME TablesInv, NEW n \in 1 .. 5, Skip(n)
    PROVE  TablesInv'
<1>1. /\ pc = Artifacts[n] /\ SkippedNow(n) /\ Continue(n)
      /\ UNCHANGED <<csv, results, artifacts, made_by, run, edits>>
  BY DEF Skip, SkippedNow
<1>2. Progress' /\ RunLeavesPrefix'
  <2>1. SkippedNow(n)'
    BY <1>1 DEF SkippedNow
  <2> QED BY <1>1, <2>1, ContinueProgress
<1>3. TablesTypes'
  BY <1>1, ArtifactFacts DEF TablesInv, TablesTypes, Continue
<1>4. TableIsLoaded' /\ LatencyViewsAgree'
  BY <1>1 DEF TablesInv, TableIsLoaded, LatencyViewsAgree
<1> QED BY <1>2, <1>3, <1>4 DEF TablesInv

\* A run that breaks off has written the artifacts before, and no more.
LEMMA CrashInv ==
    ASSUME TablesInv, NEW n \in 1 .. 5, Crash(n)
    PROVE  TablesInv'
<1>1. /\ pc = Artifacts[n] /\ pc' = "idle"
      /\ UNCHANGED <<csv, results, artifacts, made_by, run, edits>>
  BY DEF Crash
<1>2. Progress'
  BY <1>1, ArtifactFacts DEF Progress, Loading
<1>3. RunLeavesPrefix'
  BY <1>1 DEF TablesInv, RunLeavesPrefix
<1>4. TablesTypes' /\ TableIsLoaded' /\ LatencyViewsAgree'
  BY <1>1 DEF TablesInv, TablesTypes, TableIsLoaded, LatencyViewsAgree
<1> QED BY <1>2, <1>3, <1>4 DEF TablesInv

\* The two views of the same rows.
LEMMA ViewsOfRows ==
    ASSUME NEW rows, NEW stage \in Stages
    PROVE  LatencyFigure(rows)[stage]
               = IF stage \in DOMAIN LatencyTable(rows)
                 THEN LatencyTable(rows)[stage] ELSE Fraction(0, 1)
BY DEF LatencyFigure, LatencyTable

LEMMA WriteInv ==
    ASSUME TablesInv, NEW n \in 1 .. 5, Write(n)
    PROVE  TablesInv'
<1> DEFINE rows == results[SectionOf[Artifacts[n]]]
<1>1. /\ pc = Artifacts[n] /\ Continue(n)
      /\ artifacts' = [artifacts EXCEPT ![Artifacts[n]] =
                           Render(Artifacts[n], rows)]
      /\ made_by' = [made_by EXCEPT ![Artifacts[n]] = run]
      /\ UNCHANGED <<csv, results, run, edits>>
  BY DEF Write
<1>2. /\ run # 0
      /\ \A m \in n .. 5 : ~ OfThisRun(m)
  BY <1>1, ArtifactFacts DEF TablesInv, Progress
<1>3. /\ made_by'[Artifacts[n]] = run
      /\ artifacts'[Artifacts[n]] = Render(Artifacts[n], rows)
      /\ \A a \in ToSet(Artifacts) : a # Artifacts[n] =>
             made_by'[a] = made_by[a] /\ artifacts'[a] = artifacts[a]
  BY <1>1, ArtifactFacts DEF TablesInv, TablesTypes
<1>4. Progress' /\ RunLeavesPrefix'
  <2>1. \A m \in 1 .. 5 : m # n => made_by'[Artifacts[m]] = made_by[Artifacts[m]]
    BY <1>3, ArtifactFacts
  <2>2. OfThisRun(n)'
    BY <1>1, <1>3 DEF OfThisRun
  <2> QED BY <1>1, <2>1, <2>2, ContinueProgress
<1>5. TablesTypes'
  <2>1. pc' \in {"idle"} \cup Loading \cup ToSet(Artifacts)
    BY <1>1, ArtifactFacts DEF Continue
  <2>2. made_by' \in [ToSet(Artifacts) -> 0 .. run']
    <3>1. /\ made_by \in [ToSet(Artifacts) -> 0 .. run]
          /\ run \in 0 .. run /\ run' = run
      BY <1>1 DEF TablesInv, TablesTypes
    <3> QED BY <3>1, <1>1
  <2> QED BY <1>1, <2>1, <2>2 DEF TablesInv, TablesTypes
<1>6. TableIsLoaded' /\ LatencyViewsAgree'
  <2>1. CASE n = 2
    <3>1. rows = results["latencies"]
      BY <2>1, ArtifactFacts DEF SectionOf
    <3>2. artifacts'["latency_breakdown"] = LatencyTable(results["latencies"])
      BY <1>3, <2>1, <3>1, ArtifactFacts DEF Render
    <3>3. /\ made_by'["latency_figure"] # run
          /\ made_by'["latency_breakdown"] = run
      <4>1. ~ OfThisRun(4) /\ Artifacts[4] # Artifacts[2]
        BY <1>2, <2>1, ArtifactFacts
      <4> QED BY <4>1, <1>3, <2>1, ArtifactFacts DEF OfThisRun
    <3> QED BY <1>1, <3>2, <3>3 DEF TableIsLoaded, LatencyViewsAgree
  <2>2. CASE n = 4
    <3>1. rows = results["latencies"]
      BY <2>2, ArtifactFacts DEF SectionOf
    <3>2. /\ artifacts'["latency_figure"] = LatencyFigure(results["latencies"])
          /\ made_by'["latency_figure"] = run
      BY <1>3, <2>2, <3>1, ArtifactFacts DEF Render
    <3>3. /\ made_by'["latency_breakdown"] = made_by["latency_breakdown"]
          /\ artifacts'["latency_breakdown"] = artifacts["latency_breakdown"]
      BY <1>3, <2>2, ArtifactFacts
    <3>4. TableIsLoaded'
      BY <1>1, <3>3 DEF TablesInv, TableIsLoaded
    <3>5. ASSUME made_by'["latency_breakdown"] = run
          PROVE  artifacts'["latency_breakdown"]
                     = LatencyTable(results["latencies"])
      BY <1>2, <3>3, <3>5 DEF TablesInv, TableIsLoaded
    <3>6. LatencyViewsAgree'
      BY <3>2, <3>5, ViewsOfRows DEF LatencyViewsAgree
    <3> QED BY <3>4, <3>6
  <2>3. CASE n # 2 /\ n # 4
    <3>1. Artifacts[n] # "latency_breakdown" /\ Artifacts[n] # "latency_figure"
      BY <2>3, ArtifactFacts
    <3>2. \A a \in {"latency_breakdown", "latency_figure"} :
             made_by'[a] = made_by[a] /\ artifacts'[a] = artifacts[a]
      BY <1>3, <3>1, ArtifactFacts
    <3> QED BY <1>1, <3>2 DEF TablesInv, TableIsLoaded, LatencyViewsAgree
  <2> QED BY <2>1, <2>2, <2>3
<1> QED BY <1>4, <1>5, <1>6 DEF TablesInv

LEMMA NextTablesInv == TablesInv /\ [Next]_vars => TablesInv'
<1> SUFFICES ASSUME TablesInv, [Next]_vars PROVE TablesInv'
  OBVIOUS
<1>1. CASE Experiment \/ UNCHANGED vars
  BY <1>1 DEF Experiment, vars, TablesInv, TablesTypes, Progress, OfThisRun,
       SkippedNow, RunLeavesPrefix, TableIsLoaded, LatencyViewsAgree
<1>2. CASE Start
  BY <1>2, StartInv
<1>3. CASE \/ Load("costs", "latencies") \/ Load("latencies", "complexity")
           \/ Load("complexity", Artifacts[1])
  BY <1>3, LoadInv DEF Loading
<1>4. CASE \E n \in DOMAIN Artifacts : Skip(n) \/ Crash(n) \/ Write(n)
  BY <1>4, SkipInv, CrashInv, WriteInv, ArtifactFacts
<1> QED BY <1>1, <1>2, <1>3, <1>4 DEF Next

\* In every state, whatever has been rewritten and however many runs broke
\* off, the artifacts of the latest run are a prefix of those with data.
THEOREM RunsLeavePrefixes == Spec => []RunLeavesPrefix
<1>1. TablesInv => RunLeavesPrefix
  BY DEF TablesInv
<1> QED
  BY <1>1, InitTablesInv, NextTablesInv, PTL DEF Spec

\* In every state, a latency table and a latency figure of one run show the
\* same means, because a run loads its rows once, before it writes.
THEOREM LatencyViewsAlwaysAgree == Spec => []LatencyViewsAgree
<1>1. TablesInv => LatencyViewsAgree
  BY DEF TablesInv
<1> QED
  BY <1>1, InitTablesInv, NextTablesInv, PTL DEF Spec
=============================================================================
