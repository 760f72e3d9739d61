----------------------------- MODULE Algorithms -----------------------------
(***************************************************************************)
(* The algorithms of ServerAnalysis and NodeScores, which keep no state:   *)
(* one call per behaviour, compared with reference definitions.  binSearch *)
(* is called for the tasks of one container and the bandwidth that is      *)
(* allotted already; the plugins score the nodes that passed the filters.  *)
(***************************************************************************)
EXTENDS ServerAnalysis, NodeScores

CONSTANTS
  Requests,      \* sequences of tasks
  Allotted,      \* sums of bands
  NumNodes,
  Annotations,   \* of nodes, "assurance"
  Statuses,      \* of nodes: the bandwidth used on each core, in percent
  NoResult

WorkingTask == [period : Nat \ {0}, wcet : Nat \ {0}, prio : Nat]

ASSUME AnalysisAssumption ==
  /\ Requests \subseteq Seq(WorkingTask)
  /\ Allotted \subseteq Nat

\* A node has cores, which are not used more than fully, and scores times the range
\* of valid ones are no overflow.
ASSUME ScoresAssumption ==
  /\ NumNodes \in Nat \ {0}
  /\ MaxInt \in Nat /\ MaxInt >= 100 * MaxNodeScore
  /\ Annotations \subseteq Int \cup {NoInteger}
  /\ \A a \in Annotations \ {NoInteger} : 100 * a <= MaxInt
  /\ Statuses \subseteq Seq(0 .. 100) \ {<<>>}

Nodes == 1 .. NumNodes

Inputs ==
  [call : {"binSearch"}, tasks : Requests, allotted : Allotted] \cup
  [call : {"assurance"}, mode : Modes, nodes : [Nodes -> Annotations]] \cup
  [call : {"freest"}, nodes : [Nodes -> Statuses]]

VARIABLES input, result
callVars == <<input, result>>

CallInit ==
  /\ input \in Inputs
  /\ result = NoResult

CallBinSearch ==
  /\ input.call = "binSearch"
  /\ result' = BinSearch(input.tasks, input.allotted)

CallAssurance ==
  /\ input.call = "assurance"
  /\ result' = NormalizeScore([i \in Nodes |-> AssuranceScore(input.nodes[i], input.mode)])

CallFreest ==
  /\ input.call = "freest"
  /\ result' = NormalizeScore([i \in Nodes |-> ComputeScore(input.nodes[i])])

Call ==
  /\ result = NoResult
  /\ CallBinSearch \/ CallAssurance \/ CallFreest
  /\ UNCHANGED input

CallSpec == CallInit /\ [][Call]_callVars

Searched == result # NoResult /\ input.call = "binSearch"

\* The minimum viable bandwidth, by trying all of them.
Viable(tasks, allotted) == {b \in 1 .. 98 - allotted : ServerCheck(tasks, b, allotted)}

LeastViable(tasks, allotted) ==
  IF Viable(tasks, allotted) = {} THEN 99 - allotted ELSE Min(Viable(tasks, allotted))

\* binSearch "search the minimum viable bandwidth" and adds one: bisection finds
\* the least band that passes although passing is tested at few bands only, which
\* needs the test to be monotone in the band.
FindsLeastBand == Searched => result.band = LeastViable(input.tasks, input.allotted) + 1

\* What binSearch accepts it can serve, and stays below the threshold; a wider
\* band or less interference would pass too, so later moves of other containers
\* in the safe direction cannot hurt.
AcceptanceIsMonotone ==
  Searched /\ result.sched /\ input.allotted <= 99 =>
    /\ result.band \in 1 .. THRESHOLDSCHED - 1
    /\ \A b \in result.band .. 100 - input.allotted :
         ServerCheck(input.tasks, b, input.allotted)
    /\ \A a \in Allotted : a < input.allotted => ServerCheck(input.tasks, result.band, a)

\* The iteration of checkSchedulability finds a fixed point exactly when there is
\* one within the limit: it starts low enough and cannot jump over it.  The tasks
\* that preempt t must not ask for more than their periods, or the estimates fall.
HasResponseTime(t, tasks, band, allotted) ==
  \E w \in FirstEstimate(t, band) .. ResponseLimit(t, band) :
    ResponseStep(t, tasks, band, allotted, w) = w

PreemptorsFit(t, tasks) ==
  \A i \in DOMAIN tasks : tasks[i].prio > t.prio => tasks[i].wcet <= tasks[i].period

IterationIsExact ==
  Searched /\ input.allotted < 99 =>
    \A i \in DOMAIN input.tasks :
      PreemptorsFit(input.tasks[i], input.tasks) =>
        (TaskCheck(input.tasks[i], input.tasks, result.band, input.allotted)
           <=> HasResponseTime(input.tasks[i], input.tasks, result.band, input.allotted))

\* The nodes from best to worst, whatever the scores: those nobody beats have the
\* highest score (the lowest, if all are alike), a node that is beaten by another
\* has no higher score, and all scores are valid.
Ranks(scores, Beats(_, _)) ==
  LET Best == {i \in Nodes : \A j \in Nodes : ~Beats(j, i)}
  IN  /\ \A i \in Nodes : scores[i] \in MinNodeScore .. MaxNodeScore
      /\ \A i \in Best : scores[i] = IF Best = Nodes THEN MinNodeScore ELSE MaxNodeScore
      /\ \A i, j \in Nodes : Beats(i, j) => scores[i] >= scores[j]

Assured(annotation) == IF annotation = NoInteger \/ annotation < 0 THEN 0 ELSE annotation

\* NodeAssuranceScorer "favors nodes based on their assurance level": after
\* NormalizeScore the nodes are ranked by it, upwards or downwards, also with
\* annotations that are missing or negative and as large as int64 allows the
\* product with the new range to be.
AssuranceRanks ==
  result # NoResult /\ input.call = "assurance" =>
    Ranks(result, LAMBDA i, j :
                    IF input.mode = "Most" THEN Assured(input.nodes[i]) > Assured(input.nodes[j])
                    ELSE Assured(input.nodes[i]) < Assured(input.nodes[j]))

\* Rtschedulability scores by "the max free bandwidth between cores of the nodes":
\* a node is ranked before another if one of its cores has more left than each of
\* the other's.
FreestCoreRanks ==
  result # NoResult /\ input.call = "freest" =>
    Ranks(result, LAMBDA i, j :
                    \E c \in DOMAIN input.nodes[i] : \A d \in DOMAIN input.nodes[j] :
                      input.nodes[i][c] < input.nodes[j][d])

=============================================================================
