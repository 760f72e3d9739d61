--------------------------- MODULE ServerAnalysis ---------------------------
(***************************************************************************)
(* The schedulability analysis of rubicante (nodeImplementation.go): each  *)
(* container is a server of period SERVERPERIOD that gets band percent of  *)
(* a core and runs its tasks by priority.  The containers of higher        *)
(* priority on the core enter the analysis only through allotted, the sum  *)
(* of their bands.  Times are in microseconds.                             *)
(***************************************************************************)
EXTENDS Integers, SequencesExt

SERVERPERIOD == 2500
THRESHOLDSCHED == 80

\* A band is a percentage: band * pser / 100, exact for this period.
Capacity(band) == band * (SERVERPERIOD \div 100)

\* int(math.Ceil(float64(a) / float64(b))) for b # 0.
CeilDiv(a, b) == IF b > 0 THEN -((-a) \div b) ELSE -(a \div (-b))

\* The time to serve load, with the gaps in which the server has no capacity
\* left.  For a capacity of 0 the quotient is infinite or no number; amd64
\* converts it to -2^63, and -2^63 * SERVERPERIOD wraps to 0.
ServeTime(load, cser) ==
  load + IF cser = 0 THEN 0 ELSE (CeilDiv(load, cser) - 1) * (SERVERPERIOD - cser)

\* Task.checkSchedulability: the response time of task t is iterated to its fixed
\* point; t fails as soon as it exceeds the period less the server's idle time.
\* A first estimate of 0 ends the loop before its body.
HigherLoad(t, tasks, w) ==
  FoldLeft(LAMBDA sum, u :
             IF u.prio > t.prio
             THEN sum + CeilDiv(w + u.period - u.wcet, u.period) * u.wcet
             ELSE sum,
           0, tasks)

ResponseStep(t, tasks, band, allotted, w) ==
  ServeTime(t.wcet + HigherLoad(t, tasks, w), Capacity(band)) + Capacity(allotted)

FirstEstimate(t, band) == ServeTime(t.wcet, Capacity(band))

ResponseLimit(t, band) == t.period - (SERVERPERIOD - Capacity(band))

\* Mutant: one turn of the iteration only.
TaskCheckOnce(t, tasks, band, allotted) ==
  ResponseStep(t, tasks, band, allotted, FirstEstimate(t, band)) <= ResponseLimit(t, band)

TaskCheck(t, tasks, band, allotted) ==
  LET Step(w) == ResponseStep(t, tasks, band, allotted, w)
      Converges[w \in Int \X Int] ==   \* w[1] is wold and w[2] wnew
        /\ w[2] <= ResponseLimit(t, band)
        /\ w[2] = w[1] \/ Converges[<<w[2], Step(w[2])>>]
      w0 == FirstEstimate(t, band)
  IN  w0 = 0 \/ Converges[<<w0, Step(w0)>>]

\* Container.checkSchedulability; the priorities rubicante hands out are never -1.
ServerCheck(tasks, band, allotted) ==
  \A i \in DOMAIN tasks : TaskCheck(tasks[i], tasks, band, allotted)

\* Mutant: the search stops one step early.
BisectShort(tasks, allotted) ==
  LET Search[bounds \in Int \X Int] ==
        LET minb == bounds[1]
            maxb == bounds[2]
            medb == (minb + maxb) \div 2
        IN  IF minb < maxb - 2
            THEN IF ServerCheck(tasks, medb, allotted)
                 THEN Search[<<minb, medb>>] ELSE Search[<<medb, maxb>>]
            ELSE maxb
  IN  Search[<<0, 99 - allotted>>]

\* binSearch: halve the interval of bands, then add one for overhead.
Bisect(tasks, allotted) ==
  LET Search[bounds \in Int \X Int] ==
        LET minb == bounds[1]
            maxb == bounds[2]
            medb == (minb + maxb) \div 2
        IN  IF minb < maxb - 1
            THEN IF ServerCheck(tasks, medb, allotted)
                 THEN Search[<<minb, medb>>] ELSE Search[<<medb, maxb>>]
            ELSE maxb
  IN  Search[<<0, 99 - allotted>>]

\* Mutant: the band found last is not tested.
AcceptUntested(tasks, band, allotted) ==
  [band |-> band, sched |-> band < THRESHOLDSCHED]

\* The band found last is tested, which bisection need not have done.
Tested(tasks, band, allotted) ==
  [band  |-> band,
   sched |-> ServerCheck(tasks, band, allotted) /\ band < THRESHOLDSCHED]

BinSearch(tasks, allotted) == Tested(tasks, Bisect(tasks, allotted) + 1, allotted)

=============================================================================
