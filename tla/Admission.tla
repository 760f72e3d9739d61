------------------------------ MODULE Admission ------------------------------
(***************************************************************************)
(* rubicante, the daemon of a real-time node: it decides which containers  *)
(* the node admits, with which priority, core and band, and keeps the      *)
(* admitted ones in memory.  Modules Rubicante and SqliteStorage add the   *)
(* two builds of its storage.                                              *)
(*                                                                         *)
(* Every handler holds the mutex of the state from its first access to its *)
(* last, so a handler is one action.  net/http survives a panic of a       *)
(* handler, which leaves the mutex locked for good.                        *)
(***************************************************************************)
EXTENDS ServerAnalysis

CONSTANTS
  Pods,           \* the pods whose requests reach this node, by pod.Name
  Tasks,          \* Tasks[p]: the tasks of p as this node sees them
  nCPUs,
  MaxContainers   \* bound: PodBind is not tried beyond this many containers

Task == [period : Nat, wcet : Nat, prio : Nat]

ASSUME AdmissionAssumption ==
  /\ Tasks \in [Pods -> Seq(Task)]
  /\ nCPUs \in Nat \ {0}
  /\ MaxContainers \in Nat

\* The containers of pods with these names.
Containers(names) ==
  [name : names, tasks : Seq(Task), band : Int, core : 0 .. nCPUs - 1, prio : Nat]

VARIABLES
  containers,     \* state.containers
  changed,        \* state.changed
  locked,         \* a handler panicked while it held state.m
  up              \* the process runs

memory == <<containers, changed, locked, up>>

\* sort.SliceStable: ascending in key, equal ones in the order they have.
Ahead(key, i, j) == key[i] < key[j] \/ (key[i] = key[j] /\ i < j)

\* The indexes in S so ordered, and a slice.
InOrder(S, key) ==
  [n \in 1 .. Cardinality(S) |->
     CHOOSE j \in S : Cardinality({i \in S : Ahead(key, i, j)}) = n - 1]

StableSort(s, key) ==
  LET order == InOrder(DOMAIN s, key)
  IN  [k \in DOMAIN s |-> s[order[k]]]

-----------------------------------------------------------------------------
(* Admission: schedTest and what it calls                                  *)

MinPeriod(tasks) == Min({tasks[i].period : i \in DOMAIN tasks})

ByPeriod(cs) == StableSort(cs, [k \in DOMAIN cs |-> MinPeriod(cs[k].tasks)])

\* Mutant: half of the priority above, also between two containers.
SetPrioHalf(cs, min) ==
  LET later == {k \in DOMAIN cs : min < MinPeriod(cs[k].tasks)}
      i == IF later = {} THEN Len(cs) + 1 ELSE Min(later)
  IN  IF i = 1 THEN 128 ELSE cs[i - 1].prio \div 2

\* setPrio on the sorted containers: rate-monotonic, by halving intervals.
SetPrio(cs, min) ==
  LET later == {k \in DOMAIN cs : min < MinPeriod(cs[k].tasks)}
      i == IF later = {} THEN Len(cs) + 1 ELSE Min(later)
  IN  IF i = 1 THEN 128
      ELSE IF i = Len(cs) + 1 THEN cs[i - 1].prio \div 2
      ELSE (cs[i].prio + cs[i - 1].prio) \div 2

BandOf(cs, S) == MapThenSumSet(LAMBDA k : cs[k].band, S)

\* getBandwidths for one core, and the part of it above a priority.
OnCore(cs, core) == {k \in DOMAIN cs : cs[k].core = core}
UsedBand(cs, core) == BandOf(cs, OnCore(cs, core))
HigherBand(cs, core, prio) == BandOf(cs, {k \in OnCore(cs, core) : cs[k].prio > prio})

\* Mutant: the containers of higher priority are searched again.
BelowSwapped(cs, core, prio) == {k \in OnCore(cs, core) : cs[k].prio > prio}

\* The containers of lower priority on a core, and the same, highest first.
Below(cs, core, prio) == {k \in OnCore(cs, core) : cs[k].prio < prio}

Lower(cs, core, prio) == InOrder(Below(cs, core, prio), [k \in DOMAIN cs |-> -cs[k].prio])

\* Mutant: all that is used on the core is taken for allotted.
SearchAgainUsed(cs, k) == BinSearch(cs[k].tasks, UsedBand(cs, cs[k].core))

\* The search for the k-th container under the bands of cs, and its result in r.
SearchAgain(cs, k) ==
  BinSearch(cs[k].tasks, HigherBand(cs, cs[k].core, cs[k].prio))

Found(r, k, s) == [r EXCEPT !.cs[k].band = s.band, !.ok = s.sched]

\* Mutant: every search uses the bands from before the admission.
ResearchStale(cs, core, prio) ==
  LET Step(r, k) == IF r.ok THEN Found(r, k, SearchAgain(cs, k))
                            ELSE [r EXCEPT !.lost = @ \cup {k}]
  IN  FoldLeft(Step, [cs |-> cs, ok |-> TRUE, lost |-> {}], Lower(cs, core, prio))

(***************************************************************************)
(* One turn of schedTest's loop over cores for the new container c.  If c  *)
(* fits, the band of each container of lower priority on the core is       *)
(* searched again, in the order of their priorities, until one fails.      *)
(* After a failure the bands are rolled back from a list that is filled up *)
(* to the failing container only: those behind it get band 0.              *)
(***************************************************************************)
Research(cs, core, prio) ==
  LET Step(r, k) == IF r.ok THEN Found(r, k, SearchAgain(r.cs, k))
                            ELSE [r EXCEPT !.lost = @ \cup {k}]
  IN  FoldLeft(Step, [cs |-> cs, ok |-> TRUE, lost |-> {}], Lower(cs, core, prio))

RolledBack(cs, lost) ==
  [k \in DOMAIN cs |-> IF k \in lost THEN [cs[k] EXCEPT !.band = 0] ELSE cs[k]]

\* Mutant: what a chain of searches found before it failed is kept.
OutcomeKept(cs, r) == [ok |-> r.ok, cs |-> [k \in DOMAIN cs |-> r.cs[k]], bound |-> r.cs]

\* s is the result of binSearch for c, r that of the searches for the others.
Outcome(cs, r) == [ok |-> r.ok, cs |-> RolledBack(cs, r.lost), bound |-> r.cs]

\* Mutant: the core may be filled.
PlaceUnbounded(cs, c, core, s) ==
  IF ~s.sched
  THEN [ok |-> FALSE, cs |-> cs, bound |-> cs]
  ELSE Outcome(cs, Research(Append(cs, [c EXCEPT !.band = s.band, !.core = core]), core, c.prio))

Place(cs, c, core, s) ==
  IF ~s.sched \/ UsedBand(cs, core) + s.band > THRESHOLDSCHED
  THEN [ok |-> FALSE, cs |-> cs, bound |-> cs]
  ELSE Outcome(cs, Research(Append(cs, [c EXCEPT !.band = s.band, !.core = core]), core, c.prio))

TryCore(cs, c, core) ==
  Place(cs, c, core, BinSearch(c.tasks, HigherBand(cs, core, c.prio)))

\* The container that a request asks for.
NewContainer(p, sorted) ==
  LET tasks == StableSort(Tasks[p], [k \in DOMAIN Tasks[p] |-> Tasks[p][k].prio])
  IN  [name |-> p, tasks |-> tasks, band |-> 100, core |-> 0,
       prio |-> SetPrio(sorted, MinPeriod(tasks))]

\* schedTest tries the cores in turn.  cs is what it leaves in memory when it
\* does not bind, bound when it does.
SchedTest(p) ==
  LET sorted == ByPeriod(containers)
      c == NewContainer(p, sorted)
  IN  FoldLeft(LAMBDA r, core : IF r.ok THEN r ELSE TryCore(r.cs, c, core),
               [ok |-> FALSE, cs |-> sorted, bound |-> sorted],
               [n \in 1 .. nCPUs |-> n - 1])

-----------------------------------------------------------------------------
(* The process and its handlers                                            *)

Running == up /\ ~locked

\* setPrio indexes the first task of the request and of every container.
Panics(p) == Tasks[p] = <<>> \/ \E k \in DOMAIN containers : containers[k].tasks = <<>>

HandlerPanic(p) ==
  /\ Running
  /\ Panics(p)
  /\ locked' = TRUE
  /\ UNCHANGED <<containers, changed, up>>

SchedulabilityTest(p) ==
  /\ Running
  /\ ~Panics(p)
  /\ containers' = SchedTest(p).cs
  /\ UNCHANGED <<changed, locked, up>>

\* Mutant: the state is not marked as changed.
PodBindUnmarked(p) ==
  /\ Running
  /\ ~Panics(p)
  /\ Len(containers) < MaxContainers
  /\ \E r \in {SchedTest(p)} :
       containers' = IF r.ok THEN r.bound ELSE r.cs
  /\ UNCHANGED <<changed, locked, up>>

PodBind(p) ==
  /\ Running
  /\ ~Panics(p)
  /\ Len(containers) < MaxContainers
  /\ \E r \in {SchedTest(p)} :
       /\ containers' = IF r.ok THEN r.bound ELSE r.cs
       /\ changed' = (changed \/ r.ok)
  /\ UNCHANGED <<locked, up>>

\* The memory of the process is gone.
Stop ==
  /\ up' = FALSE
  /\ containers' = <<>>
  /\ changed' = FALSE
  /\ locked' = FALSE

\* The process starts with what its storage holds.
Start(cs) ==
  /\ ~up
  /\ up' = TRUE
  /\ containers' = cs
  /\ UNCHANGED <<changed, locked>>

MemoryInit ==
  /\ containers = <<>>
  /\ changed = FALSE
  /\ locked = FALSE
  /\ up = TRUE

Handle(p) == HandlerPanic(p) \/ SchedulabilityTest(p) \/ PodBind(p)

\* dumpRoutine calls dumpState every ten seconds for as long as the process lives,
\* and each call that finds the flag set clears it.
DumpTurn == Running /\ changed /\ changed' = FALSE

-----------------------------------------------------------------------------
(* Properties                                                              *)

InMemory(p) == \E k \in DOMAIN containers : containers[k].name = p

\* A container passes its own test under the bands that the containers above it
\* have now.
Served(cs, k) ==
  ServerCheck(cs[k].tasks, cs[k].band, HigherBand(cs, cs[k].core, cs[k].prio))

Admitted == up /\ up' /\ Len(containers') > Len(containers)

\* What schedTest promises when it admits a container: the new one and all of
\* lower priority on its core pass their tests with the bands that result from
\* all the searches, although each search used the bands found so far; and no
\* container of that core with the same or a higher priority was changed.
SoundStep ==
  Admitted =>
    LET before == ByPeriod(containers)
        new == Last(containers')
    IN  \A k \in OnCore(containers', new.core) :
          IF k = Len(containers') \/ containers'[k].prio < new.prio
          THEN Served(containers', k)
          ELSE containers'[k] = before[k]

AdmissionSound == [][SoundStep]_memory

\* No container has a negative band and no core is promised more than it has: a sum
\* above 100 would turn the next search to negative bands, on which the iteration
\* need not end.
CoreBudget ==
  /\ \A k \in DOMAIN containers : containers[k].band >= 0
  /\ \A core \in 0 .. nCPUs - 1 : UsedBand(containers, core) <= 100

\* Those below the container admitted last, on its core, differ in priority.
LowerDiffer ==
  LET new == Last(containers)
  IN  \A j, k \in Below(containers, new.core, new.prio) :
        j # k => containers[j].prio # containers[k].prio

\* The handlers keep the budget, however often bands were searched again or rolled
\* back and whatever was deleted, as long as an admission searches containers of
\* different priorities again.  Two of the same priority are both given what is
\* left above them, more than there is; setPrio, halving intervals of integers,
\* hands such priorities out after some ten admissions.
BudgetStep ==
  up /\ up' /\ CoreBudget /\ (Len(containers') > Len(containers) => LowerDiffer') => CoreBudget'

BudgetKept == [][BudgetStep]_memory

\* Every admission finds the containers below it with different priorities.
PrioritiesDiffer == [][Admitted => LowerDiffer']_memory

\* The priorities are rate-monotonic until the daemon restarts, which makes periods
\* of other tasks 0: a smaller shortest period never has the lower priority, and
\* none exceeds 128.  In the build with sqlite a deletion moves the last container
\* to another place, before one of the same period and higher priority, and the
\* next admission may then break the order.
PriorityOrder ==
  \A j, k \in DOMAIN containers :
    /\ containers[k].prio \in 0 .. 128
    /\ MinPeriod(containers[j].tasks) < MinPeriod(containers[k].tasks)
         => containers[j].prio >= containers[k].prio

\* schedTest "does not undermines guarantees for already scheduled containers"
\* (its comment).  An admission may leave a container of its core without any band,
\* since the analysis accepts a capacity of 0; it does so only to one for which the
\* containers of higher priority leave nothing at all.
LostStep ==
  Admitted =>
    \A k \in DOMAIN containers :
      /\ ByPeriod(containers)[k].band > 0
      /\ containers'[k].core = Last(containers').core
      /\ containers'[k].band = 0
      => HigherBand(containers', containers'[k].core, containers'[k].prio) = 100

BandLostOnlyWhenFull == [][LostStep]_memory

\* A container with some bandwidth, whose tasks have periods and work to do.
Counts(cs, k) ==
  /\ cs[k].band > 0
  /\ \A i \in DOMAIN cs[k].tasks : cs[k].tasks[i].period > 0 /\ cs[k].tasks[i].wcet > 0

\* The analysis has accepted such a container.
Guaranteed(cs, k) == Counts(cs, k) /\ Served(cs, k)

\* What the daemon is for: every container that has a band meets its deadlines with
\* it, under the bands that all the admissions and deletions on its core have left.
AllServed == \A k \in DOMAIN containers : Counts(containers, k) => Served(containers, k)

\* schedTest "does not undermines guarantees for already scheduled containers": one
\* that passes its test, on a core that is not promised twice, goes on to pass it for
\* as long as it keeps its band, whatever is admitted above it, refused, queried or
\* deleted: what is above it grows only where it is searched again, and the analysis
\* fails nothing that has less above it than when it passed.
StandStep ==
  up /\ up' /\ CoreBudget =>
    \A k \in DOMAIN containers, j \in DOMAIN containers' :
      containers'[j] = containers[k] /\ Guaranteed(containers, k) => Served(containers', j)

GuaranteesStand == [][StandStep]_memory

\* "The node state should not be modified, in this phase all the nodes are
\* queried in parallel" (rtschedulability.go on the query that SchedulabilityTest
\* answers): the query changes no band.
TestIsReadOnly ==
  [][ \A p \in Pods :
        SchedulabilityTest(p) => containers' = ByPeriod(containers) ]_memory

=============================================================================
