# A TLA+ model of k4.0s

k4.0s extends Kubernetes for mixed-criticality containers: a forked kube-scheduler with
plugins for real-time nodes and a TDMA network, the daemons these plugins talk to, and a
simulator that runs the scheduler against an embedded API server and records its decisions.
This directory holds TLA+ modules of the parts that keep state and decide something, the TLC
configurations that check them, and machine-checked proofs about all of them.

`PROJECT.json` lists components, runs, mutants, findings, hazards and theorems, and maps
every definition to the lines it models.

## 1. Inventory

Paths are relative to `src/`; `plugins/` stands for
`submodules/kubernetes/pkg/scheduler/framework/plugins/`.

| Component | State it keeps | Operations | Talks to |
|---|---|---|---|
| TDMAscheduling plugin (`plugins/tdmascheduling/TDMA.go`) | `pl.slices`, the sorted table of time slots; `globalPL` | New, PreFilter, Reserve, Unreserve, podDelete | scheduler framework (calls), TDMA master (HTTP), pod informer (callback) |
| scarmiglione, the TDMA master (`scarmiglione/`) | none: it answers | TDMAsched, TDMAremove | plugin (HTTP) |
| rubicante admission (`rubicante/nodeImplementation.go`, `routers.go`) | containers with tasks, band, priority and core, under one mutex; a copy of the node object | SchedulabilityTest, podBind, podDelete, updateSchedulability | Rtschedulability plugin (HTTP), API server, pod informer |
| rubicante storage (`rubicante/data_storage.go`; `data_storage_Sqlite.go` with the build tag sqlite) | two CSV files, or a database | start, dumpState every ten seconds, deletePod | the admission state |
| Rtschedulability plugin (`plugins/rtschedulability/`) | addresses and used bandwidths per node, without a lock | PreFilter, Filter (query), Score, NormalizeScore, PreBind (podBind) | rubicante of each node (HTTP) |
| NodeAssuranceScorer plugin (`plugins/nodeassurancescorer/`) | none | Score, NormalizeScore | node objects |
| malacoda (`malacoda/main.go`) | a copy of its node object | loop: draw a score, update the node | API server |
| simulator result store (`scheduler/plugin/resultstore/`, `util/retry.go`) | results by pod, under a mutex that its informer handler does not take | three adders, addSchedulingResultToPod, DeleteData | wrapped plugins (calls), API server, pod informer |
| simulator plugin wrappers and configuration (`scheduler/`) | the running scheduler, its configuration | convert, start, restart, shutdown | scheduler, result store |
| embedded API server and PV controller (`k8sapiserver/`, `pvcontroller/`) | etcd contents | start, stop | everything in the simulator |
| scheduling queue (`submodules/kubernetes/pkg/scheduler/internal/queue/`) | activeQ, podBackoffQ, unschedulableQ, the cycle of the last move request, under one lock | Add, Update, Delete, Pop, Activate, AddUnschedulableIfNotPresent, moves, two flushes | scheduling goroutine, event handlers |
| scheduler cache (`.../internal/cache/`) | pods by uid with their node, which are assumed, deadlines, pods of each node, under one mutex | AssumePod, FinishBinding, ForgetPod, AddPod, UpdatePod, RemovePod, expiry | scheduling and binding goroutines, event handlers |
| scheduling and binding cycle, event handlers (`.../scheduler.go`, `factory.go`, `eventhandlers.go`) | program counters; the informer's copy of pods | scheduleOne, binding goroutine, failure handling, six handlers of pods, two of nodes | queue, cache, all plugins, API server |

How they interact: `scheduleOne` asks PreFilter and Filter (which queries every rubicante in
parallel), scores, then reserves: TDMAscheduling gets a slot from the master.  The pod's binding
goroutine then runs PreBind, where Rtschedulability lets the node's rubicante admit the pod, and
binds.  A failure after Reserve runs Unreserve, from the scheduling goroutine or from a binding
goroutine; Rtschedulability has no Unreserve.  Deletions of pods come back through
informers: to TDMA.go and to each rubicante.  In the simulator the plugins are wrapped, every
result goes to the result store and from there, on the next update of the pod, to the pod's
annotations.

What is hard in it:

* the slot table has no lock and three kinds of goroutines, which call the master in the
  middle of their loops and keep indexes over the call;
* admission changes bands of several containers in a chain of searches and rolls them back;
* the admission state lives in memory, is dumped from time to time into files that are not
  truncated, and is read back after a crash at any line;
* the result store is read, written over the network and cleared without its mutex while the
  next cycle adds results;
* requests to rubicante and deletions of pods take different ways and may overtake each other;
* queue and cache of the scheduler hear of pods through different buffers, while the scheduling
  and the binding goroutines change both, and names of pods are used again;
* a pod that fails may be put to sleep after the event that would have woken it;
* API objects are written back as whole objects that may be outdated.

What makes each part correct:

* *slot table*: slots are disjoint with guard time, within the cycle, the first slot stays;
  a goroutine touches its own pod's slots only; a scheduling cycle ends; a failed binding
  leaves nothing behind;
* *admission*: a new container is served and so are those it disturbs; no core is promised
  more than it has; priorities are rate-monotonic; a query changes nothing; a deletion frees
  the band;
* *real-time pods*: a pod that is bound is admitted by its node and keeps its admission;
* *scores*: nodes are ranked by what the plugin is about, with valid scores;
* *node object*: no daemon takes back what another one changed; label and annotation fit;
* *storage*: what was admitted is stored, what was deleted does not come back;
* *queue and cache*: a pod is in one queue and counted on one node, no wake-up and no pod is
  lost, nothing is assumed for ever, the cache says what its handler was told;
* *analysis*: bisection finds the least band, the iteration is exact;
* *result store*: no missing entry is dereferenced, no binding is taken back, results reach
  the annotations and leave the store.

## 2. Modules

### TdmaScheduling and SlotTable (MCTdmaScheduling, TdmaSchedulingProofs)

`slices` is `pl.slices`; `sched`, `unres[p]` and `informer` are the program counters and
locals of Reserve, of each call of Unreserve, and of podDelete.  An action is the code between
two HTTP calls: `ReserveGap` runs up to `reserveSlot`, `ReserveGapOk`/`ReserveError` from its
answer.  The walk of a loop to its next match is one step (`GapsFrom`, `OwnedFrom`).  `append`
with the stable sort is `InsertByBegin`; that the two agree on sorted tables is an ASSUME of
MCTdmaScheduling.  `Restart` and `PodDeletePanic` are the process starting again with New.
`phase`, `alive` and `deletes` are the surroundings: where the scheduler is with a pod, the API
server, and deletions not delivered yet.  The master's answer is open; scarmiglione keeps no
state.  Pods without `Network=TDMA`, and pods with a missing or malformed annotation, never get
beyond PreFilter or past it without touching the table, and are left out.

`SlotTable` is the abstract specification: a set of granted slots, each of the length its pod
asked for, granted where the cycle is free including guard time, released one at a time, all
gone after a restart.  It knows no gaps, indexes, goroutines or calls.  The refinement mapping
`Granted` is the table without its first slot, and `ImplementsSlotTable` is SlotTable's
specification under it: a slot computed before a call to the master must still be free when it
is inserted, and an index kept over a call must still be one of a slot to release.

Bounds: two pods with slots of 10 and 40 in a cycle of 200.  The table then has gaps that fit
a small slot twice, gaps that fit a large one, and a full end; deletion, recreation under the
same name, failed bindings and restarts are unbounded.  This is enough for each pair of
goroutines to meet at each call.

### ServerAnalysis, NodeScores and Algorithms (MCAlgorithms, AdmissionProofs)

The parts without state.  `ServerAnalysis` is the pure part of rubicante: response-time iteration,
`ServerCheck`, `binSearch`, in microseconds and percent.  A capacity of 0 makes the quotient of the
iteration infinite; its conversion to int is modelled as the shipped x86-64 binary does it (-2^63,
whose product with the period wraps to 0).  Other overflow needs periods near 2^63 and is ignored.
`NodeScores` has the scores of NodeAssuranceScorer and Rtschedulability and their NormalizeScore, with
products that wrap around beyond `MaxInt`, the largest int64.  The scorer reads the annotation
`assurance`, malacoda writes `ASSURANCE`; the models keep them apart.

`Algorithms` makes one call per behaviour and compares the answer with reference definitions: the
least of all passing bands, the existence of a fixed point, the ranking of the nodes by assurance or
by the freest core.

Bounds: one or two tasks from two periods and three execution times, one task with an execution time
beyond its period, at seven amounts of bandwidth allotted already, with the edges 97 to 100.  MaxInt is
32767, and the largest assurance, 327, is the largest whose product with 100 still fits: the place
where the code's int64 ends, in small.  Beyond it scores are invalid.

### RtScheduling (MCRtScheduling, RtSchedulingProofs)

Rtschedulability, the scheduling and binding goroutines, and the daemons of all nodes.  Pods are
uids; a daemon knows them by `Name[p]` only, which pods of other namespaces and later pods share.
`phase[p]` is where the scheduler is with a pod, `node[p]` the node it is assumed on, `cycle` the
scheduling goroutine with the nodes that passed Filter, `iptable` the nodes whose address is known,
`bound[p]` what the API server holds, and `held[n][a]` the number of containers of name a in the
daemon of n.

Filter asks all nodes in parallel and changes nothing in the daemons, so it is one step.  PreBind is
split where the network is: `PodBind` is the daemon serving the request, `PreBindOk` the answer,
`PreBindRefused` a refusal or a request that is lost, `PreBindFails` a call that failed although the
request was served or is still under way (`stray`, served by `PodBindLate`).  `Admit` appends a
container without a look at the name, as schedTest does, so a request that is repeated after a failure
makes a second one.  `BindFails` leaves the container where it is, as the code does, and may be a
binding that only the scheduler has not heard of; `Dequeue` is the scheduler hearing that a pod has a
node or is gone.

`deletes` are deletions each daemon has not heard of.  `PodDelete` is podDelete with deletePod of the
Sqlite build: the walk does not look at the container that remove swaps into a freed place, so that of
k containers of the name up to k \div 2 stay: how many depends on their order.  That this is what the
walk of SqliteStorage does, for each of these numbers, is an ASSUME of MCSqliteStorage.  deletePod of
the CSV build ends the process unless the only container of the name is the last one, and podDelete
also does for an object that is no pod (a deletion seen only by listing again): both are
`DaemonRestart`, which reads back anything, as module Rubicante is about what.  `SchedulerRestart`
forgets everything but what is bound; concurrent writes to the plugin's maps, on which the Go runtime
ends the process, are covered by it.

What a daemon answers and which node scores best is open, so the result holds for all answers.
Three history variables say what the properties except or rest on: `restarted`, daemons that may have
lost a container; `failed`, pods given up after their podBind request was sent; `excess`, names of
which a daemon admitted a second container, or one when no pod of the name existed and no deletion of
one was still to be heard of.  BoundIsAdmitted and AdmissionSurvives also except pods of whose name
one was deleted (Undisturbed), since a deletion goes by the name.

Bounds: a pod of low criticality that both nodes may take, a pod of the same name and of high
criticality with a WCET for one node, and a pod of another name that suits no node; two of the three
are created.  So two pods of one name exist at once or in turn, or a pod sees others deleted that are
not its namesakes.  At most two containers of a name in one daemon are the first number of which
deletePod leaves one.  One daemon may restart, as often as it likes, and attempts, refusals, lost and
late requests and restarts of the scheduler are unbounded.

### NodeObject (MCNodeObject.cfg, NodeObjectProofs)

The node object and its writers: updateSchedulability of rubicante, the loop of malacoda, others.
`copy[d]` is the object each daemon read when it started and changes in place, `pc[d]` whether it
waits for Update.  Of resource versions only the comparison with the current one is kept: `fresh`
and `late` hold the copies and the requests of stopped processes that the API server would still
take, and every write empties both, because the daemons drop the object that Update returns.  This
makes the model finite without a bound.  `AfterError` is where the daemons differ: rubicante goes
on with its outdated object, malacoda dereferences a nil error and ends.  The object is taken to
have annotations and labels, which the kubelet sets; with none at all malacoda's first write to the
map would end it.  Scores 0, 2, 5 and 9 reach each level and both sides of the default 0.

### Admission (extended by Rubicante and SqliteStorage; AdmissionProofs)

rubicante's admission state in memory and its two HTTP handlers, for both builds of the storage.
Every handler holds the mutex from its first access to its last, so `SchedulabilityTest` and
`PodBind` are one action each, including the sort by period that also a query leaves in memory.
`SchedTest` is the loop over the cores, `TryCore` one turn, `Research` the chain of searches for
containers of lower priority, with `lost` the containers that the roll-back list does not hold.
A panic in a handler leaves the mutex locked (`HandlerPanic`).

AllServed is what the daemon is for: every container with a band, and tasks with periods and work,
passes its test under the bands above it, in every state.  GuaranteesStand is the comment on
schedTest, "does not undermines guarantees for already scheduled containers", step by step: a
container that passes its test and keeps its band goes on to pass it.  A band may be taken away
altogether, by an admission (BandLostOnlyWhenFull) or by a roll-back; a container without one is not
counted.

Two properties say how far a guarantee goes.  BudgetKept: a handler keeps every core
within 100 percent and every band non-negative, if the containers that an admission searches again
differ in priority.  Two of the same priority do not see each other in the analysis and are both
given what is left above them; setPrio halves intervals of integers and hands out equal priorities
after some ten admissions (128, 64, 96, 112, 120, 124, 126, 127, 127), far beyond what TLC can
enumerate.  PrioritiesDiffer says that no admission meets them, and is an assumption of one theorem.
PriorityOrder holds until a restart: read_task_data makes a task of period 0 of every line of another
container.

### Rubicante (MCRubicante, RubicanteProofs)

The daemon with CSV storage: Admission with `PodDelete`, `DumpState` and the start.  A panic in
podDelete ends the process.  A CSV line is a row of fields and the number of bytes cut from its
front, which is all that overwriting without O_TRUNC can do to it; a name that begins within a
line is a suffix of a pod's name and taken to be no pod's name.  `CrashInDump` stops between any
two lines; a stop within the bytes of one line is left out.

Bounds: pods of one task with (period, execution time) pa (2600, 250), pn (2650, 800),
pb (2700, 50) and pc (40000, 3000), chosen so that searches for lower priorities succeed and
fail and cores fill up.  The run `admission` has two cores and five containers; the files are
never read there (MaxRestarts = 0), so `VIEW memory` merges states that differ in the files
only, and none of its properties mentions the files.  The run `storage` has two pods whose lines
differ in length and two restarts, enough for remains of a dump before the crash to be read,
dumped and read again.

### SqliteStorage (MCSqliteStorage, SqliteStorageProofs)

The daemon with the database: Admission with `rows` and `taskRows`, the two tables of
`rubicante/schema`.  `SaveContainer` and `SaveTasks` are the two statements of dumpState with what
SQLite does: the uid of a new container is one more than the largest, `last` is the connection's
last inserted rowid, which an insert that becomes an update leaves alone, so that the tasks of a
container that has a row already go to the uid of whatever was inserted before in the same dump.
`PodDelete` is the walk of deletePod over the indexes it started with (`Removed`), in which remove
swaps the last container into a place that is not looked at again, and the deletion of the row;
rows of tasks stay.  An ASSUME of MCSqliteStorage compares how many containers of a name the walk leaves
with what RtScheduling says of it, for all orders of up to six containers.  `CrashInDump` stops between any two statements.  `tasks.uid` is misspelt in the
schema (RIMARY KEY), stays NULL, and cannot be read into an int: `Restart` is possible only while
no container of the table has tasks there.

Bounds: three pods, one of them with two tasks (so that rowids of the two tables differ), one
whose podBind is repeated; two containers at a time, four rows of tasks, two restarts.  A uid is
used again, a dump updates one container and inserts another, and a container is deleted before,
after and between dumps.

### ResultStore (MCResultStore, ResultStoreProofs)

`results` is `s.results`; a result is told apart by the scheduling cycle it comes from.  The
adders hold the mutex and are one step each.  The informer's handler is one step per read of
the store or call of the API server, which refuses outdated objects.  `FailCycle` and `BindPod`
are what the scheduler does to the pod object; `SilentFailure` allows a failed cycle to leave
the object as it is.  A pod that one node fits is bound right after Filter, without scores.
`handler.found` is a history field: what the store held when the handler
started.

Bounds: one pod is tried twice, so that the handler of the first cycle meets results of the
second, another pod keeps the handler busy; one node-plugin entry.

### Scheduler (PodObjects, SchedulingQueue, SchedulerCache; MCScheduler, SchedulerProofs)

The forked kube-scheduler around its plugins.  `SchedulingQueue` and `SchedulerCache` hold the
state and the operations of the two, each under its lock and so one step; they are action
operators that `Scheduler` composes with the goroutines that call them: `Sched`, which runs
scheduleOne, `Binders`, which run the binding cycles, and the handlers of events.  `PodObjects` is
what all know of a pod: its name, its uid (which pod of that name) and its node.

A queue maps names to uids, since the code's queues are keyed by namespace and name; the cache is
keyed by uid.  Of schedulingCycle and moveRequestCycle only their comparison is kept (`moved`).
Left open, so that the properties hold for every choice: what Schedule and the plugins decide, the
order of activeQ, which pods are backing off, and which pods an event concerns.

The informer puts each version it takes (`Notify`) into the buffers of both handlers (`toCache`,
`toQueue`), which may lag independently, up to MaxLag.  Which of add, update and delete a handler
does follows from the last version it saw and the next one, as FilteringResourceEventHandler does
it.  A handler changes the cache first and asks the queue for a move in a second step (`Changed`,
`Move`).  `OtherBinds` is a scheduler from before a restart, or one that the simulator has shut
down and that is in its last cycle.  A restart of the scheduler is a new behaviour: Init allows
every state of the cluster.  `outdated` and `missed` are history: which handlers changed the cache
after the snapshot of the running attempt, and after the one on which a waiting pod failed.

Left out: nominated pods, node objects and snapshots, deletion timestamps (case 1 of
skipPodSchedule), and RejectWaitingPod, which only makes PreBindFails happen earlier.

Bounds of `scheduler`: one pod name that two pods use in turn, two nodes, one binding goroutine,
handlers one event behind.  A late event or a late ForgetPod of the first pod then meets the
second one at every step, and a pod can be assumed on one node and bound on another.  More
names only multiply the states: queues and cache treat names independently, except for `moved`,
and the proofs are for all.  `scheduler_live` has one node and the pod handler only.

## 3. Runs

| Run | Shows |
|---|---|
| `tdma` | SlotsSeparated, the inductive TableInv, SchedulingCycleEnds, OnlyOwnSlots and the refinement ImplementsSlotTable hold through all interleavings of Reserve, Unreserve and podDelete around their calls. Deadlock is checked. |
| `tdma_unreserve` | UnreserveCleansUp fails: Unreserve never looks at the last slot and skips the one behind a removal. |
| `algorithms` | FindsLeastBand, AcceptanceIsMonotone, IterationIsExact, AssuranceRanks, FreestCoreRanks on all bounded inputs, with overload and the edges of the widths. |
| `admission` | AllServed, GuaranteesStand, BudgetKept, PriorityOrder, AdmissionSound and BandLostOnlyWhenFull while containers come, go and are queried for, also through failed dumps. |
| `admission_query` | TestIsReadOnly fails: the roll-back of a failing query zeroes bands. |
| `storage` | SavedOrChanged, EventuallySaved through crashes and restarts from files with remains. |
| `sqlite` | The inductive StorageInv, which has SavedOrChanged as a part, DeletedStaysDeleted, EventuallySaved with the database, through crashes between statements, stale LastInsertId and reused uids. |
| `results` | NoNilResult, OnlyLateIsLost, BindingIsKept, ResultsLeaveStore with results added at any step of the handler. |
| `rt` | BoundIsAdmitted, HeldUntilDeleted, HeldOnce, AdmissionSurvives: a bound pod has a container in the daemon of its node and keeps it; containers outlast the deletion only if the name was admitted twice or too late; and without a failed attempt a pod has one container in all, through lost, repeated and late requests, restarts, late deletions and pods of one name. Deadlock is checked. |
| `node` | NodeInv, NothingTakenBack, OutdatedIsReplaced with three writers of one object. Deadlock is checked. |
| `scheduler` | SchedulerInv (one queue, counted on one node, events in order), CacheMatchesEvents, NoFatal, NoMissedEvent. |
| `scheduler_live` | NoPodIsLost and AssumedIsSettled under fair goroutines and handlers. |

The runs with CHECK_DEADLOCK FALSE are of systems that stop: a daemon that is down or whose
files or tables are unreadable, pods that were tried or created as often as the bound allows, one
call of a function.

Each property of a passing run has a mutant, a definition next to the one it replaces, that
changes the code as a plausible mistake would and breaks the property.

Some properties hold for a narrower reason than one might hope.  SavedOrChanged of Rubicante is one-sided:
what is in memory is in the file; a deleted container stays in the file (deletePod does not
set `changed`), and with failing writes (`DumpError`) the property does not hold.
ResultsLeaveStore needs every failed cycle to touch the pod object: with SilentFailure results
may stay for good, since nothing else wakes the handler.  BandLostOnlyWhenFull, OnlyLateIsLost and
HeldUntilDeleted say exactly how far three guarantees go that do not hold in full (section 5).
SavedOrChanged of SqliteStorage excepts pods admitted twice.  NoMissedEvent is about attempts that
fail in the scheduling goroutine: a binding goroutine that fails after a later Pop compares the
move request with the wrong cycle, and ForgetPod gives resources back without a move request; both
are left to the flush after 60 seconds, on which NoPodIsLost rests.

### Fairness

* TdmaScheduling: weak fairness of the scheduling goroutine inside a cycle, of each Unreserve
  and of the informer.  The Go runtime schedules goroutines; that a call to the master returns
  is an assumption, since the HTTP client has no timeout.  PreFilter, Create, Delete, the
  outcome of binding and restarts are not fair.
* Rubicante and SqliteStorage: as long as the process lives and the mutex is free, a set `changed` is cleared,
  because dumpRoutine calls dumpState every ten seconds.
* NodeObject: the DaemonSet starts malacoda again (its restart policy), calls to the API server
  return, and the random score differs from the last one at some time.  rubicante, other writers
  and stops are not fair.
* Scheduler: goroutines and handlers run and calls return; the two flushes and the expiry of
  assumed pods run on timers.  NextPod is strongly fair for each pod: activeQ is ordered by
  priority and then by the time of the last attempt, so among pods of one priority nobody is
  passed over for ever.  Nothing makes users or other schedulers act, and Schedule may fail for
  ever: NoPodIsLost promises attempts, not a node.
* ResultStore: both goroutines run and the API server answers; that a pod is tried again is
  not assumed.

## 4. Proofs

`TdmaSchedulingProofs` proves for every set of pods, all lengths and every cycle:

* `TableInvariant`: `Spec => []TableInv`;
* `SlotsStaySeparated`: `Spec => [](BaseFirst /\ SlotsSeparated)`;
* `TypeCorrect`: `Spec => []TypeOK`;
* `TableImplementsSlotTable`: `Spec => ImplementsSlotTable`;
* `TouchesOnlyOwnSlots`: `Spec => OnlyOwnSlots`.

The assumption is TdmaAssumption: lengths are natural numbers, the cycle is one, `NoPod` is no
pod.  The code does not validate the length of a request; with a negative one slots end before
they begin and separation is lost.

SlotsSeparated is not inductive.  Between a call to the master and its answer Reserve holds a
slot computed from an older table, so TableInv adds PendingSlotFits: the slot still fits the
table as it is now.  It stays true because everything the other goroutines do to the table is
removing slots, which only makes room; and because there is one scheduling goroutine, so no
second slot can be pending.  LoopsWellFormed adds that podDelete never waits with index 1: it
looks for a pod's slot, and the first slot belongs to no pod, so however the table shrinks
during the call the first slot is not dropped (BaseFirst).  The proof has one lemma per group
of actions, over lemmas on what removing, inserting and appending do to a table.

The refinement uses TableInv and one more invariant, SlotIsRequested, that every slot and the
pending one have the length their pod asked for.  Removing the k-th slot is Release of it,
inserting or appending the pending slot is Grant, because PendingSlotFits makes it Free in the
abstract table; every other step leaves `Granted` as it is, or is Reset.  OnlyOwnSlots follows from
the same case distinction: the slot that Reserve inserts is its own pod's also after the call, and
Unreserve looks its pod's slot up in the table as it is when it removes it.  podDelete is excepted: it
removes what has the index after its call.

`RtSchedulingProofs` proves for all sets of pods and nodes, all names, all WCETs and any number of
containers:

* `RtInvariant`: `Spec => []RtInv`, on which the others rest;
* `BoundPodsAreAdmitted`: `Spec => []BoundIsAdmitted`;
* `BandsAreFreed`: `Spec => []HeldUntilDeleted`;
* `HeldOnceWithoutFailure`: `Spec => []HeldOnce`;
* `AdmissionsSurvive`: `Spec => AdmissionSurvives`.

BoundIsAdmitted alone is not inductive: PodDelete would take the container of a bound pod if a
deletion of it could be under way.  RtInv adds DeletesAreDue, that daemons hear only of pods that
are gone.  It also needs from TypeOK that the scheduling goroutine works for pods in the scheduling
cycle only, so that no failure of a cycle meets a pod whose binding goroutine runs.  HeldUntilDeleted
needs SecondIsExcess: what deletePod leaves is of a name with two containers at least, and the second
one went into `excess` when it was admitted; and a first one is admitted for a pod that exists or whose
deletion is still to come, or it is in `excess` too.  HeldOnce is not inductive, because it does not say
where the one container is and what may still arrive: OnePlace adds that a pod of which no attempt was
given up has no request under way, and a container at most on the node it was granted or is bound to.
AdmissionSurvives follows from DeletesAreDue step by step.  The proofs of the steps that leave the
daemons alone are one lemma (`QuietStep`), as are those of the steps outside the scheduler
(`OutsideKeeps`).  The assumption is RtAssumption: the types of the constants.

`NodeObjectProofs` proves for every set of scores:

* `NodeInvariant`: `Spec => []NodeInv`;
* `WritesTakeNothingBack`: `Spec => NothingTakenBack`.

The inductive part is CopiesAgree: a copy whose version is current differs from the object only in
the fields of its daemon.  It holds when the copy is read, each daemon changes only its own fields,
and every write of anyone makes all copies outdated.  The assumption NodeAssumption says that
scores are between 0 and 9.

`SchedulerProofs` proves for all sets of pods, nodes and binding goroutines, any number of pods of
a name and any lag:

* `SchedulerIsConsistent`: `Spec => []SchedulerInv`;
* `CacheFollowsEvents`: `Spec => []CacheMatchesEvents`;
* `CacheIsNeverCorrupted`: `Spec => []NoFatal`;
* `WakeUpsAreKept`: `Spec => []NoMissedEvent`.

CacheMatchesEvents needs EventsInOrder: what lies between a handler and the API server are
versions of the past in their order, a pod that has a node keeps it, and no pod there is newer than
the last one created.  Without it an event could move a pod to another node, or a new pod could
be one that the cache has already.  NoFatal follows from the two.  NoMissedEvent needs the
clause on `outdated`: a handler that changed the cache during the running attempt has still to
ask for its move, or has asked and `moved` remembers it until the next Pop, which only the same
goroutine makes after the attempt.  CountedOnce is what makes removals from NodeInfo find
their pod.  The assumptions are PodAssumption and SchedulerAssumption: types, and names that are no
nodes.

`ResultStoreProofs` proves for all pods, entries and cycles:

* `StoreInvariant`: `Spec => []StoreInv`;
* `NeverNil`: `Spec => []NoNilResult`;
* `LosesOnlyLate`: `Spec => []OnlyLateIsLost`;
* `KeepsBinding`: `Spec => BindingIsKept`.

NoNilResult needs that only the handler removes a pod's results (FoundIsKept).  OnlyLateIsLost needs
that what the handler has copied is what the store holds or late (CopiedOrLate), which in turn needs
that results are only replaced by those of later cycles (NotAhead).  BindingIsKept needs PastObjects:
an object in a buffer or in the handler whose version is current has the current state, so a write
that the API server takes has seen the binding.

`AdmissionProofs` and `RubicanteProofs` prove for all pods and tasks, any number of cores and of
containers, and all lengths of names:

* `TypeCorrect`: `Spec => []TypeOK`;
* `AdmitsSoundly`: `Spec => AdmissionSound`;
* `LosesBandOnlyWhenFull`: `Spec => BandLostOnlyWhenFull`;
* `KeepsBudget`: `Spec => BudgetKept`;
* `KeepsGuarantees`: `Spec => GuaranteesStand`;
* `ServesEveryone`: `Spec /\ PrioritiesDiffer => [](restarts = 0 => CoreBudget /\ AllServed)`;
* `RateMonotonic`: `Spec => [](restarts = 0 => PriorityOrder)`;
* `SavesOrMarks`: `Spec => []SavedOrChanged`, if writes to the files do not fail.

`AdmissionProofs` is about what schedTest computes and holds for both storages.  It goes from the
small to the large: sums of bands over sets of containers (split, moved, bounded); the stable sort,
which only moves containers; the bisection, which ends between 0 and what is left and passes the test
it reports; the chain of searches as a sequence of turns; one core; all cores; a handler.
The heart of AdmissionSound is that the chain goes down in priority: when the band of a container is
searched, the bands above it are final, and the later turns change only bands below it, so what each
search saw is still true at the end.  BandLostOnlyWhenFull follows from the same fact: a search ends
at 0 only if it started at -1.  For BudgetKept the lowest of the containers searched again is found a
band that fits above what all others have, as they are all above it: here different priorities are
needed, and for the rest a core's sum is that of its lowest container and those above.  A roll-back
only lowers bands.  PriorityOrder is not inductive, since two containers of one period could have any
priorities: Ranked adds that those of one period are ordered as they lie in the slice, which the
stable sort keeps and setPrio, which puts the new one behind all of its period, continues.

GuaranteesStand compares the bands above a container before and after a step.  A deletion or a
roll-back takes some away, a move in the slice changes nothing (`Eased`); an admission raises the
bands above a container only if the container is on its core and of lower priority, and then its own
band is searched again and AdmissionSound holds for it (`AdmittedAbove`).  What is left is that less
above a container cannot make it fail: the test is monotone in the bandwidth allotted to others, by
`ServerCheckMonotone` below.  That a band is at least 1 and the sum above it at most 100 is needed
there, hence CoreBudget in the step.  AllServed is inductive together with CoreBudget and follows from
the same steps: each container after a step is one from before, with its band as it was, or one that
AdmissionSound is about, or one without a band.  CoreBudget is inductive only with PrioritiesDiffer,
which is true of the instance of the run `admission`: that run checks AllServed without assuming it.
A restart reads other tasks and is excepted.

The installed provers cannot instantiate the library's induction theorems, which take an operator.
`AdmissionProofs` therefore states induction over sets of natural numbers (`SetInduction`), proves
that a function defined by recursion along a measure exists (`RecursiveFunction`), and reads the
folds and the recursive functions of the model through it.

TypeOK of Rubicante says that what is read back from the files are containers on cores of this node.
It needs the shape of all lines, the torn ones too: Overwrite keeps the fields of a line and only
counts the bytes cut, and a line that is cut beyond its name is not readable, so Restart does not
take place.  SavedOrChanged is inductive with it: a dump writes all containers to the front of the
file, and everything that changes memory and is not a deletion sets the flag.  The assumptions are
AdmissionAssumption and RubicanteAssumption, the types of the constants.

`AdmissionProofs` also proves what the algorithms compute, for all tasks and allotments, and for any
number of nodes, cores, annotations and bandwidths:

* `LeastBandFound`: `CallSpec => []FindsLeastBand`;
* `AcceptanceMonotone`: `CallSpec => []AcceptanceIsMonotone`;
* `IterationExact`: `CallSpec => []IterationIsExact`;
* `AssuranceOrder`: `CallSpec => []AssuranceRanks`;
* `FreestCoreOrder`: `CallSpec => []FreestCoreRanks`.

The iteration is the repeated use of a step that grows with its argument, as quotients rounded up do.
From a first estimate that is not above its own step the estimates grow, and stay below every w whose
step is not above w; so the loop accepts exactly if there is such a w within the limit, and then it
ends at a fixed point (`TaskCheckLoop`, `LoopIsExact`, `TaskCheckExact`).  Put like this, the test is
plainly monotone: a wider band, or less allotted to others, makes the step smaller and the limit no
smaller, and the same w will do (`ServerCheckMonotone`).  All this needs tasks that preempt to ask for
no more than their periods (PreemptorsFit): otherwise a quotient may be negative, estimates fall and
the iteration need not find its fixed point.  The other theorems need no such condition, because a task
of the highest priority that asks for more than its period fails by itself (`OverloadFails`), so
whatever is accepted satisfies it.  The bisection keeps a band that fails below and one that passes, or
the end of the interval, above; with a monotone test the upper one is the least when they meet
(`BisectIsLeast`).  NormalizeScore maps the smallest score to 0 and the largest to 100 and keeps the
order between, since a quotient grows with its numerator, and no product wraps around.

The assumptions are AnalysisAssumption, that tasks have a period and an execution time of at least 1,
and ScoresAssumption, that a node has cores, none of them used by more than 100 percent, and that a
hundred times an annotation is not beyond MaxInt.  The code validates none of these.

`SqliteStorageProofs` proves for all pods, tasks and cores, any number of containers, rows and
restarts:

* `StorageInvariant`: `Spec => []StorageInv`;
* `NothingComesBack`: `Spec => []DeletedStaysDeleted`;
* `SavesOrMarks`: `Spec => []SavedOrChanged`;
* `AdmitsSoundly`, `LosesBandOnlyWhenFull`, `KeepsBudget`, `KeepsGuarantees` and `ServesEveryone`, as
  above, for this build.

SavedOrChanged is not inductive, because a dump does not write what has a row: it updates the band
and, as LastInsertId is that of another row or 0, puts the tasks elsewhere or nowhere.  StorageInv
adds RowsAgree, that the row of a container in memory holds it with all its tasks already.  This is
true of a row that was just inserted, since LastInsertId is then its uid; rows of tasks are never
deleted, so it stays true; and a pod that is admitted anew has no row from before, because while the
process runs every row is of a container in memory (DeletedStaysDeleted).  A dump that is cut short
after a container's row and before its tasks breaks the agreement with memory, but ends the process
too, and the next one has nothing but the rows and starts only if none has tasks.  AdmittedOnce is
needed twice: the row that a dump inserts is the row of no second container of that name, and
deletePod, whose walk skips the container that remove swaps in, leaves none of the name behind.
That no two rows share a uid rests on the new uid being larger than all in the table.  The walk and
the dump are folds, read as sequences of turns as in AdmissionProofs.  The promises of Admission come
from the lemma on the handlers that RubicanteProofs uses, and from a lemma that deleting containers
from any places keeps every core within its budget and every
guarantee.  PriorityOrder is not among them: a deletion
moves containers, and the order is then lost (Admission says how).  The assumptions are
AdmissionAssumption and SqliteAssumption, the types of the constants.

Only model-checked: liveness, which is out of the prover's reach (SchedulingCycleEnds, EventuallySaved,
ResultsLeaveStore, OutdatedIsReplaced, NoPodIsLost, AssumedIsSettled).  Every invariant and every
action property of the passing runs is a theorem.  The two properties that fail have their
counterexamples from TLC.

## 5. What the runs found

1. `TDMA.go:289`: Unreserve leaves slots behind (`tdma_unreserve`).
2. `nodeImplementation.go:97`: a failing query zeroes bands (`admission_query`).

Each is quoted with the comment it contradicts under `findings`.

Met while modelling, with a property that says how far the guarantee goes:

* `nodeImplementation.go:135`: priorities run together, and an admission above containers of one
  priority may promise more than the core has, after which bands turn negative (BudgetKept);
* `nodeImplementation.go:180`: with all of a core allotted, binSearch ends at band 0 and the
  analysis accepts it; an admission may leave a container without a band, but only then
  (BandLostOnlyWhenFull);
* `store.go:134`: results added while the handler runs are dropped unwritten, no others
  (OnlyLateIsLost);
* `routers.go:257`: a podBind request that is served after the pod's deletion was heard of admits
  a container that nothing frees (HeldUntilDeleted);
* `nodeImplementation.go:79`, `data_storage_Sqlite.go:70`: a podBind request that is repeated after a
  failure, or made for a pod of the same name, adds a second container, and deletePod then leaves one
  of two; with these two cases everything that outlasts its pod is named (HeldUntilDeleted), and the
  second one does not happen to a pod by itself of which no attempt was given up (HeldOnce);
* `data_storage_Sqlite.go:117`: LastInsertId is often not the container's uid; tasks are stored
  too often, never too seldom (SavedOrChanged);
* `factory.go:416`: the failure of a binding goroutine uses the current scheduling cycle, so a
  wake-up may be lost until the flush, against the comment at `scheduling_queue.go:156`
  (NoPodIsLost);
* `cache.go:410`: a ForgetPod that comes after the assumed pod expired can take away the assumption
  of a later cycle on the same node; it never takes a confirmed pod (CacheMatchesEvents).

Part of the models without a property: deletePod of the CSV build ends the process for any
container but the last one of its list and leaves its line in the file (`data_storage.go:99`); with
the database, the daemon never starts again once tasks are stored (`schema:2`,
`data_storage_Sqlite.go:48`); errors of writing the files clear `changed` all the same
(`data_storage.go:147`); every update of the node object but the first is refused, so rubicante marks
its node once at most (`routers.go:168`), and malacoda crashes at its second change (`main.go:169`);
the scorer reads the annotation `assurance`, malacoda writes `ASSURANCE`.

## 6. Not modelled

* Overlapping memory accesses of goroutines without a lock (TDMA.go, store.go): the runtime
  may end the process on a concurrent map write; steps here do not overlap.
* Pods of one name where a module tells pods apart by name: in TdmaScheduling a name is used again
  only after the Unreserve of the old pod is done, and in ResultStore never, although the store is
  keyed by namespace and name and would write old results to the new pod.
* In ResultStore binding is part of the scheduling cycle and not a goroutine of its own, and the run
  has SilentFailure and ApiFails off.
* In Scheduler, SchedulingCycle() is read in the step that adds the pod to the queue; the code takes the
  queue's lock twice (`factory.go:416`), and a Pop in between may send the pod of a binding goroutine to
  podBackoffQ where the model has unschedulableQ, from which it comes back later.
* Plugin calls that never return: the HTTP clients of the plugins have no timeout, and a rubicante
  whose mutex stays locked does not answer.  The liveness properties assume that calls return.
* The server period of containers read from the database, which stays 0; they have no tasks, and
  every request then panics.
* A deletion and a creation under one namespace and name that the informer of a rubicante merges into
  an update: the daemon then hears only of the second pod's deletion.
* HTTP and JSON errors that leave the state alone, logging, parsing of arguments.
* The master's view of slots: scarmiglione keeps none, so there is nothing to compare the table with.
* Lengths of slots that are negative (`TDMA.go:160` does not validate them); addresses of nodes that
  change while the plugin keeps the old one (`rtschedulability.go:173`).
* The embedded API server's start-up, the PV controller, the conversion of plugin configurations,
  scenario and demo programs, prototypes under `malacoda/prove`, malacoda's load monitor (never
  called, and getPod does not compile).
* Vendored and generated code: some 1.4 million lines of Kubernetes (API types with their
  protobuf and deep-copy code, client-go, kubelet, kubectl, API server) and of generated OpenAPI.
  It is not the logic of this program, and a model of it would be one of Kubernetes.  Of the forked
  scheduler the parts that this repository's plugins run in are modelled: queue, cache, cycles and
  event handlers.  The modules therefore cover nearly all of the program's own state-changing code
  and a very small share of all lines under `src/`.

## 7. Plan

Done: TdmaScheduling with its abstract specification and refinement, RtScheduling, NodeObject,
Scheduler, ResultStore, Admission, Rubicante, SqliteStorage and Algorithms, with their proofs.

Models to extend: RtScheduling with the daemons' answers from Admission instead of open ones;
ResultStore with SilentFailure as a case of its own; start, restart and shutdown of the simulator's
scheduler around module Scheduler.
