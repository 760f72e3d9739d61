--------------------------- MODULE SqliteStorage ---------------------------
(***************************************************************************)
(* rubicante built with the tag sqlite: the admitted containers of module  *)
(* Admission are kept in two tables of a database (schema):                *)
(*                                                                         *)
(*   containers(uid INTEGER PRIMARY KEY, name UNIQUE, band, prio, core)    *)
(*   tasks(uid, wcet, period, prio, container)                             *)
(*                                                                         *)
(* uid of containers is the rowid: one more than the largest in the table, *)
(* so that a uid is used again after the newest row is deleted.  uid of    *)
(* tasks was meant to be one too, but its declaration is misspelt: it      *)
(* stays NULL, and reading it back fails.  Each statement is committed by  *)
(* itself, and a failing one ends the process, as a crash does.            *)
(***************************************************************************)
EXTENDS Admission

CONSTANTS
  Retried,        \* pods whose podBind request may be served again
  MaxTaskRows,    \* bound: no admission is made beyond this many rows of tasks
  MaxRestarts     \* bound on restarts of the process

ASSUME SqliteAssumption ==
  /\ Retried \subseteq Pods
  /\ MaxTaskRows \in Nat
  /\ MaxRestarts \in Nat

VARIABLES
  rows,       \* table containers
  taskRows,   \* table tasks, whose rows are never deleted: the k-th has rowid k
  restarts    \* how often the process was started again

tables == <<rows, taskRows>>
vars == <<memory, tables, restarts>>

-----------------------------------------------------------------------------
(* The statements of dumpState.  A database db is the two tables and the   *)
(* rowid that the connection inserted last, which is 0 on a new one.       *)

Connection == [rows |-> rows, taskRows |-> taskRows, last |-> 0]

\* Mutant: the uid is the number of the rows.
SaveContainerByCount(db, c) ==
  LET uid == Cardinality(db.rows) + 1
      row == [uid |-> uid, name |-> c.name, band |-> c.band, prio |-> c.prio, core |-> c.core]
  IN  IF \A r \in db.rows : r.name # c.name
      THEN [db EXCEPT !.rows = @ \cup {row}, !.last = uid]
      ELSE [db EXCEPT !.rows = {IF r.name = c.name THEN [r EXCEPT !.band = c.band] ELSE r : r \in @}]

\* insert ... on conflict(name) do update set band: an update leaves last alone.
SaveContainer(db, c) ==
  LET uid == Max({r.uid : r \in db.rows} \cup {0}) + 1
      row == [uid |-> uid, name |-> c.name, band |-> c.band, prio |-> c.prio, core |-> c.core]
  IN  IF \A r \in db.rows : r.name # c.name
      THEN [db EXCEPT !.rows = @ \cup {row}, !.last = uid]
      ELSE [db EXCEPT !.rows = {IF r.name = c.name THEN [r EXCEPT !.band = c.band] ELSE r : r \in @}]

\* LastInsertId is taken for the container's uid.  It is, if the container was
\* inserted; after an update it is what was inserted before in this dump, be it
\* a container or a task, or 0, and then no task is stored.
SaveTasks(db, tasks) ==
  LET new == [i \in DOMAIN tasks |-> [container |-> db.last, task |-> tasks[i]]]
  IN  IF db.last = 0 \/ tasks = <<>> THEN db
      ELSE [db EXCEPT !.taskRows = @ \o new, !.last = Len(db.taskRows) + Len(new)]

Save(db, c) == SaveTasks(SaveContainer(db, c), c.tasks)

Saved(cs) == FoldLeft(Save, Connection, cs)

Commit(db) ==
  /\ rows' = db.rows
  /\ taskRows' = db.taskRows

-----------------------------------------------------------------------------
(* The process                                                             *)

\* No handler touches the database.  PodBind is not tried beyond the bounds.
Request(p) ==
  /\ \/ HandlerPanic(p)
     \/ SchedulabilityTest(p)
     \/ /\ InMemory(p) => p \in Retried
        /\ Len(taskRows) < MaxTaskRows
        /\ PodBind(p)
  /\ UNCHANGED <<tables, restarts>>

\* remove: the last element takes the place of the k-th.
SwapRemove(cs, k) == [i \in 1 .. Len(cs) - 1 |-> IF i = k THEN Last(cs) ELSE cs[i]]

\* The walk of deletePod over the indexes: the element that takes the place of a
\* removed one is not looked at.
RemoveIfOf(cs, p, i) ==
  IF i <= Len(cs) /\ cs[i].name = p THEN SwapRemove(cs, i) ELSE cs

Removed(cs, p) ==
  FoldLeft(LAMBDA s, i : RemoveIfOf(s, p, i), cs, [i \in DOMAIN cs |-> i])

\* Mutant: the row is left to the next dump, as in the other build.
PodDeleteInMemory(p) ==
  /\ Running
  /\ InMemory(p)
  /\ containers' = Removed(containers, p)
  /\ UNCHANGED <<changed, locked, up, tables, restarts>>

\* deletePod: the row goes at once, its tasks stay.
PodDelete(p) ==
  /\ Running
  /\ InMemory(p)
  /\ containers' = Removed(containers, p)
  /\ rows' = {r \in rows : r.name # p}
  /\ UNCHANGED <<changed, locked, up, taskRows, restarts>>

\* Mutant: the last container is not written.
DumpAllButLast ==
  /\ Running
  /\ changed
  /\ Commit(Saved(Front(containers)))
  /\ changed' = FALSE
  /\ UNCHANGED <<containers, locked, up, restarts>>

DumpState ==
  /\ Running
  /\ changed
  /\ Commit(Saved(containers))
  /\ changed' = FALSE
  /\ UNCHANGED <<containers, locked, up, restarts>>

Crash ==
  /\ up
  /\ restarts < MaxRestarts
  /\ Stop
  /\ UNCHANGED <<tables, restarts>>

\* The process stops when the k-th container and j of its tasks are saved.
CrashInDump ==
  /\ Running
  /\ restarts < MaxRestarts
  /\ changed
  /\ \E k \in DOMAIN containers : \E j \in 0 .. Len(containers[k].tasks) :
       Commit(SaveTasks(SaveContainer(Saved(SubSeq(containers, 1, k - 1)), containers[k]),
                        SubSeq(containers[k].tasks, 1, j)))
  /\ Stop
  /\ UNCHANGED restarts

TasksOf(uid) == {i \in DOMAIN taskRows : taskRows[i].container = uid}

\* SELECT * FROM containers goes by the rowid.
ReadContainers ==
  LET uids == {r.uid : r \in rows}
      order == InOrder(uids, [u \in uids |-> u])
      Row(u) == CHOOSE r \in rows : r.uid = u
      Container(r) == [name |-> r.name, band |-> r.band, prio |-> r.prio, core |-> r.core, tasks |-> <<>>]
  IN  [k \in 1 .. Cardinality(uids) |-> Container(Row(order[k]))]

\* start: the first row of a container's tasks cannot be read, because its uid is
\* NULL, and ends the process at once, every time.
Restart ==
  /\ restarts < MaxRestarts
  /\ \A r \in rows : TasksOf(r.uid) = {}
  /\ Start(ReadContainers)
  /\ restarts' = restarts + 1
  /\ UNCHANGED tables

-----------------------------------------------------------------------------
Init ==
  /\ MemoryInit
  /\ rows = {}
  /\ taskRows = <<>>
  /\ restarts = 0

Next ==
  \/ \E p \in Pods : Request(p)
  \/ \E p \in Pods : PodDelete(p)
  \/ DumpState
  \/ Crash
  \/ CrashInDump
  \/ Restart

Spec == Init /\ [][Next]_vars

FairSpec == Spec /\ WF_changed(DumpTurn)

-----------------------------------------------------------------------------
(* Properties                                                              *)

Row == [uid : Nat \ {0}, name : Pods, band : Int, prio : Nat, core : 0 .. nCPUs - 1]
TaskRow == [container : Nat, task : Task]

TypeOK ==
  /\ containers \in Seq(Containers(Pods))
  /\ changed \in BOOLEAN /\ locked \in BOOLEAN /\ up \in BOOLEAN
  /\ rows \in SUBSET Row /\ IsFiniteSet(rows)
  /\ taskRows \in Seq(TaskRow)
  /\ restarts \in 0 .. MaxRestarts

\* A row holds a container with all its tasks, under the row's uid; there may be
\* tasks of others under it.
Holds(r, c) ==
  /\ r.prio = c.prio /\ r.core = c.core
  /\ \A i \in DOMAIN c.tasks :
       \E n \in TasksOf(r.uid) : taskRows[n].task = c.tasks[i]

\* Whatever is not marked for the next dump is in the tables already: every
\* container in memory with its priority, its core and its tasks, although
\* LastInsertId is often not the container's uid and uids are used again.  Not
\* for a pod that is admitted a second time: one of the two keeps the memory
\* when deletePod takes the other, and the row of both.
SavedOrChanged ==
  ~changed =>
    \A k \in DOMAIN containers :
      containers[k].name \notin Retried =>
        \E r \in rows : r.name = containers[k].name /\ Holds(r, containers[k])

\* A deleted container does not come back: while the process runs the tables
\* hold no container that is not in memory, whenever it was deleted and however
\* dumps were cut short, and no two rows are of the same uid or name.
DeletedStaysDeleted ==
  /\ up => \A r \in rows : InMemory(r.name)
  /\ \A r, s \in rows : r # s => r.uid # s.uid /\ r.name # s.name

\* A pod whose request is not repeated is in memory once, and a row of its name
\* holds it, also before the next dump: no row is left from before a dump was cut
\* short, the pod was deleted, or its uid was used again.
AdmittedOnce ==
  \A j, k \in DOMAIN containers :
    containers[j].name = containers[k].name /\ containers[j].name \notin Retried => j = k

RowsAgree ==
  \A r \in rows : \A k \in DOMAIN containers :
    r.name = containers[k].name /\ r.name \notin Retried => Holds(r, containers[k])

\* The inductive invariant of memory and tables under dumpState, deletePod,
\* podBind and start.
StorageInv == TypeOK /\ DeletedStaysDeleted /\ AdmittedOnce /\ RowsAgree /\ SavedOrChanged

\* Every admitted container gets a row, unless it is deleted before, the process
\* stops, or a panic has left the mutex locked.
EventuallySaved ==
  \A p \in Pods \ Retried :
    InMemory(p) ~> ~InMemory(p) \/ locked \/ \E r \in rows : r.name = p

=============================================================================
