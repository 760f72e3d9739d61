----------------------------- MODULE Rubicante ------------------------------
(***************************************************************************)
(* rubicante built with CSV storage: the admitted containers of module     *)
(* Admission are dumped to two CSV files and read back by the next         *)
(* process.  The process may stop at any moment, also between two writes   *)
(* of dumpState; a panic of podDelete stops it.                            *)
(***************************************************************************)
EXTENDS Admission

CONSTANTS
  NameLength,     \* NameLength[p]: bytes of the name of p
  MaxRestarts,    \* bound on restarts of the process
  StorageFails    \* whether the files may be impossible to open

ASSUME RubicanteAssumption ==
  /\ NameLength \in [Pods -> Nat \ {0}]
  /\ MaxRestarts \in Nat
  /\ StorageFails \in BOOLEAN

VARIABLES
  containersCsv,  \* lines of containers.csv
  tasksCsv,       \* lines of tasks.csv
  restarts        \* how often the process was started again

files == <<containersCsv, tasksCsv>>
vars == <<memory, files, restarts>>

-----------------------------------------------------------------------------
(* CSV files: both have lines of a name and three numbers.  A file is      *)
(* opened without O_TRUNC, so what is longer than the new content remains, *)
(* beginning within a line: cut counts the bytes missing from its front.   *)

DigitsOf[n \in Nat] == IF n < 10 THEN 1 ELSE 1 + DigitsOf[n \div 10]
Digits(n) == IF n < 0 THEN 1 + DigitsOf[-n] ELSE DigitsOf[n]

\* A name read back from a cut line is a proper suffix <<pod, bytes missing>>,
\* taken to be no pod's name.
NameLen(name) ==
  IF name \in Pods THEN NameLength[name] ELSE NameLength[name[1]] - name[2]
Suffix(name, k) ==
  IF k = 0 THEN name
  ELSE IF name \in Pods THEN <<name, k>> ELSE <<name[1], name[2] + k>>

LineLen(line) ==
  NameLen(line.row[1]) + Digits(line.row[2]) + Digits(line.row[3])
    + Digits(line.row[4]) + 4 - line.cut

Bytes(lines) == FoldLeft(LAMBDA sum, l : sum + LineLen(l), 0, lines)

Overwrite(file, rows) ==
  LET new == [k \in DOMAIN rows |-> [row |-> rows[k], cut |-> 0]]
      size == Bytes(new)
      left == {k \in DOMAIN file : Bytes(SubSeq(file, 1, k)) > size}
      torn == Min(left)
      inside == size - Bytes(SubSeq(file, 1, torn - 1))
  IN  IF left = {} THEN new
      ELSE new \o <<[file[torn] EXCEPT !.cut = @ + IF inside > 0 THEN inside ELSE 0]>>
               \o SubSeq(file, torn + 1, Len(file))

\* csv.Reader skips a line that is empty and refuses one without four fields.
Blank(line) == LineLen(line) = 1
Readable(file) ==
  \A k \in DOMAIN file : Blank(file[k]) \/ file[k].cut <= NameLen(file[k].row[1])

RowsOf(file) ==
  LET order == InOrder({k \in DOMAIN file : ~Blank(file[k])}, [k \in DOMAIN file |-> k])
      Row(line) == <<Suffix(line.row[1], line.cut), line.row[2], line.row[3], line.row[4]>>
  IN  [k \in DOMAIN order |-> Row(file[order[k]])]

ContainerRow(c) == <<c.name, c.band, c.prio, c.core>>
TaskRow(c, t) == <<c.name, t.wcet, t.period, t.prio>>

ContainerRows(cs) == [k \in DOMAIN cs |-> ContainerRow(cs[k])]
TaskRows(cs) ==
  FoldLeft(LAMBDA rows, c : rows \o [i \in DOMAIN c.tasks |-> TaskRow(c, c.tasks[i])],
           <<>>, cs)

\* read_task_data makes a task of every line, an empty one of a line of another
\* container.
ReadTasks(name) ==
  LET rows == RowsOf(tasksCsv)
  IN  [i \in DOMAIN rows |->
         IF rows[i][1] = name
         THEN [wcet |-> rows[i][2], period |-> rows[i][3], prio |-> rows[i][4]]
         ELSE [wcet |-> 0, period |-> 0, prio |-> 0]]

ReadContainers ==
  LET rows == RowsOf(containersCsv)
  IN  [k \in DOMAIN rows |->
         [name |-> rows[k][1], band |-> rows[k][2], prio |-> rows[k][3],
          core |-> rows[k][4], tasks |-> ReadTasks(rows[k][1])]]

-----------------------------------------------------------------------------
(* Deletions, dumps and the end of the process                             *)

\* podDelete for a pod of any node.  deletePod's range fixes the number of turns
\* before the first removal: unless the container is the last one, a later turn
\* indexes beyond the end and the process panics.
PodDelete(p) ==
  LET owned == {k \in DOMAIN containers : containers[k].name = p}
  IN  /\ Running
      /\ owned # {}
      /\ IF owned = {Len(containers)}
         THEN containers' = Front(containers) /\ UNCHANGED <<changed, locked, up>>
         ELSE Stop
      /\ UNCHANGED <<files, restarts>>

\* Mutant: the last container is not written.
DumpAllButLast ==
  /\ Running
  /\ changed
  /\ containersCsv' = Overwrite(containersCsv, ContainerRows(Front(containers)))
  /\ tasksCsv' = Overwrite(tasksCsv, TaskRows(Front(containers)))
  /\ changed' = FALSE
  /\ UNCHANGED <<containers, locked, up, restarts>>

DumpState ==
  /\ Running
  /\ changed
  /\ containersCsv' = Overwrite(containersCsv, ContainerRows(containers))
  /\ tasksCsv' = Overwrite(tasksCsv, TaskRows(containers))
  /\ changed' = FALSE
  /\ UNCHANGED <<containers, locked, up, restarts>>

\* Errors of OpenFile and WriteString are logged, no more: the flag is cleared
\* although one of the files, or both, stayed as it was.
DumpError ==
  /\ StorageFails
  /\ Running
  /\ changed
  /\ \E failed \in {{"containers"}, {"tasks"}, {"containers", "tasks"}} :
       /\ containersCsv' = IF "containers" \in failed THEN containersCsv
                           ELSE Overwrite(containersCsv, ContainerRows(containers))
       /\ tasksCsv' = IF "tasks" \in failed THEN tasksCsv
                      ELSE Overwrite(tasksCsv, TaskRows(containers))
  /\ changed' = FALSE
  /\ UNCHANGED <<containers, locked, up, restarts>>

Crash ==
  /\ up
  /\ restarts < MaxRestarts
  /\ Stop
  /\ UNCHANGED <<files, restarts>>

\* The process stops after k container lines and j task lines of the k-th.
CrashInDump ==
  /\ Running
  /\ restarts < MaxRestarts
  /\ changed
  /\ \E k \in DOMAIN containers : \E j \in 0 .. Len(containers[k].tasks) :
       LET c == containers[k]
           written == TaskRows(SubSeq(containers, 1, k - 1))
                        \o [i \in 1 .. j |-> TaskRow(c, c.tasks[i])]
       IN  /\ containersCsv' = Overwrite(containersCsv,
                                         ContainerRows(SubSeq(containers, 1, k)))
           /\ tasksCsv' = Overwrite(tasksCsv, written)
  /\ Stop
  /\ UNCHANGED restarts

\* start: a file that csv.Reader refuses ends the process at once, every time.
Restart ==
  /\ restarts < MaxRestarts
  /\ Readable(containersCsv)
  /\ containersCsv # <<>> => Readable(tasksCsv)
  /\ Start(ReadContainers)
  /\ restarts' = restarts + 1
  /\ UNCHANGED files

-----------------------------------------------------------------------------
Init ==
  /\ MemoryInit
  /\ containersCsv = <<>>
  /\ tasksCsv = <<>>
  /\ restarts = 0

Next ==
  \/ \E p \in Pods : Handle(p) /\ UNCHANGED <<files, restarts>>
  \/ \E p \in Pods : PodDelete(p)
  \/ DumpState
  \/ DumpError
  \/ Crash
  \/ CrashInDump
  \/ Restart

Spec == Init /\ [][Next]_vars

FairSpec == Spec /\ WF_changed(DumpTurn)

-----------------------------------------------------------------------------
(* Properties                                                              *)

Names == Pods \cup (Pods \X Nat)
ContainerLine == [row : Names \X Int \X Nat \X (0 .. nCPUs - 1), cut : Nat]
TaskLine == [row : Names \X Nat \X Nat \X Nat, cut : Nat]

TypeOK ==
  /\ containers \in Seq(Containers(Names))
  /\ changed \in BOOLEAN
  /\ locked \in BOOLEAN
  /\ up \in BOOLEAN
  /\ containersCsv \in Seq(ContainerLine)
  /\ tasksCsv \in Seq(TaskLine)
  /\ restarts \in 0 .. MaxRestarts

\* Whatever is not marked for the next dump is in the file already: every
\* container in memory, its priority and its core could be read back.  The file
\* may hold lines of earlier dumps as well.
SavedOrChanged ==
  ~changed =>
    \A k \in DOMAIN containers :
      \E i \in DOMAIN containersCsv :
        LET line == containersCsv[i]
        IN  /\ Suffix(line.row[1], line.cut) = containers[k].name
            /\ line.row[3] = containers[k].prio
            /\ line.row[4] = containers[k].core

\* Every admitted container reaches the file, unless it is deleted before, the
\* process stops, or a panic has left the mutex locked.
EventuallySaved ==
  \A p \in Pods :
    InMemory(p) ~> \/ ~InMemory(p)
                   \/ locked
                   \/ \E i \in DOMAIN containersCsv :
                        containersCsv[i].row[1] = p /\ containersCsv[i].cut = 0

=============================================================================
