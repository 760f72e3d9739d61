--------------------------- MODULE TdmaScheduling ---------------------------
(***************************************************************************)
(* The TDMAscheduling plugin of the kube-scheduler                         *)
(* (plugins/tdmascheduling/TDMA.go): the table of time slots it hands out  *)
(* to pods on the TDMA network, and the three kinds of goroutines that     *)
(* change the table without a lock:                                        *)
(*                                                                         *)
(*   sched     the scheduling goroutine: PreFilter, Reserve, and Unreserve *)
(*             when a plugin fails to reserve;                             *)
(*   unres[p]  Unreserve for pod p, run by the scheduling goroutine or by  *)
(*             the binding goroutine of p;                                 *)
(*   informer  the goroutine that delivers pod deletions (podDelete).      *)
(*                                                                         *)
(* Each of them calls the TDMA master over HTTP in the middle of its loop; *)
(* a step of this module is the code between two such calls, so every      *)
(* interleaving around the calls is explored.  The code between two calls  *)
(* is taken as one step although no lock protects it: what overlapping     *)
(* memory accesses would do is outside this module.                        *)
(*                                                                         *)
(* The master's answer is left open: a call succeeds or fails.             *)
(***************************************************************************)
EXTENDS Integers, SequencesExt

CONSTANTS
  Pods,        \* pods labelled Network=TDMA, identified by pod.Name
  NoPod,       \* the PodName "" of the slice New creates
  Length,      \* Length[p]: Req.Length of the TDMA annotation of p, in us
  majorcycle   \* the TDMA cycle, in us

\* Req.Length is an int64 nobody validates: a negative one makes slots that
\* end before they begin.  Pod names are not empty.
ASSUME TdmaAssumption ==
  /\ NoPod \notin Pods
  /\ Length \in [Pods -> Nat]
  /\ majorcycle \in Nat

VARIABLES
  slices,    \* pl.slices
  sched,     \* scheduling goroutine
  unres,     \* the call of Unreserve of each pod
  informer,  \* podDelete
  phase,     \* where the scheduler is with each pod
  alive,     \* pods that exist in the API server
  deletes    \* pods whose deletion has not been delivered yet

vars == <<slices, sched, unres, informer, phase, alive, deletes>>

Slot == [b : Int, e : Int, pod : Pods \cup {NoPod}]

Base == [b |-> 0, e |-> 100, pod |-> NoPod]

Phases == {"pending", "reserving", "binding", "unreserving", "bound", "gone"}

(***************************************************************************)
(* The scheduling goroutine is "idle", looks for the next gap ("scan"), or *)
(* waits for the answer to reserveSlot for a slot in a gap ("gap") or      *)
(* after the last slot ("end"), or runs Unreserve.  i is the loop index    *)
(* (from 1), done the variable "scheduled".                                *)
(***************************************************************************)
SchedState ==
  [pc : {"idle", "scan", "gap", "end", "unreserve"}, pod : Pods \cup {NoPod},
   i : Nat \ {0}, done : BOOLEAN, slot : Slot]

UnresState == [pc : {"off", "scan", "call"}, i : Nat \ {0}]

InformerState ==
  [pc : {"idle", "scan", "call"}, pod : Pods \cup {NoPod}, i : Nat \ {0}]

IdleSched == [pc |-> "idle", pod |-> NoPod, i |-> 1, done |-> FALSE, slot |-> Base]
IdleInformer == [pc |-> "idle", pod |-> NoPod, i |-> 1]
NoUnreserve == [pc |-> "off", i |-> 1]

-----------------------------------------------------------------------------
(* The table                                                               *)

\* Guard time left before a slot, and the slack both tests demand in total.
Guard == 10
\* Mutant: no room is demanded around a slot.
NoSlack == 0

Slack == 20

GapFits(k, len) == slices[k + 1].b - slices[k].e > len + Slack
EndFits(len) == slices[Len(slices)].e < majorcycle - len - Slack

\* The indexes a loop over the table still has to visit and that match.
GapsFrom(i, len) == {k \in i .. Len(slices) - 1 : GapFits(k, len)}
OwnedFrom(i, last, p) == {k \in i .. last : slices[k].pod = p}

\* Mutant: the end of the slot is computed without the guard before it.
SlotAfterShort(k, p) ==
  [b |-> slices[k].e + Guard, e |-> slices[k].e + Length[p], pod |-> p]

SlotAfter(k, p) ==
  [b |-> slices[k].e + Guard, e |-> slices[k].e + Guard + Length[p], pod |-> p]

\* append followed by sort.SliceStable on Begin: on a table that is sorted
\* already, the new slot goes behind the last one that begins no later.
InsertByBegin(s, x) ==
  LET n == CHOOSE n \in 0 .. Len(s) :
             /\ \A k \in 1 .. n : s[k].b <= x.b
             /\ \A k \in n + 1 .. Len(s) : s[k].b > x.b
  IN  [k \in 1 .. Len(s) + 1 |->
         IF k <= n THEN s[k] ELSE IF k = n + 1 THEN x ELSE s[k - 1]]

-----------------------------------------------------------------------------
(* Scheduling goroutine: PreFilter and Reserve                             *)

\* A pod that PreFilter rejects stays pending: no step.
PreFilter(p) ==
  /\ sched.pc = "idle"
  /\ phase[p] = "pending"
  /\ GapsFrom(1, Length[p]) # {} \/ EndFits(Length[p])
  /\ sched' = [IdleSched EXCEPT !.pc = "scan", !.pod = p]
  /\ phase' = [phase EXCEPT ![p] = "reserving"]
  /\ UNCHANGED <<slices, unres, informer, alive, deletes>>

\* Mutant: the slot is computed behind the end of the gap.
ReserveBehindGap ==
  /\ sched.pc = "scan"
  /\ GapsFrom(sched.i, Length[sched.pod]) # {}
  /\ LET k == Min(GapsFrom(sched.i, Length[sched.pod]))
     IN  sched' = [sched EXCEPT !.pc = "gap", !.i = k, !.slot = SlotAfter(k + 1, sched.pod)]
  /\ UNCHANGED <<slices, unres, informer, phase, alive, deletes>>

\* Reserve finds a gap at or after its index and calls reserveSlot.
ReserveGap ==
  /\ sched.pc = "scan"
  /\ GapsFrom(sched.i, Length[sched.pod]) # {}
  /\ LET k == Min(GapsFrom(sched.i, Length[sched.pod]))
     IN  sched' = [sched EXCEPT !.pc = "gap", !.i = k, !.slot = SlotAfter(k, sched.pod)]
  /\ UNCHANGED <<slices, unres, informer, phase, alive, deletes>>

\* No gap left and nothing allotted yet: try behind the last slot.
ReserveEnd ==
  /\ sched.pc = "scan"
  /\ GapsFrom(sched.i, Length[sched.pod]) = {}
  /\ ~sched.done
  /\ EndFits(Length[sched.pod])
  /\ sched' = [sched EXCEPT !.pc = "end", !.slot = SlotAfter(Len(slices), sched.pod)]
  /\ UNCHANGED <<slices, unres, informer, phase, alive, deletes>>

\* Reserve returned success: the scheduling goroutine turns to the next pod
\* and a binding goroutine takes over.
Reserved(p) ==
  /\ sched' = IdleSched
  /\ phase' = [phase EXCEPT ![p] = "binding"]
  /\ UNCHANGED unres

\* Reserve returned a failure: scheduleOne runs Unreserve at once.
ReserveFailed(p) ==
  /\ sched' = [sched EXCEPT !.pc = "unreserve"]
  /\ phase' = [phase EXCEPT ![p] = "unreserving"]
  /\ unres' = [unres EXCEPT ![p] = [pc |-> "scan", i |-> 1]]

\* The cycle ends before Reserve: the pod goes back to the queue.
NotReserved(p) ==
  /\ sched' = IdleSched
  /\ phase' = [phase EXCEPT ![p] = IF p \in alive THEN "pending" ELSE "gone"]
  /\ UNCHANGED unres

\* After PreFilter no node was found for the pod; or a plugin that comes before
\* this one failed to reserve, and Unreserve runs though Reserve did not.
ReserveSkipped ==
  /\ sched.pc = "scan"
  /\ sched.i = 1
  /\ NotReserved(sched.pod) \/ ReserveFailed(sched.pod)
  /\ UNCHANGED <<slices, informer, alive, deletes>>

\* The loop is over and the end was not tried.
ReserveReturn ==
  /\ sched.pc = "scan"
  /\ GapsFrom(sched.i, Length[sched.pod]) = {}
  /\ sched.done \/ ~EndFits(Length[sched.pod])
  /\ IF sched.done THEN Reserved(sched.pod) ELSE ReserveFailed(sched.pod)
  /\ UNCHANGED <<slices, informer, alive, deletes>>

\* reserveSlot succeeded in a gap: the loop goes on with the next index.
ReserveGapOk ==
  /\ sched.pc = "gap"
  /\ slices' = InsertByBegin(slices, sched.slot)
  /\ sched' = [sched EXCEPT !.pc = "scan", !.i = @ + 1, !.done = TRUE]
  /\ UNCHANGED <<unres, informer, phase, alive, deletes>>

ReserveEndOk ==
  /\ sched.pc = "end"
  /\ slices' = Append(slices, sched.slot)
  /\ Reserved(sched.pod)
  /\ UNCHANGED <<informer, alive, deletes>>

ReserveError ==
  /\ sched.pc \in {"gap", "end"}
  /\ ReserveFailed(sched.pod)
  /\ UNCHANGED <<slices, informer, alive, deletes>>

-----------------------------------------------------------------------------
(* Binding goroutines                                                      *)

BindOk(p) ==
  /\ phase[p] = "binding"
  /\ p \in alive
  /\ phase' = [phase EXCEPT ![p] = "bound"]
  /\ UNCHANGED <<slices, sched, unres, informer, alive, deletes>>

\* A later Reserve plugin, Permit, WaitOnPermit, PreBind or bind failed (the pod
\* may be gone by now).  The first two run in the scheduling goroutine, which
\* allows fewer interleavings than this.
BindFail(p) ==
  /\ phase[p] = "binding"
  /\ phase' = [phase EXCEPT ![p] = "unreserving"]
  /\ unres' = [unres EXCEPT ![p] = [pc |-> "scan", i |-> 1]]
  /\ UNCHANGED <<slices, sched, informer, alive, deletes>>

-----------------------------------------------------------------------------
(* Unreserve                                                               *)

\* Mutant: the scheduling goroutine is not told that Unreserve is over.
UnreserveHangs(p) ==
  /\ unres' = [unres EXCEPT ![p] = NoUnreserve]
  /\ phase' = [phase EXCEPT ![p] = IF p \in alive THEN "pending" ELSE "gone"]
  /\ sched' = sched

\* ForgetPod and recordSchedulingFailure: the pod is tried again, if it
\* still exists; the scheduling goroutine is free if it ran the call.
UnreserveReturn(p) ==
  /\ unres' = [unres EXCEPT ![p] = NoUnreserve]
  /\ phase' = [phase EXCEPT ![p] = IF p \in alive THEN "pending" ELSE "gone"]
  /\ sched' = IF sched.pc = "unreserve" /\ sched.pod = p THEN IdleSched ELSE sched

\* Mutant: off by one, the slot behind the pod's own is dropped.
UnreserveDropsNext(p) ==
  /\ unres[p].pc = "scan"
  /\ OwnedFrom(unres[p].i, Len(slices) - 1, p) # {}
  /\ LET k == Min(OwnedFrom(unres[p].i, Len(slices) - 1, p))
     IN  /\ slices' = RemoveAt(slices, k + 1)
         /\ unres' = [unres EXCEPT ![p] = [pc |-> "call", i |-> k]]
  /\ UNCHANGED <<sched, informer, phase, alive, deletes>>

\* The loop runs to len - 2, so it never looks at the last slot.  It drops
\* the slot first and then calls unreserveSlot for the slot that moved into
\* its place.
UnreserveDrop(p) ==
  /\ unres[p].pc = "scan"
  /\ OwnedFrom(unres[p].i, Len(slices) - 1, p) # {}
  /\ LET k == Min(OwnedFrom(unres[p].i, Len(slices) - 1, p))
     IN  /\ slices' = RemoveAt(slices, k)
         /\ unres' = [unres EXCEPT ![p] = [pc |-> "call", i |-> k]]
  /\ UNCHANGED <<sched, informer, phase, alive, deletes>>

UnreserveDone(p) ==
  /\ unres[p].pc = "scan"
  /\ OwnedFrom(unres[p].i, Len(slices) - 1, p) = {}
  /\ UnreserveReturn(p)
  /\ UNCHANGED <<slices, informer, alive, deletes>>

UnreserveOk(p) ==
  /\ unres[p].pc = "call"
  /\ unres' = [unres EXCEPT ![p] = [pc |-> "scan", i |-> @.i + 1]]
  /\ UNCHANGED <<slices, sched, informer, phase, alive, deletes>>

UnreserveError(p) ==
  /\ unres[p].pc = "call"
  /\ UnreserveReturn(p)
  /\ UNCHANGED <<slices, informer, alive, deletes>>

-----------------------------------------------------------------------------
(* podDelete, and the life of pods in the API server                       *)

\* A pod is deleted; its goroutine, if it has one, finds out when it binds.
Delete(p) ==
  /\ p \in alive
  /\ p \notin deletes
  /\ alive' = alive \ {p}
  /\ deletes' = deletes \cup {p}
  /\ phase' = [phase EXCEPT ![p] = IF @ \in {"pending", "bound"} THEN "gone" ELSE @]
  /\ UNCHANGED <<slices, sched, unres, informer>>

\* A pod of the same name is created again (a StatefulSet does that).
Create(p) ==
  /\ p \notin alive
  /\ phase[p] = "gone"
  /\ alive' = alive \cup {p}
  /\ phase' = [phase EXCEPT ![p] = "pending"]
  /\ UNCHANGED <<slices, sched, unres, informer, deletes>>

PodDelete(p) ==
  /\ informer.pc = "idle"
  /\ p \in deletes
  /\ deletes' = deletes \ {p}
  /\ informer' = [pc |-> "scan", pod |-> p, i |-> 1]
  /\ UNCHANGED <<slices, sched, unres, phase, alive>>

\* unreserveSlot is called for a slot that is still in the table.
PodDeleteCall ==
  /\ informer.pc = "scan"
  /\ OwnedFrom(informer.i, Len(slices), informer.pod) # {}
  /\ informer' = [informer EXCEPT !.pc = "call",
                    !.i = Min(OwnedFrom(informer.i, Len(slices), informer.pod))]
  /\ UNCHANGED <<slices, sched, unres, phase, alive, deletes>>

\* Whatever unreserveSlot answered, the slot that has the index now goes.
PodDeleteDrop ==
  /\ informer.pc = "call"
  /\ informer.i <= Len(slices)
  /\ slices' = RemoveAt(slices, informer.i)
  /\ informer' = [informer EXCEPT !.pc = "scan", !.i = @ + 1]
  /\ UNCHANGED <<sched, unres, phase, alive, deletes>>

PodDeleteDone ==
  /\ informer.pc = "scan"
  /\ OwnedFrom(informer.i, Len(slices), informer.pod) = {}
  /\ informer' = IdleInformer
  /\ UNCHANGED <<slices, sched, unres, phase, alive, deletes>>

-----------------------------------------------------------------------------
(* The scheduler process stops and starts again: New makes a fresh table,  *)
(* pods that were not bound are tried again, deletions are not replayed.   *)

New ==
  /\ slices' = <<Base>>
  /\ sched' = IdleSched
  /\ unres' = [p \in Pods |-> NoUnreserve]
  /\ informer' = IdleInformer
  /\ phase' = [p \in Pods |->
                 IF p \notin alive THEN "gone"
                 ELSE IF phase[p] = "bound" THEN "bound" ELSE "pending"]
  /\ deletes' = {}
  /\ UNCHANGED alive

Restart == New

\* The table shrank below the index during the call: slices[i+1:] panics.
PodDeletePanic ==
  /\ informer.pc = "call"
  /\ informer.i > Len(slices)
  /\ New

-----------------------------------------------------------------------------
Init ==
  /\ slices = <<Base>>
  /\ sched = IdleSched
  /\ unres = [p \in Pods |-> NoUnreserve]
  /\ informer = IdleInformer
  /\ phase = [p \in Pods |-> "pending"]
  /\ alive = Pods
  /\ deletes = {}

Scheduling == ReserveSkipped \/ ReserveGap \/ ReserveEnd \/ ReserveReturn
                \/ ReserveGapOk \/ ReserveEndOk \/ ReserveError

Unreserve(p) == UnreserveDrop(p) \/ UnreserveDone(p) \/ UnreserveOk(p) \/ UnreserveError(p)

Watching == PodDeleteCall \/ PodDeleteDrop \/ PodDeleteDone \/ PodDeletePanic

Next ==
  \/ Scheduling
  \/ Watching
  \/ Restart
  \/ \E p \in Pods :
       \/ PreFilter(p) \/ BindOk(p) \/ BindFail(p)
       \/ Unreserve(p)
       \/ Delete(p) \/ Create(p) \/ PodDelete(p)

Spec == Init /\ [][Next]_vars

(***************************************************************************)
(* A goroutine that can run does run, and a call to the master returns.    *)
(* The HTTP client has no timeout: that a call returns is the master's or  *)
(* the network's doing.  Nothing makes users create or delete pods.        *)
(***************************************************************************)
Fairness ==
  /\ WF_vars(Scheduling)
  /\ WF_vars(Watching)
  /\ \A p \in Pods : WF_vars(Unreserve(p))

FairSpec == Spec /\ Fairness

-----------------------------------------------------------------------------
(* Properties                                                              *)

TypeOK ==
  /\ slices \in Seq(Slot)
  /\ sched \in SchedState
  /\ unres \in [Pods -> UnresState]
  /\ informer \in InformerState
  /\ phase \in [Pods -> Phases]
  /\ alive \subseteq Pods
  /\ deletes \subseteq Pods

\* The table is never empty and starts with the slot New put there, whatever
\* indexes the three loops use on it while others change it.
BaseFirst ==
  /\ Len(slices) > 0
  /\ slices[1] = Base

\* No two slots overlap: any slot begins at least Guard after the end of every
\* slot before it in the table, and all slots end within the cycle.  Reserve
\* computes a slot before its call to the master and inserts it after, when
\* other goroutines may have changed the table.
SlotsSeparated ==
  /\ \A j \in 1 .. Len(slices) : \A k \in 1 .. j - 1 :
       slices[k].e + Guard <= slices[j].b
  /\ \A j \in 2 .. Len(slices) : slices[j].e + Guard <= majorcycle

\* The slot that Reserve computed before its call still fits when the call
\* returns: before or behind every slot of the table for one in a gap, behind
\* all of them for one at the end.
PendingSlotFits ==
  /\ sched.pc \in {"gap", "end"} =>
       /\ sched.slot.b <= sched.slot.e
       /\ sched.slot.e + Guard <= majorcycle
       /\ slices[1].e + Guard <= sched.slot.b
  /\ sched.pc = "gap" =>
       \A k \in 1 .. Len(slices) : \/ slices[k].e + Guard <= sched.slot.b
                                   \/ sched.slot.e + Guard <= slices[k].b
  /\ sched.pc = "end" =>
       \A k \in 1 .. Len(slices) : slices[k].e + Guard <= sched.slot.b

\* No slot ends before it begins, and goroutines work for pods; podDelete never
\* holds the index of the first slot.
LoopsWellFormed ==
  /\ \A k \in 1 .. Len(slices) : slices[k].b <= slices[k].e
  /\ sched.pc # "idle" => sched.pod \in Pods
  /\ informer.pc # "idle" => informer.pod \in Pods
  /\ informer.pc = "call" => informer.i > 1

\* The inductive strengthening of BaseFirst and SlotsSeparated: removals by the
\* other goroutines during Reserve's call only make room for its slot.
TableInv ==
  /\ TypeOK
  /\ BaseFirst
  /\ SlotsSeparated
  /\ PendingSlotFits
  /\ LoopsWellFormed

\* The slot that Reserve asks the master for has the length of the request.
SlotIsRequested ==
  sched.pc \in {"gap", "end"} =>
    sched.slot = [b |-> sched.slot.b, e |-> sched.slot.b + Length[sched.pod], pod |-> sched.pod]

\* The table, walked by index and changed around calls to the master, is seen
\* from outside the plain allocation of the cycle that SlotTable describes: a
\* step adds one slot of the requested length where all others leave room, takes
\* exactly one slot away, or starts from an empty table.
Granted == {slices[k] : k \in 2 .. Len(slices)}

Table == INSTANCE SlotTable WITH granted <- Granted

ImplementsSlotTable == Table!Spec

\* Reserve's loop ends although it inserts slots into the table it walks and
\* does not stop at the first gap: every scheduling cycle comes to an end.
SchedulingCycleEnds == sched.pc # "idle" ~> sched.pc = "idle"

\* Reserve and Unreserve touch no slot of another pod; only podDelete and a
\* restart can take a slot away from a pod they do not work for.
OthersSlots(p) == {x \in Granted : x.pod # p}

OnlyOwnSlots ==
  [][ \A p \in Pods :
        (Scheduling /\ sched.pod = p) \/ Unreserve(p)
          => OthersSlots(p)' = OthersSlots(p) ]_vars

\* "trigger un-reserve to clean up state associated with the reserved Pod"
\* (scheduler.go): when Unreserve has walked the whole table, the pod holds no
\* slot any more.
UnreserveCleansUp ==
  [][ \A p \in Pods :
        UnreserveDone(p) => OwnedFrom(1, Len(slices), p) = {} ]_vars

=============================================================================
