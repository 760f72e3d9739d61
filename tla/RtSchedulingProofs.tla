------------------------- MODULE RtSchedulingProofs -------------------------
(***************************************************************************)
(* Real-time pods that are bound are admitted by their nodes, and what     *)
(* daemons hold is freed but for repeated and late requests, for every     *)
(* set of pods, names and nodes.                                           *)
(***************************************************************************)
EXTENDS RtScheduling, TLAPS

\* The name of a pod is one of the names.
LEMMA NameType == ASSUME NEW p \in Pods PROVE Name[p] \in Names
BY DEF Names

\* In the initial state nothing is bound, admitted or deleted.
LEMMA InitRtInv == Init => RtInv
<1> SUFFICES ASSUME Init PROVE RtInv
  OBVIOUS
<1> USE DEF Init
<1>1. TypeOK
  BY RtAssumption DEF TypeOK, IdleCycle, Phases
<1>2. \A n \in Nodes, a \in Names : held[n][a] = 0
  OBVIOUS
<1>3. DeletesAreDue
  BY DEF DeletesAreDue
<1>4. BoundIsAdmitted
  BY RtAssumption DEF BoundIsAdmitted
<1>5. SecondIsExcess /\ HeldUntilDeleted
  BY <1>2 DEF SecondIsExcess, HeldUntilDeleted
<1>6. OnePlace
  BY <1>2, NameType, RtAssumption DEF OnePlace, Place
<1> QED
  BY <1>1, <1>3, <1>4, <1>5, <1>6 DEF RtInv

-----------------------------------------------------------------------------
(* The scheduler's own steps                                               *)

\* A step of the scheduler that leaves the daemons alone, and no pod comes or goes,
\* keeps what is known of them; for a pod that was not given up the step has to leave
\* its place as it is and no request behind.
LEMMA QuietStep ==
  ASSUME RtInv, TypeOK', UNCHANGED <<alive, daemonVars>>, failed \subseteq failed',
         \A n \in Nodes, p \in Pods \ failed' : <<n, p>> \in stray' => <<n, p>> \in stray,
         \A p \in Pods : phase'[p] = "new" <=> phase[p] = "new",
         \A p \in Pods : phase'[p] \in {"granted", "bind"} =>
                           phase[p] \in {"granted", "bind"} /\ node'[p] = node[p],
         \A p \in Pods : bound'[p] # bound[p] =>
                           phase[p] \in {"granted", "bind"} /\ bound'[p] = node[p],
         \A p \in Pods \ failed' :
           Place(p)' = Place(p) /\ (bound'[p] # NoNode => phase'[p] = "done")
  PROVE  RtInv'
<1>1. UNCHANGED <<deletes, held, restarted, excess>>
  BY DEF daemonVars
<1>2. \A p \in Pods : Deleted(p)' <=> Deleted(p)
  BY DEF Deleted
<1>3. DeletesAreDue'
  BY <1>1, <1>2 DEF DeletesAreDue, RtInv
<1>4. \A p \in Pods : Undisturbed(p)' => Undisturbed(p)
  BY <1>2 DEF Undisturbed, Namesakes
<1>5. BoundIsAdmitted'
  <2> SUFFICES ASSUME NEW p \in Pods, Undisturbed(p)'
               PROVE  /\ bound'[p] \in Nodes \ restarted' => held'[bound'[p]][Name[p]] > 0
                      /\ phase'[p] \in {"granted", "bind"} /\ node'[p] \notin restarted'
                           => held'[node'[p]][Name[p]] > 0
    BY DEF BoundIsAdmitted
  <2>1. /\ bound[p] \in Nodes \ restarted => held[bound[p]][Name[p]] > 0
        /\ phase[p] \in {"granted", "bind"} /\ node[p] \notin restarted
             => held[node[p]][Name[p]] > 0
    BY <1>4 DEF RtInv, BoundIsAdmitted
  <2> QED
    BY <1>1, <2>1
<1>6. SecondIsExcess'
  BY <1>1 DEF SecondIsExcess, RtInv
<1>7. HeldUntilDeleted'
  BY <1>1 DEF HeldUntilDeleted, Expected, RtInv
<1>8. OnePlace'
  <2> SUFFICES ASSUME NEW p \in Pods \ failed'
               PROVE  /\ \A n \in Nodes : <<n, p>> \notin stray'
                      /\ bound'[p] # NoNode => phase'[p] = "done"
                      /\ Alone(p)' => \A n \in Nodes \ restarted' :
                                        held'[n][Name[p]] <= IF n = Place(p)' THEN 1 ELSE 0
    BY DEF OnePlace
  <2>1. Alone(p)' => Alone(p)
    BY DEF Alone, Namesakes
  <2>2. /\ \A n \in Nodes : <<n, p>> \notin stray
        /\ Alone(p) => \A n \in Nodes \ restarted :
                         held[n][Name[p]] <= IF n = Place(p) THEN 1 ELSE 0
    BY DEF RtInv, OnePlace
  <2> QED
    BY <1>1, <2>1, <2>2
<1> QED
  BY <1>3, <1>5, <1>6, <1>7, <1>8 DEF RtInv

\* The scheduling goroutine works for pods that have no binding goroutine, and no
\* step of it reaches a daemon.
LEMMA SchedulingStep ==
  ASSUME RtInv, Scheduling \/ \E p \in Pods : Filter(p) \/ Dequeue(p)
  PROVE  RtInv'
<1> USE RtAssumption DEF TypeOK, Phases, IdleCycle, daemonVars
<1>0. TypeOK /\ \A p \in Pods \ failed : bound[p] # NoNode => phase[p] = "done"
  BY DEF RtInv, OnePlace
<1>1. CASE CycleFails
  <2>1. TypeOK'
    BY <1>0, <1>1 DEF CycleFails, Requeue
  <2> QED
    BY <1>0, <1>1, <2>1, QuietStep DEF CycleFails, Requeue, Place
<1>2. ASSUME NEW n \in Nodes, Select(n) PROVE RtInv'
  <2>1. TypeOK'
    BY <1>0, <1>2 DEF Select
  <2> QED
    BY <1>0, <1>2, <2>1, QuietStep DEF Select, Place
<1>3. ASSUME NEW p \in Pods, Filter(p) PROVE RtInv'
  <2>1. TypeOK'
    BY <1>0, <1>3 DEF Filter, PreFilter, Suitable
  <2> QED
    BY <1>0, <1>3, <2>1, QuietStep DEF Filter, PreFilter, Place
<1>4. ASSUME NEW p \in Pods, Dequeue(p) PROVE RtInv'
  <2>1. TypeOK'
    BY <1>0, <1>4 DEF Dequeue
  <2> QED
    BY <1>0, <1>4, <2>1, QuietStep DEF Dequeue, Place
<1> QED
  BY <1>1, <1>2, <1>3, <1>4 DEF Scheduling

-----------------------------------------------------------------------------
(* The binding goroutine                                                   *)

\* What admitting a pod does to the containers of the daemons.
LEMMA AdmitResult ==
  ASSUME TypeOK, NEW n \in Nodes, NEW p \in Pods, Admit(n, p)
  PROVE  /\ held' \in [Nodes -> [Names -> Nat]]
         /\ held'[n][Name[p]] = held[n][Name[p]] + 1
         /\ \A m \in Nodes, a \in Names : m # n \/ a # Name[p] => held'[m][a] = held[m][a]
         /\ excess \subseteq excess' /\ excess' \subseteq Nodes \X Names
         /\ held[n][Name[p]] > 0 \/ ~Expected(n, Name[p]) => <<n, Name[p]>> \in excess'
         /\ UNCHANGED <<deletes, restarted>>
<1>1. held \in [Nodes -> [Names -> Nat]] /\ Name[p] \in Names
  BY NameType DEF TypeOK
<1>2. held' = [held EXCEPT ![n] = [held[n] EXCEPT ![Name[p]] = held[n][Name[p]] + 1]]
  BY DEF Admit
<1>3. held[n][Name[p]] \in Nat
  BY <1>1
<1>4. /\ held' \in [Nodes -> [Names -> Nat]]
      /\ held'[n][Name[p]] = held[n][Name[p]] + 1
      /\ \A m \in Nodes, a \in Names : m # n \/ a # Name[p] => held'[m][a] = held[m][a]
  BY <1>1, <1>2, <1>3
<1>5. excess \subseteq excess' /\ excess' \subseteq Nodes \X Names
  BY <1>1 DEF Admit, TypeOK
<1>6. held[n][Name[p]] > 0 \/ ~Expected(n, Name[p]) => <<n, Name[p]>> \in excess'
  BY <1>3 DEF Admit
<1>7. UNCHANGED <<deletes, restarted>>
  BY DEF Admit
<1> QED
  BY <1>4, <1>5, <1>6, <1>7

\* An admission makes excess what no deletion will free, and takes nothing away.
LEMMA AdmitKeeps ==
  ASSUME RtInv, NEW n \in Nodes, NEW p \in Pods, Admit(n, p), UNCHANGED alive
  PROVE  /\ SecondIsExcess' /\ HeldUntilDeleted'
         /\ \A m \in Nodes, a \in Names : held'[m][a] >= held[m][a]
<1> DEFINE b == Name[p]
<1>1. /\ held' \in [Nodes -> [Names -> Nat]] /\ held \in [Nodes -> [Names -> Nat]]
      /\ held'[n][b] = held[n][b] + 1
      /\ \A m \in Nodes, a \in Names : m # n \/ a # b => held'[m][a] = held[m][a]
      /\ excess \subseteq excess'
      /\ held[n][b] > 0 \/ ~Expected(n, b) => <<n, b>> \in excess'
      /\ UNCHANGED <<deletes, restarted>>
      /\ b \in Names
  BY AdmitResult, NameType DEF RtInv, TypeOK
<1> HIDE DEF b
<1>2. \A m \in Nodes, a \in Names : Expected(m, a)' <=> Expected(m, a)
  BY <1>1 DEF Expected
<1>3. SecondIsExcess'
  <2> SUFFICES ASSUME NEW m \in Nodes \ restarted', NEW a \in Names, held'[m][a] > 1
               PROVE  <<m, a>> \in excess'
    BY DEF SecondIsExcess
  <2>1. CASE m = n /\ a = b
    BY <1>1, <2>1
  <2>2. CASE m # n \/ a # b
    BY <1>1, <2>2 DEF RtInv, SecondIsExcess
  <2> QED
    BY <2>1, <2>2
<1>4. HeldUntilDeleted'
  <2> SUFFICES ASSUME NEW m \in Nodes \ restarted', NEW a \in Names, held'[m][a] > 0
               PROVE  Expected(m, a)' \/ <<m, a>> \in excess'
    BY DEF HeldUntilDeleted
  <2>1. CASE m = n /\ a = b
    BY <1>1, <1>2, <2>1
  <2>2. CASE m # n \/ a # b
    BY <1>1, <1>2, <2>2 DEF RtInv, HeldUntilDeleted
  <2> QED
    BY <2>1, <2>2
<1>5. ASSUME NEW m \in Nodes, NEW a \in Names PROVE held'[m][a] >= held[m][a]
  <2>1. held[m][a] \in Nat
    BY <1>1
  <2> QED
    BY <1>1, <2>1
<1> QED
  BY <1>3, <1>4, <1>5

\* A binding goroutine gets to "granted" only when its daemon has admitted the pod,
\* which then had no container before unless an attempt was given up.
LEMMA PodBindStep == ASSUME RtInv, NEW p \in Pods, PodBind(p) PROVE RtInv'
<1> DEFINE n == node[p]
<1>1. /\ n \in Nodes /\ phase[p] = "prebind" /\ Admit(n, p)
      /\ phase' = [phase EXCEPT ![p] = "granted"]
      /\ UNCHANGED <<node, cycle, iptable, stray, alive, bound, failed>>
  BY DEF PodBind, RtInv, TypeOK
<1>2. /\ held' \in [Nodes -> [Names -> Nat]] /\ held \in [Nodes -> [Names -> Nat]]
      /\ held'[n][Name[p]] = held[n][Name[p]] + 1
      /\ \A m \in Nodes, a \in Names : m # n \/ a # Name[p] => held'[m][a] = held[m][a]
      /\ excess' \subseteq Nodes \X Names
      /\ UNCHANGED <<deletes, restarted>>
  <2>1. TypeOK /\ held \in [Nodes -> [Names -> Nat]]
    BY DEF RtInv, TypeOK
  <2> HIDE DEF n
  <2> QED
    BY <1>1, <2>1, AdmitResult
<1>3. /\ SecondIsExcess' /\ HeldUntilDeleted'
      /\ \A m \in Nodes, a \in Names : held'[m][a] >= held[m][a]
  BY <1>1, AdmitKeeps
<1>4. TypeOK'
  BY <1>1, <1>2 DEF RtInv, TypeOK, Phases
<1>5. /\ \A q \in Pods : phase'[q] = "new" <=> phase[q] = "new"
      /\ \A q \in Pods : Deleted(q)' <=> Deleted(q)
  BY <1>1 DEF RtInv, TypeOK, Deleted
<1>6. DeletesAreDue'
  BY <1>2, <1>5 DEF RtInv, DeletesAreDue
<1>7. BoundIsAdmitted'
  <2> SUFFICES ASSUME NEW q \in Pods, Undisturbed(q)'
               PROVE  /\ bound'[q] \in Nodes \ restarted' => held'[bound'[q]][Name[q]] > 0
                      /\ phase'[q] \in {"granted", "bind"} /\ node'[q] \notin restarted'
                           => held'[node'[q]][Name[q]] > 0
    BY DEF BoundIsAdmitted
  <2>1. Undisturbed(q)
    BY <1>1, <1>5 DEF Undisturbed, Namesakes
  <2>2. /\ bound[q] \in Nodes \ restarted => held[bound[q]][Name[q]] > 0
        /\ phase[q] \in {"granted", "bind"} /\ node[q] \notin restarted
             => held[node[q]][Name[q]] > 0
    BY <2>1 DEF RtInv, BoundIsAdmitted
  <2>3. Name[q] \in Names /\ node[q] \in Nodes \cup {NoNode}
    BY NameType DEF RtInv, TypeOK
  <2>4. bound'[q] \in Nodes \ restarted' => held'[bound'[q]][Name[q]] > 0
    <3> SUFFICES ASSUME bound[q] \in Nodes \ restarted PROVE held'[bound[q]][Name[q]] > 0
      BY <1>1, <1>2
    <3>1. held'[bound[q]][Name[q]] >= held[bound[q]][Name[q]]
      BY <1>3, <2>3
    <3>2. held'[bound[q]][Name[q]] \in Nat /\ held[bound[q]][Name[q]] \in Nat
      BY <1>2, <2>3
    <3> QED
      BY <2>2, <3>1, <3>2
  <2>5. ASSUME phase'[q] \in {"granted", "bind"}, node'[q] \notin restarted'
        PROVE  held'[node'[q]][Name[q]] > 0
    <3>1. CASE q = p
      <4>1. held[n][Name[p]] \in Nat
        BY <1>1, <1>2, NameType
      <4> QED
        BY <1>1, <1>2, <3>1, <4>1
    <3>2. CASE q # p
      <4>1. phase[q] \in {"granted", "bind"} /\ node'[q] = node[q] /\ node[q] \notin restarted
        BY <1>1, <1>2, <2>5, <3>2 DEF RtInv, TypeOK
      <4>2. node[q] \in Nodes
        BY <2>3, <4>1 DEF RtInv, TypeOK
      <4>3. held'[node[q]][Name[q]] >= held[node[q]][Name[q]]
        BY <1>3, <2>3, <4>2
      <4>4. held'[node[q]][Name[q]] \in Nat /\ held[node[q]][Name[q]] \in Nat
        BY <1>2, <2>3, <4>2
      <4> QED
        BY <2>2, <4>1, <4>3, <4>4
    <3> QED
      BY <3>1, <3>2
  <2> QED
    BY <2>4, <2>5
<1>8. OnePlace'
  <2> SUFFICES ASSUME NEW q \in Pods \ failed'
               PROVE  /\ \A m \in Nodes : <<m, q>> \notin stray'
                      /\ bound'[q] # NoNode => phase'[q] = "done"
                      /\ Alone(q)' => \A m \in Nodes \ restarted' :
                                        held'[m][Name[q]] <= IF m = Place(q)' THEN 1 ELSE 0
    BY DEF OnePlace
  <2>1. /\ \A m \in Nodes : <<m, q>> \notin stray
        /\ bound[q] # NoNode => phase[q] = "done"
        /\ Alone(q) => \A m \in Nodes \ restarted :
                         held[m][Name[q]] <= IF m = Place(q) THEN 1 ELSE 0
    BY <1>1 DEF RtInv, OnePlace
  <2>2. bound'[q] # NoNode => phase'[q] = "done"
    BY <1>1, <2>1 DEF RtInv, TypeOK
  <2>3. ASSUME Alone(q)', NEW m \in Nodes \ restarted'
        PROVE  held'[m][Name[q]] <= IF m = Place(q)' THEN 1 ELSE 0
    <3>1. Alone(q)
      BY <1>5, <2>3 DEF Alone, Namesakes
    <3>2. held[m][Name[q]] <= (IF m = Place(q) THEN 1 ELSE 0) /\ held[m][Name[q]] \in Nat
      BY <1>2, <2>1, <2>3, <3>1, NameType
    <3>3. CASE q = p
      <4>1. bound[p] = NoNode /\ Place(p) = NoNode /\ Place(p)' = n
        BY <1>1, <2>1, <3>3 DEF Place, RtInv, TypeOK
      <4>2. held[m][Name[p]] = 0
        BY <3>2, <3>3, <4>1, RtAssumption
      <4> QED
        BY <1>1, <1>2, <3>3, <4>1, <4>2, NameType
    <3>4. CASE q # p
      <4>1. Name[q] # Name[p]
        BY <1>1, <3>1, <3>4 DEF Alone, Namesakes
      <4>2. Place(q)' = Place(q)
        BY <1>1, <3>4 DEF Place, RtInv, TypeOK
      <4> QED
        BY <1>2, <3>2, <4>1, <4>2, NameType
    <3> QED
      BY <3>3, <3>4
  <2> QED
    BY <1>1, <2>1, <2>2, <2>3
<1> QED
  BY <1>3, <1>4, <1>6, <1>7, <1>8 DEF RtInv

\* The other steps of a binding goroutine reach no daemon: a pod keeps its place, is
\* bound to it, or is given up.
LEMMA BindingStep == ASSUME RtInv, NEW p \in Pods, Binding(p) PROVE RtInv'
<1> USE RtAssumption DEF TypeOK, Phases, daemonVars
<1>0. TypeOK /\ \A q \in Pods \ failed : bound[q] # NoNode => phase[q] = "done"
  BY DEF RtInv, OnePlace
<1>1. CASE PodBind(p)
  BY <1>1, PodBindStep
<1>2. CASE PreBindOk(p)
  <2>1. TypeOK'
    BY <1>0, <1>2 DEF PreBindOk
  <2> QED
    BY <1>0, <1>2, <2>1, QuietStep DEF PreBindOk, Place
<1>3. CASE PreBindRefused(p)
  <2>1. TypeOK'
    BY <1>0, <1>3 DEF PreBindRefused, Requeue
  <2> QED
    BY <1>0, <1>3, <2>1, QuietStep DEF PreBindRefused, Requeue, Place
<1>4. CASE PreBindFails(p)
  <2>1. TypeOK'
    BY <1>0, <1>4 DEF PreBindFails, Requeue
  <2> QED
    BY <1>0, <1>4, <2>1, QuietStep DEF PreBindFails, Requeue, Place
<1>5. CASE BindOk(p)
  <2>1. TypeOK'
    BY <1>0, <1>5 DEF BindOk
  <2> QED
    BY <1>0, <1>5, <2>1, QuietStep DEF BindOk, Place
<1>6. CASE BindFails(p)
  <2>1. TypeOK'
    BY <1>0, <1>6 DEF BindFails, Requeue
  <2> QED
    BY <1>0, <1>6, <2>1, QuietStep DEF BindFails, Requeue, Place
<1> QED
  BY <1>1, <1>2, <1>3, <1>4, <1>5, <1>6 DEF Binding

-----------------------------------------------------------------------------
(* The daemons, the API server and restarts                                *)

\* A step outside the scheduler leaves its goroutines and what is bound as they are.
\* The pods it disturbs no more than before are the same, or fewer.
LEMMA OutsideKeeps ==
  ASSUME RtInv, TypeOK', UNCHANGED <<node, bound, failed>>, stray' \subseteq stray,
         \A p \in Pods : phase'[p] = phase[p] \/ (phase[p] = "new" /\ phase'[p] = "pending"),
         restarted \subseteq restarted',
         \A n \in Nodes \ restarted', p \in Pods :
           Undisturbed(p)' =>
             (Undisturbed(p) /\ held'[n][Name[p]] >= held[n][Name[p]]) \/ phase[p] = "new",
         \A n \in Nodes \ restarted', p \in Pods \ failed :
           Alone(p) => held'[n][Name[p]] <= held[n][Name[p]]
  PROVE  BoundIsAdmitted' /\ OnePlace'
<1>0. /\ TypeOK /\ held \in [Nodes -> [Names -> Nat]] /\ held' \in [Nodes -> [Names -> Nat]]
      /\ \A p \in Pods : Name[p] \in Names
  BY NameType DEF RtInv, TypeOK
<1>1. ASSUME NEW p \in Pods, Undisturbed(p)'
      PROVE  /\ bound'[p] \in Nodes \ restarted' => held'[bound'[p]][Name[p]] > 0
             /\ phase'[p] \in {"granted", "bind"} /\ node'[p] \notin restarted'
                  => held'[node'[p]][Name[p]] > 0
  <2>1. CASE phase[p] = "new"
    <3>1. phase'[p] \in {"new", "pending"}
      BY <2>1
    <3>2. bound[p] = NoNode
      BY <1>0, <2>1 DEF RtInv, OnePlace, TypeOK
    <3> QED
      BY <3>1, <3>2, RtAssumption
  <2>2. CASE phase[p] # "new"
    <3>1. phase'[p] = phase[p]
      BY <2>2
    <3>2. ASSUME NEW n \in Nodes \ restarted'
          PROVE  Undisturbed(p) /\ (held[n][Name[p]] > 0 => held'[n][Name[p]] > 0)
      <4>1. Undisturbed(p) /\ held'[n][Name[p]] >= held[n][Name[p]]
        BY <1>1, <2>2, <3>2
      <4>2. held'[n][Name[p]] \in Nat /\ held[n][Name[p]] \in Nat
        BY <1>0
      <4> QED
        BY <4>1, <4>2
    <3>3. bound'[p] \in Nodes \ restarted' => held'[bound'[p]][Name[p]] > 0
      BY <3>2 DEF RtInv, BoundIsAdmitted
    <3>4. phase'[p] \in {"granted", "bind"} => node[p] \in Nodes
      BY <1>0, <3>1 DEF TypeOK
    <3>5. phase'[p] \in {"granted", "bind"} /\ node'[p] \notin restarted'
            => held'[node'[p]][Name[p]] > 0
      BY <3>1, <3>2, <3>4 DEF RtInv, BoundIsAdmitted
    <3> QED
      BY <3>3, <3>5
  <2> QED
    BY <2>1, <2>2
<1>2. ASSUME NEW p \in Pods \ failed'
      PROVE  /\ \A n \in Nodes : <<n, p>> \notin stray'
             /\ bound'[p] # NoNode => phase'[p] = "done"
             /\ Alone(p)' => \A n \in Nodes \ restarted' :
                               held'[n][Name[p]] <= IF n = Place(p)' THEN 1 ELSE 0
  <2>1. /\ \A n \in Nodes : <<n, p>> \notin stray
        /\ bound[p] # NoNode => phase[p] = "done"
        /\ Alone(p) => \A n \in Nodes \ restarted :
                         held[n][Name[p]] <= IF n = Place(p) THEN 1 ELSE 0
    BY DEF RtInv, OnePlace
  <2>2. Place(p)' = Place(p) /\ (bound'[p] # NoNode => phase'[p] = "done")
    BY <2>1 DEF Place
  <2>3. ASSUME Alone(p)', NEW n \in Nodes \ restarted'
        PROVE  held'[n][Name[p]] <= IF n = Place(p)' THEN 1 ELSE 0
    <3>1. Alone(p)
      BY <2>3 DEF Alone, Namesakes
    <3>2. /\ held'[n][Name[p]] <= held[n][Name[p]]
          /\ held[n][Name[p]] <= IF n = Place(p) THEN 1 ELSE 0
      BY <2>1, <2>3, <3>1
    <3>3. held'[n][Name[p]] \in Nat /\ held[n][Name[p]] \in Nat
      BY <1>0
    <3> QED
      BY <2>2, <3>2, <3>3
  <2> QED
    BY <2>1, <2>2, <2>3
<1> QED
  BY <1>1, <1>2 DEF BoundIsAdmitted, OnePlace

\* A request that is served late is of a pod that was given up.
LEMMA PodBindLateStep ==
  ASSUME RtInv, NEW n \in Nodes, NEW p \in Pods, PodBindLate(n, p)
  PROVE  RtInv'
<1>1. /\ <<n, p>> \in stray /\ stray' \subseteq stray
      /\ UNCHANGED <<phase, node, cycle, iptable, alive, bound, failed>>
  BY DEF PodBindLate
<1>2. TypeOK /\ p \in failed /\ phase[p] # "new"
  BY <1>1 DEF RtInv, TypeOK, OnePlace
<1>3. CASE UNCHANGED daemonVars
  <2>1. TypeOK'
    BY <1>1, <1>2, <1>3 DEF TypeOK, daemonVars
  <2> QED
    BY <1>1, <1>2, <1>3, <2>1, QuietStep DEF Place, RtInv, OnePlace
<1>4. CASE Admit(n, p)
  <2>1. /\ held' \in [Nodes -> [Names -> Nat]] /\ held \in [Nodes -> [Names -> Nat]]
        /\ \A m \in Nodes, a \in Names : m # n \/ a # Name[p] => held'[m][a] = held[m][a]
        /\ excess' \subseteq Nodes \X Names
        /\ UNCHANGED <<deletes, restarted>>
    <3>1. held \in [Nodes -> [Names -> Nat]]
      BY <1>2 DEF TypeOK
    <3> QED
      BY <1>2, <1>4, <3>1, AdmitResult
  <2>2. /\ SecondIsExcess' /\ HeldUntilDeleted'
        /\ \A m \in Nodes, a \in Names : held'[m][a] >= held[m][a]
    BY <1>1, <1>4, AdmitKeeps
  <2>3. TypeOK'
    BY <1>1, <1>2, <2>1 DEF TypeOK
  <2>4. DeletesAreDue'
    BY <1>1, <2>1 DEF RtInv, DeletesAreDue, Deleted
  <2>5. \A q \in Pods : Undisturbed(q)' <=> Undisturbed(q)
    BY <1>1 DEF Undisturbed, Namesakes, Deleted
  <2>6. ASSUME NEW m \in Nodes \ restarted', NEW q \in Pods \ failed, Alone(q)
        PROVE  held'[m][Name[q]] <= held[m][Name[q]]
    <3>1. Name[q] # Name[p]
      BY <1>2, <2>6 DEF Alone, Namesakes
    <3>2. held'[m][Name[q]] = held[m][Name[q]] /\ held[m][Name[q]] \in Nat
      BY <2>1, <3>1, NameType
    <3> QED
      BY <3>2
  <2>7. \A m \in Nodes \ restarted', q \in Pods : Undisturbed(q)' =>
          (Undisturbed(q) /\ held'[m][Name[q]] >= held[m][Name[q]]) \/ phase[q] = "new"
    BY <2>2, <2>5, NameType
  <2>8. BoundIsAdmitted' /\ OnePlace'
    <3>1. \A m \in Nodes \ restarted', q \in Pods \ failed :
            Alone(q) => held'[m][Name[q]] <= held[m][Name[q]]
      BY <2>6
    <3>2. /\ UNCHANGED <<node, bound, failed>> /\ restarted \subseteq restarted'
          /\ \A q \in Pods : phase'[q] = phase[q] \/ (phase[q] = "new" /\ phase'[q] = "pending")
      BY <1>1, <2>1
    <3> QED
      BY <1>1, <2>3, <2>7, <3>1, <3>2, OutsideKeeps
  <2> QED
    BY <2>2, <2>3, <2>4, <2>8 DEF RtInv
<1> QED
  BY <1>3, <1>4 DEF PodBindLate

\* What a deletion does to the containers of its daemon.
LEMMA PodDeleteResult ==
  ASSUME TypeOK, NEW n \in Nodes, NEW p \in Pods, PodDelete(n, p)
  PROVE  /\ held' \in [Nodes -> [Names -> Nat]]
         /\ held'[n][Name[p]] <= held[n][Name[p]]
         /\ held'[n][Name[p]] > 0 => held[n][Name[p]] > 1 /\ excess' = excess
         /\ \A m \in Nodes, a \in Names : m # n \/ a # Name[p] =>
              held'[m][a] = held[m][a] /\ (<<m, a>> \in excess' <=> <<m, a>> \in excess)
         /\ excess' \subseteq excess
<1>1. held \in [Nodes -> [Names -> Nat]] /\ Name[p] \in Names /\ held[n][Name[p]] \in Nat
  BY NameType DEF TypeOK
<1>2. PICK left \in 0 .. held[n][Name[p]] \div 2 :
        /\ held' = [held EXCEPT ![n] = [held[n] EXCEPT ![Name[p]] = left]]
        /\ excess' = IF left = 0 THEN excess \ {<<n, Name[p]>>} ELSE excess
  BY DEF PodDelete
<1> DEFINE k == held[n][Name[p]]
<1>3. left \in Nat /\ left <= k /\ (left > 0 => k > 1)
  <2>1. k \in Nat /\ left \in 0 .. k \div 2
    BY <1>1, <1>2
  <2> HIDE DEF k
  <2> QED
    BY <2>1
<1>4. /\ held' \in [Nodes -> [Names -> Nat]]
      /\ held'[n][Name[p]] = left
      /\ \A m \in Nodes, a \in Names : m # n \/ a # Name[p] => held'[m][a] = held[m][a]
  BY <1>1, <1>2, <1>3
<1>5. \A m \in Nodes, a \in Names : m # n \/ a # Name[p] =>
        (<<m, a>> \in excess' <=> <<m, a>> \in excess)
  BY <1>2
<1> QED
  BY <1>2, <1>3, <1>4, <1>5

\* A deletion is of a pod that is gone; what it leaves was admitted in excess.
LEMMA PodDeleteStep ==
  ASSUME RtInv, NEW n \in Nodes, NEW p \in Pods, PodDelete(n, p)
  PROVE  RtInv'
<1> DEFINE b == Name[p]
<1>1. /\ <<n, p>> \in deletes /\ deletes' = deletes \ {<<n, p>>}
      /\ UNCHANGED <<phase, node, cycle, iptable, stray, alive, bound, failed, restarted>>
  BY DEF PodDelete
<1>2. /\ held' \in [Nodes -> [Names -> Nat]]
      /\ held'[n][b] <= held[n][b]
      /\ held'[n][b] > 0 => held[n][b] > 1 /\ excess' = excess
      /\ \A m \in Nodes, a \in Names : m # n \/ a # b =>
           held'[m][a] = held[m][a] /\ (<<m, a>> \in excess' <=> <<m, a>> \in excess)
      /\ excess' \subseteq excess
  BY PodDeleteResult DEF RtInv
<1>3. TypeOK /\ held \in [Nodes -> [Names -> Nat]] /\ b \in Names /\ Deleted(p)
  BY <1>1, NameType DEF RtInv, TypeOK, DeletesAreDue
<1> HIDE DEF b
<1>4. TypeOK'
  BY <1>1, <1>2, <1>3 DEF TypeOK
<1>5. DeletesAreDue'
  BY <1>1 DEF RtInv, DeletesAreDue, Deleted
<1>6. SecondIsExcess'
  <2> SUFFICES ASSUME NEW m \in Nodes \ restarted', NEW a \in Names, held'[m][a] > 1
               PROVE  <<m, a>> \in excess'
    BY DEF SecondIsExcess
  <2>1. CASE m = n /\ a = b
    <3>1. held[n][b] > 1 /\ excess' = excess
      BY <1>2, <1>3, <2>1
    <3> QED
      BY <1>1, <2>1, <3>1 DEF RtInv, SecondIsExcess
  <2>2. CASE m # n \/ a # b
    BY <1>1, <1>2, <2>2 DEF RtInv, SecondIsExcess
  <2> QED
    BY <2>1, <2>2
<1>7. HeldUntilDeleted'
  <2> SUFFICES ASSUME NEW m \in Nodes \ restarted', NEW a \in Names, held'[m][a] > 0
               PROVE  Expected(m, a)' \/ <<m, a>> \in excess'
    BY DEF HeldUntilDeleted
  <2>1. CASE m = n /\ a = b
    BY <1>1, <1>2, <2>1 DEF RtInv, SecondIsExcess
  <2>2. CASE m # n \/ a # b
    <3>1. Expected(m, a) \/ <<m, a>> \in excess
      BY <1>1, <1>2, <2>2 DEF RtInv, HeldUntilDeleted
    <3>2. Expected(m, a) => Expected(m, a)'
      BY <1>1, <2>2 DEF Expected, b
    <3> QED
      BY <1>2, <2>2, <3>1, <3>2
  <2> QED
    BY <2>1, <2>2
<1>8. ASSUME NEW m \in Nodes, NEW q \in Pods, Undisturbed(q)'
      PROVE  held'[m][Name[q]] >= held[m][Name[q]] /\ Undisturbed(q)
  <2>1. Undisturbed(q)
    BY <1>1, <1>8 DEF Undisturbed, Namesakes, Deleted
  <2>2. Name[q] # b
    BY <1>3, <2>1 DEF Undisturbed, Namesakes, b
  <2>3. held'[m][Name[q]] = held[m][Name[q]] /\ held[m][Name[q]] \in Nat
    BY <1>2, <1>3, <2>2, NameType
  <2> QED
    BY <2>1, <2>3
<1>9. ASSUME NEW m \in Nodes, NEW q \in Pods PROVE held'[m][Name[q]] <= held[m][Name[q]]
  <2>1. held'[m][Name[q]] \in Nat /\ held[m][Name[q]] \in Nat /\ Name[q] \in Names
    BY <1>2, <1>3, NameType
  <2>2. CASE m = n /\ Name[q] = b
    BY <1>2, <2>2
  <2>3. CASE m # n \/ Name[q] # b
    <3>1. held'[m][Name[q]] = held[m][Name[q]]
      BY <1>2, <2>1, <2>3
    <3> QED
      BY <2>1, <3>1
  <2> QED
    BY <2>2, <2>3
<1>10. BoundIsAdmitted' /\ OnePlace'
  <2>1. \A m \in Nodes \ restarted', q \in Pods : Undisturbed(q)' =>
          (Undisturbed(q) /\ held'[m][Name[q]] >= held[m][Name[q]]) \/ phase[q] = "new"
    BY <1>8
  <2>2. \A m \in Nodes \ restarted', q \in Pods \ failed :
          Alone(q) => held'[m][Name[q]] <= held[m][Name[q]]
    BY <1>9
  <2>3. /\ UNCHANGED <<node, bound, failed>> /\ restarted \subseteq restarted'
        /\ stray' \subseteq stray
        /\ \A q \in Pods : phase'[q] = phase[q] \/ (phase[q] = "new" /\ phase'[q] = "pending")
    BY <1>1
  <2> QED
    BY <1>4, <2>1, <2>2, <2>3, OutsideKeeps
<1> QED
  BY <1>4, <1>5, <1>6, <1>7, <1>10 DEF RtInv

\* A daemon that restarts may hold anything, and is excepted from then on.
LEMMA DaemonRestartStep == ASSUME RtInv, NEW n \in Nodes, DaemonRestart(n) PROVE RtInv'
<1>1. /\ deletes' = deletes \ ({n} \X Pods) /\ restarted' = restarted \cup {n}
      /\ excess' = excess \ ({n} \X Names)
      /\ UNCHANGED <<phase, node, cycle, iptable, stray, alive, bound, failed>>
  BY DEF DaemonRestart
<1>2. PICK read \in Lists : held' = [held EXCEPT ![n] = read]
  BY DEF DaemonRestart
<1>3. TypeOK /\ held \in [Nodes -> [Names -> Nat]] /\ read \in [Names -> Nat]
  BY RtAssumption DEF RtInv, TypeOK
<1>4. held' \in [Nodes -> [Names -> Nat]] /\ \A m \in Nodes \ {n} : held'[m] = held[m]
  BY <1>2, <1>3
<1>5. TypeOK'
  BY <1>1, <1>3, <1>4 DEF TypeOK
<1>6. DeletesAreDue'
  BY <1>1 DEF RtInv, DeletesAreDue, Deleted
<1>7. SecondIsExcess'
  BY <1>1, <1>4 DEF RtInv, SecondIsExcess
<1>8. HeldUntilDeleted'
  <2> SUFFICES ASSUME NEW m \in Nodes \ restarted', NEW a \in Names, held'[m][a] > 0
               PROVE  Expected(m, a)' \/ <<m, a>> \in excess'
    BY DEF HeldUntilDeleted
  <2>1. Expected(m, a) \/ <<m, a>> \in excess
    BY <1>1, <1>4 DEF RtInv, HeldUntilDeleted
  <2> QED
    BY <1>1, <2>1 DEF Expected
<1>9. \A m \in Nodes \ restarted', q \in Pods :
        held'[m][Name[q]] = held[m][Name[q]] /\ held[m][Name[q]] \in Nat
  BY <1>1, <1>3, <1>4, NameType
<1>10. \A q \in Pods : Undisturbed(q)' <=> Undisturbed(q)
  BY <1>1 DEF Undisturbed, Namesakes, Deleted
<1>11. \A m \in Nodes \ restarted', q \in Pods :
         held'[m][Name[q]] >= held[m][Name[q]] /\ held'[m][Name[q]] <= held[m][Name[q]]
  <2> TAKE m \in Nodes \ restarted', q \in Pods
  <2>1. held'[m][Name[q]] = held[m][Name[q]] /\ held[m][Name[q]] \in Nat
    BY <1>9
  <2> QED
    BY <2>1
<1>12. BoundIsAdmitted' /\ OnePlace'
  <2>1. \A m \in Nodes \ restarted', q \in Pods : Undisturbed(q)' =>
          (Undisturbed(q) /\ held'[m][Name[q]] >= held[m][Name[q]]) \/ phase[q] = "new"
    BY <1>10, <1>11
  <2>2. \A m \in Nodes \ restarted', q \in Pods \ failed :
          Alone(q) => held'[m][Name[q]] <= held[m][Name[q]]
    BY <1>11
  <2>3. /\ UNCHANGED <<node, bound, failed>> /\ restarted \subseteq restarted'
        /\ stray' \subseteq stray
        /\ \A q \in Pods : phase'[q] = phase[q] \/ (phase[q] = "new" /\ phase'[q] = "pending")
    BY <1>1
  <2> QED
    BY <1>5, <2>1, <2>2, <2>3, OutsideKeeps
<1> QED
  BY <1>5, <1>6, <1>7, <1>8, <1>12 DEF RtInv

\* Pods that come and go change no container.
LEMMA PodsStep == ASSUME RtInv, NEW p \in Pods, Create(p) \/ Delete(p) PROVE RtInv'
<1>0. TypeOK /\ held \in [Nodes -> [Names -> Nat]]
  BY DEF RtInv, TypeOK
<1>1. /\ UNCHANGED <<node, cycle, iptable, stray, bound, failed, held, restarted, excess>>
      /\ deletes \subseteq deletes'
      /\ \A q \in Pods : phase'[q] = phase[q] \/ (phase[q] = "new" /\ phase'[q] = "pending")
      /\ \A q \in Pods : Deleted(q) => Deleted(q)'
      /\ \A q \in Pods : q \in alive' => q \in alive \/ phase[q] = "new"
  <2>1. CASE Create(p)
    BY <1>0, <2>1 DEF Create, Deleted, TypeOK, daemonVars
  <2>2. CASE Delete(p)
    BY <1>0, <2>2 DEF Delete, Deleted, TypeOK
  <2> QED
    BY <2>1, <2>2
<1>2. TypeOK'
  <2>1. CASE Create(p)
    BY <1>0, <2>1 DEF Create, TypeOK, Phases, daemonVars
  <2>2. CASE Delete(p)
    BY <1>0, <2>2 DEF Delete, TypeOK
  <2> QED
    BY <2>1, <2>2
<1>3. DeletesAreDue'
  <2>1. CASE Create(p)
    BY <1>0, <1>1, <2>1 DEF Create, RtInv, DeletesAreDue, daemonVars
  <2>2. CASE Delete(p)
    BY <1>0, <1>1, <2>2 DEF Delete, RtInv, DeletesAreDue, Deleted, TypeOK
  <2> QED
    BY <2>1, <2>2
<1>4. SecondIsExcess'
  BY <1>1 DEF RtInv, SecondIsExcess
<1>5. HeldUntilDeleted'
  <2> SUFFICES ASSUME NEW m \in Nodes \ restarted, NEW a \in Names, held[m][a] > 0
               PROVE  Expected(m, a)' \/ <<m, a>> \in excess
    BY <1>1 DEF HeldUntilDeleted
  <2>1. Expected(m, a) \/ <<m, a>> \in excess
    BY DEF RtInv, HeldUntilDeleted
  <2>2. \A q \in alive : q \in alive' \/ <<m, q>> \in deletes'
    BY DEF Create, Delete
  <2> QED
    BY <1>0, <1>1, <2>1, <2>2 DEF Expected
<1>6. \A q \in Pods : Undisturbed(q)' => Undisturbed(q) \/ phase[q] = "new"
  BY <1>1 DEF Undisturbed, Namesakes
<1>7. \A m \in Nodes, q \in Pods :
        held'[m][Name[q]] >= held[m][Name[q]] /\ held'[m][Name[q]] <= held[m][Name[q]]
  <2> TAKE m \in Nodes, q \in Pods
  <2>1. held'[m][Name[q]] = held[m][Name[q]] /\ held[m][Name[q]] \in Nat
    BY <1>0, <1>1, NameType
  <2> QED
    BY <2>1
<1>8. BoundIsAdmitted' /\ OnePlace'
  BY <1>1, <1>2, <1>6, <1>7, OutsideKeeps
<1> QED
  BY <1>2, <1>3, <1>4, <1>5, <1>8 DEF RtInv

\* The scheduler gives up what it was working on.
LEMMA SchedulerRestartStep == ASSUME RtInv, SchedulerRestart PROVE RtInv'
<1>0. TypeOK /\ \A q \in Pods \ failed : bound[q] # NoNode => phase[q] = "done"
  BY DEF RtInv, OnePlace
<1>1. TypeOK'
  BY <1>0, RtAssumption DEF SchedulerRestart, TypeOK, Phases, IdleCycle, daemonVars
<1>2. /\ UNCHANGED <<alive, bound, daemonVars>> /\ failed \subseteq failed'
      /\ \A p \in Pods : phase'[p] = "new" <=> phase[p] = "new"
      /\ \A p \in Pods : phase'[p] \in {"new", "pending", "done"}
      /\ \A p \in Pods \ failed' : phase[p] \notin {"prebind", "granted", "bind"}
      /\ \A p \in Pods : bound[p] # NoNode /\ phase[p] # "new" => phase'[p] = "done"
  BY DEF SchedulerRestart
<1>3. \A n \in Nodes, p \in Pods \ failed' : <<n, p>> \in stray' => <<n, p>> \in stray
  BY <1>2 DEF SchedulerRestart
<1>4. \A p \in Pods \ failed' :
        Place(p)' = Place(p) /\ (bound'[p] # NoNode => phase'[p] = "done")
  BY <1>0, <1>2 DEF Place
<1> QED
  BY <1>1, <1>2, <1>3, <1>4, QuietStep

-----------------------------------------------------------------------------
(* The theorems                                                            *)

\* RtInv is an inductive invariant: what the calls of Rtschedulability, lost or late,
\* and the deletions that reach the daemons do to the containers of each name.
THEOREM RtInvariant == Spec => []RtInv
<1>1. Init => RtInv
  BY InitRtInv
<1>2. RtInv /\ [Next]_vars => RtInv'
  <2> SUFFICES ASSUME RtInv, [Next]_vars PROVE RtInv'
    OBVIOUS
  <2>1. CASE UNCHANGED vars
    <3>1. TypeOK'
      BY <2>1 DEF vars, daemonVars, RtInv, TypeOK
    <3> QED
      BY <2>1, <3>1, QuietStep DEF vars, Place, RtInv, OnePlace
  <2>2. CASE Next
    BY <2>2, SchedulingStep, BindingStep, PodBindLateStep, PodDeleteStep,
       DaemonRestartStep, PodsStep, SchedulerRestartStep DEF Next
  <2> QED
    BY <2>1, <2>2
<1> QED
  BY <1>1, <1>2, PTL DEF Spec

\* A pod that PreBind was granted for, or that is bound, has a container in the daemon
\* of its node.
THEOREM BoundPodsAreAdmitted == Spec => []BoundIsAdmitted
<1>1. RtInv => BoundIsAdmitted
  BY DEF RtInv
<1> QED
  BY <1>1, RtInvariant, PTL

\* A daemon that has not restarted holds containers of a name without a pod only until
\* it hears of the deletion, unless it served a request after that or a second one of
\* the name before.
THEOREM BandsAreFreed == Spec => []HeldUntilDeleted
<1>1. RtInv => HeldUntilDeleted
  BY DEF RtInv
<1> QED
  BY <1>1, RtInvariant, PTL

\* Without an attempt that was given up, a pod has one container in all daemons.
THEOREM HeldOnceWithoutFailure == Spec => []HeldOnce
<1>1. RtInv => HeldOnce
  <2> SUFFICES ASSUME RtInv, NEW p \in Pods \ failed, Alone(p),
                      NEW m \in Nodes \ restarted, NEW n \in Nodes \ restarted
               PROVE  /\ held[n][Name[p]] <= 1
                      /\ held[m][Name[p]] > 0 /\ held[n][Name[p]] > 0 => m = n
    BY DEF HeldOnce
  <2>1. /\ held[m][Name[p]] <= IF m = Place(p) THEN 1 ELSE 0
        /\ held[n][Name[p]] <= IF n = Place(p) THEN 1 ELSE 0
    BY DEF RtInv, OnePlace
  <2>2. held[m][Name[p]] \in Nat /\ held[n][Name[p]] \in Nat
    BY NameType DEF RtInv, TypeOK
  <2> QED
    BY <2>1, <2>2
<1> QED
  BY <1>1, RtInvariant, PTL

\* No step takes a container away from a pod that exists.
THEOREM AdmissionsSurvive == Spec => AdmissionSurvives
<1> DEFINE Survives ==
      \A n \in Nodes, p \in Pods :
        Undisturbed(p) /\ held'[n][Name[p]] < held[n][Name[p]] => n \in restarted'
<1>1. RtInv /\ [Next]_vars => [Survives]_vars
  <2> SUFFICES ASSUME RtInv, Next PROVE Survives
    BY DEF vars
  <2>0. /\ TypeOK /\ held \in [Nodes -> [Names -> Nat]]
        /\ \A p \in Pods, n \in Nodes : held[n][Name[p]] \in Nat
    BY NameType DEF RtInv, TypeOK
  <2>1. CASE UNCHANGED held
    BY <2>0, <2>1
  <2>2. ASSUME NEW n \in Nodes, NEW p \in Pods, Admit(n, p), UNCHANGED alive PROVE Survives
    <3>1. \A m \in Nodes, a \in Names : held'[m][a] >= held[m][a]
      BY <2>2, AdmitKeeps
    <3>2. held' \in [Nodes -> [Names -> Nat]]
      BY <2>0, <2>2, AdmitResult
    <3> SUFFICES ASSUME NEW m \in Nodes, NEW q \in Pods
                 PROVE  ~(held'[m][Name[q]] < held[m][Name[q]])
      OBVIOUS
    <3>3. /\ held'[m][Name[q]] >= held[m][Name[q]]
          /\ held'[m][Name[q]] \in Nat /\ held[m][Name[q]] \in Nat
      BY <2>0, <3>1, <3>2, NameType
    <3> QED
      BY <3>3
  <2>3. ASSUME NEW p \in Pods, NEW n \in Nodes, PodDelete(n, p) PROVE Survives
    <3>1. \A m \in Nodes, a \in Names : m # n \/ a # Name[p] => held'[m][a] = held[m][a]
      BY <2>0, <2>3, PodDeleteResult
    <3>2. Deleted(p)
      BY <2>3 DEF PodDelete, RtInv, DeletesAreDue
    <3> SUFFICES ASSUME NEW m \in Nodes, NEW q \in Pods, Undisturbed(q)
                 PROVE  ~(held'[m][Name[q]] < held[m][Name[q]])
      OBVIOUS
    <3>3. Name[q] # Name[p]
      BY <3>2 DEF Undisturbed, Namesakes
    <3>4. held'[m][Name[q]] = held[m][Name[q]] /\ held[m][Name[q]] \in Nat
      BY <2>0, <3>1, <3>3, NameType
    <3> QED
      BY <3>4
  <2>4. ASSUME NEW n \in Nodes, DaemonRestart(n) PROVE Survives
    <3>1. /\ n \in restarted'
          /\ \A m \in Nodes \ {n} : held'[m] = held[m]
      BY <2>0, <2>4 DEF DaemonRestart
    <3> QED
      BY <2>0, <3>1
  <2>5. ASSUME NEW p \in Pods, PodBind(p) PROVE Survives
    <3>1. node[p] \in Nodes /\ Admit(node[p], p) /\ UNCHANGED alive
      BY <2>0, <2>5 DEF PodBind, TypeOK
    <3> QED
      BY <2>2, <3>1
  <2>6. ASSUME NEW p \in Pods, NEW n \in Nodes, PodBindLate(n, p) PROVE Survives
    BY <2>1, <2>2, <2>6 DEF PodBindLate, daemonVars
  <2> QED
    BY <2>1, <2>3, <2>4, <2>5, <2>6
       DEF Next, Scheduling, CycleFails, Filter, Select, SchedulerRestart, Dequeue,
           Binding, PreBindOk, PreBindRefused, PreBindFails, BindOk, BindFails, Delete,
           Create, daemonVars
<1> QED
  BY <1>1, RtInvariant, PTL DEF Spec, AdmissionSurvives

=============================================================================
