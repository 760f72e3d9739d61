-------------------------- MODULE ResultStoreProofs --------------------------
(***************************************************************************)
(* StoreInv is an invariant of ResultStore, and from it: no nil result,    *)
(* nothing but late results is lost, and no binding is taken back.         *)
(***************************************************************************)
EXTENDS ResultStore, TLAPS

-----------------------------------------------------------------------------
(* Operators                                                               *)

\* newData returns three maps without entries.
LEMMA EmptyMap == NoMap \in Maps /\ DOMAIN NoMap = {} /\ newData \in Data
<1>1. NoMap \in [{} -> Nat]
  BY DEF NoMap
<1> QED BY <1>1 DEF Maps, Data, newData, NoMap

\* A result that is set is the current cycle, and the others are as they were.
IsWith(w, p) ==
  /\ DOMAIN w = DOMAIN results \cup {p}
  /\ w \in UNION {[P -> Data] : P \in SUBSET Pods}
  /\ \A q \in DOMAIN results \ {p} : w[q] = results[q]
  /\ \A kind \in Kinds :
       p \in DOMAIN results => DOMAIN results[p][kind] \subseteq DOMAIN w[p][kind]
  /\ \A kind \in Kinds : \A x \in DOMAIN w[p][kind] :
       \/ w[p][kind][x] = cycle[p]
       \/ /\ p \in DOMAIN results
          /\ x \in DOMAIN results[p][kind]
          /\ w[p][kind][x] = results[p][kind][x]

\* An adder writes the entry of the current cycle and leaves all other results alone.
LEMMA WithType ==
  ASSUME TypeOK, NEW p \in Pods, NEW kinds \in SUBSET Kinds, NEW e \in Entries
  PROVE  IsWith(With(p, kinds, e), p)
<1> DEFINE old == IF p \in DOMAIN results THEN results[p] ELSE newData
           Upd(m) == Assign(m, e, cycle[p])
           new == [kind \in Kinds |-> IF kind \in kinds THEN Upd(old[kind]) ELSE old[kind]]
<1>1. results \in [DOMAIN results -> Data] /\ DOMAIN results \subseteq Pods
  BY DEF TypeOK
<1>2. old \in Data
  BY <1>1, EmptyMap
<1>3. ASSUME NEW m \in Maps
      PROVE  /\ Upd(m) \in Maps
             /\ DOMAIN Upd(m) = DOMAIN m \cup {e}
             /\ \A x \in DOMAIN Upd(m) : Upd(m)[x] = IF x = e THEN cycle[p] ELSE m[x]
  <2>1. PICK E \in SUBSET Entries : m \in [E -> Nat]
    BY DEF Maps
  <2>2. Upd(m) = [x \in E \cup {e} |-> IF x = e THEN cycle[p] ELSE m[x]]
    BY <2>1 DEF Assign
  <2>3. cycle[p] \in Nat
    BY DEF TypeOK
  <2>4. Upd(m) \in [E \cup {e} -> Nat]
    BY <2>1, <2>2, <2>3
  <2> QED BY <2>1, <2>2, <2>4 DEF Maps
<1>4. new \in Data
  BY <1>2, <1>3 DEF Data
<1>5. With(p, kinds, e) = [q \in DOMAIN results \cup {p} |-> IF q = p THEN new ELSE results[q]]
  BY <1>1 DEF With, Assign
<1>6. With(p, kinds, e) \in [DOMAIN results \cup {p} -> Data]
  BY <1>1, <1>4, <1>5
<1>7. ASSUME NEW kind \in Kinds, p \in DOMAIN results
      PROVE  DOMAIN results[p][kind] \subseteq DOMAIN With(p, kinds, e)[p][kind]
  <2>1. With(p, kinds, e)[p][kind] \in {Upd(old[kind]), old[kind]} /\ old[kind] = results[p][kind]
    BY <1>5, <1>7
  <2> QED BY <2>1, <1>2, <1>3 DEF Data
<1>8. ASSUME NEW kind \in Kinds, NEW x \in DOMAIN With(p, kinds, e)[p][kind]
      PROVE  \/ With(p, kinds, e)[p][kind][x] = cycle[p]
             \/ /\ p \in DOMAIN results
                /\ x \in DOMAIN results[p][kind]
                /\ With(p, kinds, e)[p][kind][x] = results[p][kind][x]
  <2>1. With(p, kinds, e)[p][kind] \in {Upd(old[kind]), old[kind]} /\ old[kind] \in Maps
    BY <1>2, <1>5 DEF Data
  <2>2. x \in DOMAIN old[kind] => p \in DOMAIN results /\ x \in DOMAIN results[p][kind]
    BY EmptyMap DEF newData
  <2>3. x \in DOMAIN old[kind] => old[kind] = results[p][kind]
    BY <2>2
  <2>4. CASE With(p, kinds, e)[p][kind] = old[kind]
    BY <2>2, <2>3, <2>4
  <2>5. CASE With(p, kinds, e)[p][kind] = Upd(old[kind])
    <3> HIDE DEF old, Upd
    <3>1. /\ DOMAIN Upd(old[kind]) = DOMAIN old[kind] \cup {e}
          /\ \A y \in DOMAIN Upd(old[kind]) :
               Upd(old[kind])[y] = IF y = e THEN cycle[p] ELSE old[kind][y]
      BY <2>1, <1>3
    <3> QED BY <3>1, <2>2, <2>3, <2>5
  <2> QED BY <2>1, <2>4, <2>5
<1> QED BY <1>1, <1>5, <1>6, <1>7, <1>8 DEF IsWith

\* A stored object has a version that no event and no copy has.
LEMMA StoreKeeps ==
  ASSUME TypeOK, PastObjects, NEW p \in Pods, NEW o \in Object, Store(p, o),
         handler'.pc # "idle" =>
           /\ handler.pc # "idle"
           /\ handler'.pod = handler.pod
           /\ handler'.object = handler.object
  PROVE  /\ PastObjects'
         /\ pods' \in [Pods -> Object]
         /\ events' \in Seq(Event)
         /\ pods'[p].annotations = o.annotations
         /\ pods'[p].state = o.state
         /\ \A q \in Pods \ {p} : pods'[q] = pods[q]
<1> DEFINE new == [o EXCEPT !.version = pods[p].version + 1]
<1>0. pods[p].version \in Nat
  BY DEF TypeOK, Object
<1>1. new \in Object /\ new.version = pods[p].version + 1 /\ new.state = o.state
        /\ new.annotations = o.annotations
  BY <1>0 DEF Object
<1>2. pods' = [pods EXCEPT ![p] = new] /\ events' = Append(events, [pod |-> p, object |-> new])
  BY DEF Store
<1> HIDE DEF new
<1>3. pods' \in [Pods -> Object] /\ pods'[p] = new /\ \A q \in Pods \ {p} : pods'[q] = pods[q]
  BY <1>1, <1>2 DEF TypeOK
<1>4. [pod |-> p, object |-> new] \in Event
  BY <1>1 DEF Event
<1>5. /\ events' \in Seq(Event)
      /\ DOMAIN events' = DOMAIN events \cup {Len(events) + 1}
      /\ \A i \in DOMAIN events : events'[i] = events[i]
      /\ events'[Len(events) + 1] = [pod |-> p, object |-> new]
  BY <1>2, <1>4 DEF TypeOK
<1>6. ASSUME NEW q \in Pods, NEW x \in Object, NoNewer(q, x)
      PROVE  NoNewer(q, x)'
  BY <1>0, <1>1, <1>3, <1>6 DEF NoNewer, Object
<1>7. ASSUME NEW i \in DOMAIN events' PROVE (NoNewer(events[i].pod, events[i].object))'
  <2>1. CASE i \in DOMAIN events
    <3>1. NoNewer(events[i].pod, events[i].object) /\ events[i] \in Event /\ events'[i] = events[i]
      BY <1>5, <2>1 DEF PastObjects, TypeOK
    <3> QED BY <1>6, <3>1 DEF NoNewer, Event
  <2>2. CASE i = Len(events) + 1
    BY <1>1, <1>3, <1>5, <2>2 DEF NoNewer, Object
  <2> QED BY <1>5, <2>1, <2>2
<1>8. handler'.pc # "idle" => (NoNewer(handler.pod, handler.object))'
  <2> SUFFICES ASSUME handler'.pc # "idle" PROVE (NoNewer(handler.pod, handler.object))'
    OBVIOUS
  <2>1. NoNewer(handler.pod, handler.object) /\ handler.pod \in Pods /\ handler.object \in Object
    BY DEF PastObjects, TypeOK
  <2> QED BY <1>6, <2>1 DEF NoNewer
<1> QED BY <1>1, <1>3, <1>5, <1>7, <1>8 DEF PastObjects

\* The results of a pod are dropped, all others stay.
LEMMA DropType ==
  ASSUME TypeOK, NEW p \in Pods
  PROVE  /\ Restrict(results, DOMAIN results \ {p}) \in UNION {[P -> Data] : P \in SUBSET Pods}
         /\ DOMAIN Restrict(results, DOMAIN results \ {p}) = DOMAIN results \ {p}
         /\ \A q \in DOMAIN results \ {p} : Restrict(results, DOMAIN results \ {p})[q] = results[q]
<1>1. results \in [DOMAIN results -> Data] /\ DOMAIN results \subseteq Pods
  BY DEF TypeOK
<1>2. Restrict(results, DOMAIN results \ {p}) = [q \in DOMAIN results \ {p} |-> results[q]]
  BY DEF Restrict
<1>3. Restrict(results, DOMAIN results \ {p}) \in [DOMAIN results \ {p} -> Data]
  BY <1>1, <1>2
<1> QED BY <1>1, <1>2, <1>3

-----------------------------------------------------------------------------
(* The steps of the scheduler                                              *)

\* A later result than the one found, or a result where none was found, is late.
LEMMA AddKeepsInv ==
  ASSUME StoreInv, NEW stage \in {"filter", "score", "normalize"}, NEW kinds \in SUBSET Kinds,
         AddResult(stage, kinds)
  PROVE  StoreInv'
<1>1. PICK e \in sched.todo : /\ results' = With(sched.pod, kinds, e)
                              /\ sched' = [sched EXCEPT !.todo = @ \ {e}]
  BY DEF AddResult
<1>2. UNCHANGED <<cycle, pods, events, handler>>
  BY DEF AddResult
<1>3. TypeOK /\ e \in Entries /\ sched.pod \in Pods
  BY DEF StoreInv, TypeOK
<1> DEFINE p == sched.pod
<1>4. IsWith(results', p)
  BY <1>1, <1>3, WithType
<1> HIDE DEF p
<1> USE DEF IsWith
<1>5. TypeOK'
  BY <1>1, <1>2, <1>3, <1>4 DEF TypeOK
<1>6. PastObjects'
  BY <1>2 DEF StoreInv, PastObjects, NoNewer
<1>7. ASSUME NEW q \in DOMAIN results, NEW kind \in Kinds, NEW x \in DOMAIN results[q][kind]
      PROVE  /\ x \in DOMAIN results'[q][kind]
             /\ results[q][kind][x] \in Nat /\ results'[q][kind][x] \in Nat
             /\ results[q][kind][x] <= results'[q][kind][x]
             /\ results'[q][kind][x] # results[q][kind][x] => results'[q][kind][x] = cycle[q]
  <2>1. results[q][kind] \in Maps /\ results'[q][kind] \in Maps
    BY <1>3, <1>4, <1>7 DEF TypeOK, Data
  <2>2. x \in DOMAIN results'[q][kind]
    BY <1>4, <1>7
  <2>3. results[q][kind][x] \in Nat /\ results'[q][kind][x] \in Nat
    BY <2>1, <2>2 DEF Maps
  <2>4. results[q][kind][x] <= cycle[q] /\ cycle[q] \in Nat
    BY <1>3 DEF StoreInv, NotAhead, TypeOK
  <2> QED BY <1>4, <2>2, <2>3, <2>4
<1>8. NotAhead'
  <2> SUFFICES ASSUME NEW q \in DOMAIN results', NEW kind \in Kinds,
                      NEW x \in DOMAIN results'[q][kind]
               PROVE  results'[q][kind][x] <= cycle[q]
    BY <1>2 DEF NotAhead
  <2>1. q \in Pods /\ cycle[q] \in Nat
    BY <1>4, <1>3 DEF TypeOK
  <2> QED BY <1>4, <2>1 DEF StoreInv, NotAhead
<1>9. FoundIsKept'
  <2> SUFFICES ASSUME handler.pc # "idle", NEW kind \in Kinds, NEW x \in DOMAIN handler.found[kind]
               PROVE  /\ x \in DOMAIN results'[handler.pod][kind]
                      /\ handler.found[kind][x] <= results'[handler.pod][kind][x]
    BY <1>2, <1>4 DEF StoreInv, FoundIsKept
  <2>1. /\ handler.pod \in DOMAIN results
        /\ x \in DOMAIN results[handler.pod][kind]
        /\ handler.found[kind][x] <= results[handler.pod][kind][x]
    BY DEF StoreInv, FoundIsKept
  <2>2. handler.found[kind][x] \in Nat
    BY <1>3 DEF TypeOK, Data, Maps
  <2> QED BY <1>7, <2>1, <2>2
<1>10. CopiedOrLate'
  <2> SUFFICES ASSUME NEW kind \in Copied, NEW x \in DOMAIN results'[handler.pod][kind],
                      ~ (/\ x \in DOMAIN handler.object.annotations[kind]
                         /\ handler.object.annotations[kind][x] = results'[handler.pod][kind][x]),
                      x \in DOMAIN handler.found[kind]
               PROVE  results'[handler.pod][kind][x] # handler.found[kind][x]
    BY <1>2 DEF CopiedOrLate, Copied, Late
  <2>1. handler.pc # "idle" /\ kind \in Kinds
    BY DEF Copied, Kinds
  <2>2. /\ handler.pod \in DOMAIN results
        /\ x \in DOMAIN results[handler.pod][kind]
        /\ handler.found[kind][x] <= results[handler.pod][kind][x]
    BY <2>1 DEF StoreInv, FoundIsKept
  <2>3. handler.found[kind][x] \in Nat
    BY <1>3, <2>1 DEF TypeOK, Data, Maps
  <2>4. \/ results[handler.pod][kind][x] # handler.found[kind][x]
        \/ results[handler.pod][kind][x] # results'[handler.pod][kind][x]
    BY <2>2 DEF StoreInv, CopiedOrLate, Late
  <2> QED BY <1>7, <2>1, <2>2, <2>3, <2>4
<1>11. Written'
  BY <1>2 DEF StoreInv, Written
<1> QED BY <1>5, <1>6, <1>8, <1>9, <1>10, <1>11 DEF StoreInv

\* A cycle starts, or goes on to its next stage.
LEMMA CycleKeepsInv ==
  ASSUME StoreInv, NextStage \/ \E p \in Pods : StartCycle(p)
  PROVE  StoreInv'
<1>1. /\ sched' \in [stage : {"idle", "filter", "score", "normalize"},
                     pod : Pods, todo : SUBSET Entries]
      /\ cycle' \in [Pods -> Nat]
      /\ \A p \in Pods : cycle[p] <= cycle'[p]
      /\ UNCHANGED <<results, pods, events, handler>>
  <2>1. cycle \in [Pods -> Nat]
          /\ sched \in [stage : {"idle", "filter", "score", "normalize"},
                        pod : Pods, todo : SUBSET Entries]
    BY DEF StoreInv, TypeOK
  <2>2. CASE NextStage
    <3>1. \A p \in Pods : cycle[p] <= cycle[p]
      BY <2>1
    <3>2. \/ sched' = [sched EXCEPT !.stage = "score", !.todo = Entries]
          \/ sched' = [sched EXCEPT !.stage = "normalize", !.todo = Entries]
      BY <2>2 DEF NextStage
    <3>3. sched' \in [stage : {"idle", "filter", "score", "normalize"},
                      pod : Pods, todo : SUBSET Entries]
      BY <2>1, <3>2
    <3>4. UNCHANGED <<results, cycle, pods, events, handler>>
      BY <2>2 DEF NextStage
    <3> QED BY <2>1, <3>1, <3>3, <3>4
  <2>3. ASSUME NEW p \in Pods, StartCycle(p) 
        PROVE  /\ sched' \in [stage : {"idle", "filter", "score", "normalize"},
                              pod : Pods, todo : SUBSET Entries]
               /\ cycle' \in [Pods -> Nat]
               /\ \A q \in Pods : cycle[q] <= cycle'[q]
               /\ UNCHANGED <<results, pods, events, handler>>
    BY <2>1, <2>3 DEF StartCycle
  <2> QED BY <2>2, <2>3
<1>2. TypeOK'
  BY <1>1 DEF StoreInv, TypeOK
<1>3. NotAhead'
  <2> SUFFICES ASSUME NEW p \in DOMAIN results, NEW kind \in Kinds,
                      NEW e \in DOMAIN results[p][kind]
               PROVE  results[p][kind][e] <= cycle'[p]
    BY <1>1 DEF NotAhead
  <2>1. results[p][kind] \in Maps
    BY DEF StoreInv, TypeOK, Data
  <2>2. p \in Pods /\ results[p][kind][e] \in Nat
    BY <2>1 DEF StoreInv, TypeOK, Maps
  <2>3. cycle[p] \in Nat /\ cycle'[p] \in Nat /\ results[p][kind][e] <= cycle[p]
    BY <1>1, <2>2 DEF StoreInv, TypeOK, NotAhead
  <2> QED BY <1>1, <2>2, <2>3
<1>4. PastObjects' /\ FoundIsKept' /\ CopiedOrLate' /\ Written'
  BY <1>1 DEF StoreInv, PastObjects, NoNewer, FoundIsKept, CopiedOrLate, Copied, Late, Written
<1> QED BY <1>2, <1>3, <1>4 DEF StoreInv

\* A cycle ends, and the API server may get a new version of the object, with the
\* annotations that it has.
LEMMA EndKeepsInv ==
  ASSUME StoreInv, BindPod \/ FailCycle
  PROVE  StoreInv'
<1>1. /\ sched' = IdleSched
      /\ UNCHANGED <<results, cycle, handler>>
      /\ \/ UNCHANGED <<pods, events>>
         \/ Store(sched.pod, pods[sched.pod])
         \/ Store(sched.pod, [pods[sched.pod] EXCEPT !.state = "bound"])
  BY DEF BindPod, FailCycle
<1> DEFINE p == sched.pod
<1>2. TypeOK /\ PastObjects /\ p \in Pods /\ pods[p] \in Object
  BY DEF StoreInv, TypeOK
<1>3. sched' \in [stage : {"idle", "filter", "score", "normalize"}, pod : Pods, todo : SUBSET Entries]
  BY <1>1, ResultStoreAssumption DEF IdleSched
<1>4. /\ PastObjects'
      /\ pods' \in [Pods -> Object]
      /\ events' \in Seq(Event)
      /\ \A q \in Pods : pods'[q].annotations = pods[q].annotations
  <2>1. CASE UNCHANGED <<pods, events>>
    BY <1>1, <2>1 DEF StoreInv, TypeOK, PastObjects, NoNewer
  <2>2. ASSUME NEW o \in Object, o.annotations = pods[p].annotations, Store(p, o)
        PROVE  /\ PastObjects' /\ pods' \in [Pods -> Object] /\ events' \in Seq(Event)
               /\ \A q \in Pods : pods'[q].annotations = pods[q].annotations
    <3> HIDE DEF p
    <3> QED BY <1>1, <1>2, <2>2, StoreKeeps
  <2>3. [pods[p] EXCEPT !.state = "bound"] \in Object
          /\ [pods[p] EXCEPT !.state = "bound"].annotations = pods[p].annotations
    BY <1>2 DEF Object
  <2> QED BY <1>1, <1>2, <2>1, <2>2, <2>3
<1>5. TypeOK'
  BY <1>1, <1>2, <1>3, <1>4 DEF TypeOK
<1>6. Written'
  BY <1>1, <1>2, <1>4 DEF StoreInv, Written, TypeOK
<1>7. FoundIsKept' /\ NotAhead' /\ CopiedOrLate'
  BY <1>1 DEF StoreInv, FoundIsKept, NotAhead, CopiedOrLate, Copied, Late
<1> QED BY <1>4, <1>5, <1>6, <1>7 DEF StoreInv

\* A deletion changes no version.
LEMMA DeleteKeepsInv ==
  ASSUME StoreInv, NEW p \in Pods, DeletePod(p)
  PROVE  StoreInv'
<1>1. /\ pods' = [pods EXCEPT ![p].state = "gone"]
      /\ UNCHANGED <<results, sched, cycle, events, handler>>
  BY DEF DeletePod
<1>2. /\ pods' \in [Pods -> Object]
      /\ \A q \in Pods : /\ pods'[q].annotations = pods[q].annotations
                         /\ pods'[q].version = pods[q].version
                         /\ pods'[q].state \in {pods[q].state, "gone"}
  BY <1>1 DEF StoreInv, TypeOK, Object
<1>3. TypeOK'
  BY <1>1, <1>2 DEF StoreInv, TypeOK
<1>4. ASSUME NEW q \in Pods, NEW o, NoNewer(q, o) PROVE NoNewer(q, o)'
  BY <1>2, <1>4 DEF NoNewer
<1>5. PastObjects'
  BY <1>1, <1>4 DEF StoreInv, TypeOK, PastObjects, NoNewer, Event
<1>6. Written'
  BY <1>1, <1>2 DEF StoreInv, TypeOK, Written
<1>7. FoundIsKept' /\ NotAhead' /\ CopiedOrLate'
  BY <1>1 DEF StoreInv, FoundIsKept, NotAhead, CopiedOrLate, Copied, Late
<1> QED BY <1>3, <1>5, <1>6, <1>7 DEF StoreInv

-----------------------------------------------------------------------------
(* The steps of the handler                                                *)

\* What the handler finds is what the store holds.
LEMMA HandleKeepsInv ==
  ASSUME StoreInv, HandleUpdate
  PROVE  StoreInv'
<1> DEFINE ev == Head(events)
<1>1. /\ handler.pc = "idle" /\ events # <<>> /\ events' = Tail(events)
      /\ UNCHANGED <<results, sched, cycle, pods>>
      /\ \/ handler' = handler
         \/ /\ ev.pod \in DOMAIN results
            /\ handler' = [pc |-> "filter", pod |-> ev.pod, object |-> ev.object,
                           found |-> results[ev.pod]]
  BY DEF HandleUpdate
<1>2. /\ events' \in Seq(Event)
      /\ ev \in Event /\ NoNewer(ev.pod, ev.object)
      /\ \A i \in DOMAIN events' : i + 1 \in DOMAIN events /\ events'[i] = events[i + 1]
  BY <1>1 DEF StoreInv, TypeOK, PastObjects
<1> HIDE DEF ev
<1>3. TypeOK'
  <2>1. ev.pod \in DOMAIN results => results[ev.pod] \in Data
    BY DEF StoreInv, TypeOK
  <2> QED BY <1>1, <1>2, <2>1 DEF StoreInv, TypeOK, Event, Kinds
<1>4. PastObjects'
  <2>1. \A i \in DOMAIN events' : NoNewer(events[i].pod, events[i].object)'
    BY <1>1, <1>2 DEF StoreInv, PastObjects, NoNewer
  <2>2. handler'.pc # "idle" => NoNewer(handler.pod, handler.object)'
    BY <1>1, <1>2 DEF NoNewer
  <2> QED BY <2>1, <2>2 DEF PastObjects
<1>5. FoundIsKept'
  <2> SUFFICES ASSUME handler'.pc # "idle", NEW kind \in Kinds,
                      NEW e \in DOMAIN results[ev.pod][kind], ev.pod \in DOMAIN results
               PROVE  results[ev.pod][kind][e] \in Nat
    BY <1>1 DEF FoundIsKept
  <2>1. results[ev.pod][kind] \in Maps
    BY DEF StoreInv, TypeOK, Data
  <2> QED BY <2>1 DEF Maps
<1>6. NotAhead'
  BY <1>1 DEF StoreInv, NotAhead
<1>7. CopiedOrLate' /\ Written'
  <2>1. handler'.pc \in {"idle", "filter"}
    BY <1>1
  <2> QED BY <2>1 DEF CopiedOrLate, Copied, Written
<1> QED BY <1>3, <1>4, <1>5, <1>6, <1>7 DEF StoreInv

\* A kind is copied as the store has it now.
LEMMA CopyKeepsInv ==
  ASSUME StoreInv, addFilterResultToPod \/ addScoreResultToPod \/ addFinalScoreResultToPod
  PROVE  StoreInv'
<1>1. PICK kind \in Kinds, next \in Kinds \cup {"update"} :
        /\ AddToPod(kind, next)
        /\ \/ kind = "filter" /\ next = "score"
           \/ kind = "score" /\ next = "finalscore"
           \/ kind = "finalscore" /\ next = "update"
  BY DEF addFilterResultToPod, addScoreResultToPod, addFinalScoreResultToPod, Kinds
<1> DEFINE new == results[handler.pod][kind]
<1>2. /\ handler.pc = kind
      /\ handler' = [handler EXCEPT !.pc = next, !.object.annotations[kind] = new]
      /\ UNCHANGED <<results, sched, cycle, pods, events>>
  BY <1>1 DEF AddToPod
<1>3. handler.pc # "idle" /\ handler.pod \in DOMAIN results
  BY <1>2 DEF StoreInv, FoundIsKept, Kinds
<1>4. new \in Maps
  BY <1>3 DEF StoreInv, TypeOK, Data
<1> HIDE DEF new
<1>5. /\ handler' \in [pc : Kinds \cup {"idle", "update", "delete"},
                       pod : Pods, object : Object, found : Data]
      /\ handler'.pc = next /\ handler'.pod = handler.pod /\ handler'.found = handler.found
      /\ handler'.object.version = handler.object.version
      /\ handler'.object.state = handler.object.state
      /\ handler'.object.annotations = [handler.object.annotations EXCEPT ![kind] = new]
  BY <1>2, <1>4 DEF StoreInv, TypeOK, Object, Data
<1>6. TypeOK'
  BY <1>2, <1>5 DEF StoreInv, TypeOK
<1>7. PastObjects'
  BY <1>2, <1>3, <1>5 DEF StoreInv, PastObjects, NoNewer
<1>8. FoundIsKept' /\ NotAhead'
  BY <1>2, <1>3, <1>5 DEF StoreInv, FoundIsKept, NotAhead
<1>9. CopiedOrLate'
  <2>1. Copied' = Copied \cup {kind}
    BY <1>1, <1>2, <1>5 DEF Copied, Kinds
  <2>2. handler.object.annotations \in Data
    BY DEF StoreInv, TypeOK, Object
  <2> SUFFICES ASSUME NEW k \in Copied \cup {kind}, NEW e \in DOMAIN results[handler.pod][k]
               PROVE  \/ Late(k, e)
                      \/ /\ e \in DOMAIN handler'.object.annotations[k]
                         /\ handler'.object.annotations[k][e] = results[handler.pod][k][e]
    BY <1>2, <1>5, <2>1 DEF CopiedOrLate, Late
  <2>3. CASE k = kind
    BY <1>5, <2>2, <2>3 DEF Data, new
  <2>4. CASE k # kind
    <3>1. k \in Copied /\ k \in Kinds
      BY <2>4 DEF Copied, Kinds
    <3> QED BY <1>5, <2>2, <2>4, <3>1 DEF StoreInv, CopiedOrLate, Data
  <2> QED BY <2>3, <2>4
<1>10. Written'
  BY <1>1, <1>5 DEF Written, Kinds
<1> QED BY <1>6, <1>7, <1>8, <1>9, <1>10 DEF StoreInv

\* The update is made from the current version, whose annotations become the
\* handler's.
LEMMA UpdateKeepsInv ==
  ASSUME StoreInv, UpdateOk
  PROVE  StoreInv'
<1>1. /\ handler.pc = "update"
      /\ handler' = [handler EXCEPT !.pc = "delete"]
      /\ UNCHANGED <<results, sched, cycle>>
      /\ \/ handler.object = pods[handler.pod] /\ UNCHANGED <<pods, events>>
         \/ Store(handler.pod, handler.object)
  BY DEF UpdateOk, Put
<1>2. /\ handler \in [pc : Kinds \cup {"idle", "update", "delete"},
                      pod : Pods, object : Object, found : Data]
      /\ TypeOK /\ PastObjects
  BY DEF StoreInv, TypeOK
<1>3. /\ handler' \in [pc : Kinds \cup {"idle", "update", "delete"},
                       pod : Pods, object : Object, found : Data]
      /\ handler'.pc = "delete" /\ handler'.pod = handler.pod
      /\ handler'.object = handler.object /\ handler'.found = handler.found
  BY <1>1, <1>2
<1>4. /\ PastObjects'
      /\ pods' \in [Pods -> Object]
      /\ events' \in Seq(Event)
      /\ pods'[handler.pod].annotations = handler.object.annotations
  <2>1. CASE handler.object = pods[handler.pod] /\ UNCHANGED <<pods, events>>
    BY <1>1, <1>2, <1>3, <2>1 DEF TypeOK, PastObjects, NoNewer
  <2>2. CASE Store(handler.pod, handler.object)
    <3> DEFINE p == handler.pod
               o == handler.object
    <3>1. p \in Pods /\ o \in Object /\ Store(p, o)
      BY <1>2, <2>2
    <3> HIDE DEF p, o
    <3>2. /\ PastObjects' /\ pods' \in [Pods -> Object] /\ events' \in Seq(Event)
          /\ pods'[p].annotations = o.annotations
      BY <1>1, <1>2, <1>3, <3>1, StoreKeeps
    <3> QED BY <3>2 DEF p, o
  <2> QED BY <1>1, <2>1, <2>2
<1>5. TypeOK'
  BY <1>1, <1>2, <1>3, <1>4 DEF TypeOK
<1>6. FoundIsKept' /\ NotAhead' /\ CopiedOrLate'
  BY <1>1, <1>3 DEF StoreInv, FoundIsKept, NotAhead, CopiedOrLate, Copied, Late
<1>7. Written'
  BY <1>3, <1>4 DEF Written
<1> QED BY <1>4, <1>5, <1>6, <1>7 DEF StoreInv

\* The handler ends, with the results of its pod dropped or not.
LEMMA IdleKeepsInv ==
  ASSUME StoreInv, UpdateError \/ DeleteData
  PROVE  StoreInv'
<1>1. /\ handler' = IdleHandler
      /\ UNCHANGED <<sched, cycle, pods, events>>
      /\ \/ results' = results
         \/ results' = Restrict(results, DOMAIN results \ {handler.pod})
  BY DEF UpdateError, DeleteData
<1>2. /\ handler'.pc = "idle"
      /\ handler' \in [pc : Kinds \cup {"idle", "update", "delete"},
                       pod : Pods, object : Object, found : Data]
  BY <1>1, EmptyMap, ResultStoreAssumption DEF IdleHandler, NewPod, Object
<1>3. /\ results' \in UNION {[P -> Data] : P \in SUBSET Pods}
      /\ DOMAIN results' \subseteq DOMAIN results
      /\ \A q \in DOMAIN results' : results'[q] = results[q]
  <2>1. TypeOK /\ handler.pod \in Pods
    BY DEF StoreInv, TypeOK
  <2>2. CASE results' = results
    BY <2>1, <2>2 DEF TypeOK
  <2>3. CASE results' = Restrict(results, DOMAIN results \ {handler.pod})
    BY <2>1, <2>3, DropType
  <2> QED BY <1>1, <2>2, <2>3
<1>4. TypeOK'
  BY <1>1, <1>2, <1>3 DEF StoreInv, TypeOK
<1>5. PastObjects' /\ FoundIsKept' /\ CopiedOrLate' /\ Written'
  BY <1>1, <1>2 DEF StoreInv, PastObjects, NoNewer, FoundIsKept, CopiedOrLate, Copied, Written
<1>6. NotAhead'
  BY <1>1, <1>3 DEF StoreInv, NotAhead
<1> QED BY <1>4, <1>5, <1>6 DEF StoreInv

-----------------------------------------------------------------------------
(* The theorems                                                            *)

\* Every step of the scheduler and of addSchedulingResultToPod keeps StoreInv.
THEOREM StoreInvariant == Spec => []StoreInv
<1>1. Init => StoreInv
  <2> SUFFICES ASSUME Init PROVE StoreInv
    OBVIOUS
  <2>1. TypeOK
    <3>1. NoMap \in UNION {[P -> Data] : P \in SUBSET Pods}
      <4>1. NoMap \in [{} -> Data]
        BY DEF NoMap
      <4> QED BY <4>1
    <3>2. <<>> \in Seq(Event)
      OBVIOUS
    <3> QED BY <3>1, <3>2, EmptyMap, ResultStoreAssumption
        DEF Init, TypeOK, IdleSched, IdleHandler, NewPod, Object
  <2>2. handler.pc = "idle" /\ events = <<>> /\ DOMAIN results = {}
    BY EmptyMap DEF Init, IdleHandler
  <2> QED BY <2>1, <2>2
      DEF StoreInv, PastObjects, FoundIsKept, NotAhead, CopiedOrLate, Copied, Written
<1>2. StoreInv /\ [Next]_vars => StoreInv'
  <2> SUFFICES ASSUME StoreInv, [Next]_vars PROVE StoreInv'
    OBVIOUS
  <2>1. CASE AddFilterResult \/ AddScoreResult \/ AddNormalizedScoreResult
    BY <2>1, AddKeepsInv
    DEF AddFilterResult, AddScoreResult, AddNormalizedScoreResult, Kinds
  <2>2. CASE NextStage \/ \E p \in Pods : StartCycle(p)
    BY <2>2, CycleKeepsInv
  <2>3. CASE BindPod \/ FailCycle
    BY <2>3, EndKeepsInv
  <2>4. ASSUME NEW p \in Pods, DeletePod(p) PROVE StoreInv'
    BY <2>4, DeleteKeepsInv
  <2>5. CASE HandleUpdate
    BY <2>5, HandleKeepsInv
  <2>6. CASE addFilterResultToPod \/ addScoreResultToPod \/ addFinalScoreResultToPod
    BY <2>6, CopyKeepsInv
  <2>7. CASE UpdateOk
    BY <2>7, UpdateKeepsInv
  <2>8. CASE UpdateError \/ DeleteData
    BY <2>8, IdleKeepsInv
  <2>9. CASE UNCHANGED vars
    BY <2>9 DEF vars, StoreInv, TypeOK, PastObjects, NoNewer, FoundIsKept, NotAhead,
                CopiedOrLate, Copied, Late, Written
  <2> QED BY <2>1, <2>2, <2>3, <2>4, <2>5, <2>6, <2>7, <2>8, <2>9
      DEF Next, Scheduling, Handling
<1> QED BY <1>1, <1>2, PTL DEF Spec

\* s.results[k], which addSchedulingResultToPod dereferences without the mutex, is
\* never nil, however the scheduler's goroutines add results meanwhile.
THEOREM NeverNil == Spec => []NoNilResult
<1>1. StoreInv => NoNilResult
  BY DEF StoreInv, FoundIsKept, NoNilResult, Kinds
<1> QED BY <1>1, StoreInvariant, PTL

\* When DeleteData drops the results of a pod, all that the handler found are in
\* the annotations: only results that were added while it ran are lost.
THEOREM LosesOnlyLate == Spec => []OnlyLateIsLost
<1>1. StoreInv => OnlyLateIsLost
  BY DEF StoreInv, CopiedOrLate, Copied, Written, OnlyLateIsLost
<1> QED BY <1>1, StoreInvariant, PTL

\* The update of a whole object from an old event never unbinds a pod: the API
\* server takes only objects of the current version, and those carry its state.
THEOREM KeepsBinding == Spec => BindingIsKept
<1> DEFINE Kept == \A p \in Pods : pods[p].state = "bound" => pods'[p].state # "pending"
<1>1. StoreInv /\ [Next]_vars => [Kept]_vars
  <2> SUFFICES ASSUME StoreInv, Next, NEW p \in Pods, pods[p].state = "bound"
               PROVE  pods'[p].state # "pending"
    OBVIOUS
  <2>1. CASE pods' = pods
    BY <2>1
  <2>2. ASSUME NEW q \in Pods, DeletePod(q) PROVE pods'[p].state # "pending"
    BY <2>2 DEF DeletePod, StoreInv, TypeOK, Object
  <2>3. ASSUME NEW q \in Pods, NEW o \in Object, Store(q, o),
               q = p => o.state # "pending"
        PROVE  pods'[p].state # "pending"
    BY <2>3 DEF Store, StoreInv, TypeOK, Object
  <2>4. CASE BindPod \/ FailCycle
    <3>1. sched.pod \in Pods /\ pods[sched.pod] \in Object
      BY DEF StoreInv, TypeOK
    <3>2. [pods[sched.pod] EXCEPT !.state = "bound"] \in Object
            /\ [pods[sched.pod] EXCEPT !.state = "bound"].state = "bound"
      BY <3>1 DEF Object
    <3>3. sched.pod = p => pods' = pods
      BY <2>4 DEF BindPod, FailCycle
    <3>4. CASE sched.pod # p
      BY <2>1, <2>3, <2>4, <3>1, <3>2, <3>4 DEF BindPod, FailCycle
    <3> QED BY <2>1, <3>3, <3>4
  <2>5. CASE UpdateOk
    <3>1. /\ handler.pod \in Pods /\ handler.object \in Object
          /\ NoNewer(handler.pod, handler.object)
          /\ handler.object.version = pods[handler.pod].version
          /\ pods[handler.pod].state # "gone"
      BY <2>5 DEF UpdateOk, Stale, StoreInv, TypeOK, PastObjects
    <3>2. handler.pod = p => handler.object.state # "pending"
      BY <3>1 DEF NoNewer
    <3> QED BY <2>1, <2>3, <2>5, <3>1, <3>2 DEF UpdateOk, Put
  <2> QED BY <2>1, <2>2, <2>4, <2>5
      DEF Next, Scheduling, Handling, AddFilterResult, AddScoreResult,
          AddNormalizedScoreResult, AddResult, NextStage, StartCycle, HandleUpdate,
          addFilterResultToPod, addScoreResultToPod, addFinalScoreResultToPod, AddToPod,
          UpdateError, DeleteData
<1> QED BY <1>1, StoreInvariant, PTL DEF Spec, BindingIsKept

=============================================================================
