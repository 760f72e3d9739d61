--------------------------- MODULE NodeObjectProofs ---------------------------
(***************************************************************************)
(* NodeInv is an invariant of NodeObject, and from it no write takes back  *)
(* what others changed, for every set of scores.                           *)
(***************************************************************************)
EXTENDS NodeObject, TLAPS

\* Every score has a level.
LEMMA LevelType ==
  ASSUME NEW g \in Int
  PROVE  Level(g) \in Levels
BY DEF Level, Levels

\* The starts of the daemons keep NodeInv: a fresh copy is the object itself.
LEMMA GetKeepsInv ==
  ASSUME NodeInv, StartRubicante \/ StartMalacoda
  PROVE  NodeInv'
<1>1. PICK d \in Daemons : Get(d) /\ object' = object /\ late' = late /\ SCHEDULABLE' \in BOOLEAN
  BY DEF StartRubicante, StartMalacoda, Daemons, NodeInv, TypeOK
<1>2. TypeOK'
  BY <1>1 DEF NodeInv, TypeOK, Get, Daemons
<1>3. CopiesAgree'
  BY <1>1 DEF NodeInv, TypeOK, CopiesAgree, SameBut, Get
<1>4. LevelFits'
  BY <1>1 DEF NodeInv, TypeOK, LevelFits, Labelled, Get
<1> QED BY <1>2, <1>3, <1>4 DEF NodeInv

\* So does updateSchedulability, which changes in its copy what is rubicante's.
LEMMA CordonKeepsInv ==
  ASSUME NodeInv, NEW b \in BOOLEAN, UpdateSchedulability(b)
  PROVE  NodeInv'
<1>1. /\ copy' = [copy EXCEPT !["rubicante"] = [@ EXCEPT !.Unschedulable = ~b]]
      /\ pc' = [pc EXCEPT !["rubicante"] = "update"]
      /\ SCHEDULABLE' = b /\ UNCHANGED <<object, fresh, late>>
  BY DEF UpdateSchedulability
<1>2. TypeOK'
  BY <1>1 DEF NodeInv, TypeOK, Daemons, Object
<1>3. CopiesAgree'
  BY <1>1 DEF NodeInv, TypeOK, CopiesAgree, SameBut, Daemons, Object
<1>4. LevelFits'
  BY <1>1 DEF NodeInv, TypeOK, LevelFits, Labelled, Daemons, Object
<1> QED BY <1>2, <1>3, <1>4 DEF NodeInv

\* So does a turn of malacoda's loop, which changes annotation and label together.
LEMMA MeasureKeepsInv ==
  ASSUME NodeInv, NEW g \in Gammas, Measure(g)
  PROVE  NodeInv'
<1>1. /\ copy' = [copy EXCEPT !["malacoda"] =
                    [@ EXCEPT !.ASSURANCE = g, !.Criticality = Level(g)]]
      /\ pc' = [pc EXCEPT !["malacoda"] = "update"]
      /\ UNCHANGED <<object, fresh, late, SCHEDULABLE>>
  BY DEF Measure
<1>2. g \in 0 .. 9 /\ Level(g) \in Levels
  BY NodeAssumption, LevelType
<1>3. TypeOK'
  BY <1>1, <1>2 DEF NodeInv, TypeOK, Daemons, Object
<1>4. CopiesAgree'
  BY <1>1 DEF NodeInv, TypeOK, CopiesAgree, SameBut, Daemons, Object
<1>5. LevelFits'
  BY <1>1 DEF NodeInv, TypeOK, LevelFits, Labelled, Daemons, Object
<1> QED BY <1>3, <1>4, <1>5 DEF NodeInv

\* So does every write: it leaves no other copy that would be taken.
LEMMA WriteKeepsInv ==
  ASSUME NodeInv, NEW o \in Object, Labelled(o), Write(o),
         UNCHANGED <<copy, SCHEDULABLE>>,
         pc' \in [Daemons -> {"down", "idle", "update"}]
  PROVE  NodeInv'
BY DEF NodeInv, TypeOK, CopiesAgree, LevelFits, Labelled, Write

\* A request of a daemon that stops is as good as the daemon's copy was.
LEMMA StopKeepsInv ==
  ASSUME NodeInv, NEW d \in Daemons, Stop(d)
  PROVE  NodeInv'
<1>1. /\ pc' = [pc EXCEPT ![d] = "down"]
      /\ UNCHANGED <<object, copy, fresh, SCHEDULABLE>>
      /\ \/ late' = late
         \/ d \in fresh /\ late' = late \cup {[from |-> d, object |-> copy[d]]}
  BY DEF Stop
<1>2. TypeOK'
  BY <1>1 DEF NodeInv, TypeOK, Request
<1>3. CopiesAgree'
  BY <1>1 DEF NodeInv, TypeOK, CopiesAgree, SameBut
<1>4. LevelFits'
  BY <1>1 DEF NodeInv, TypeOK, LevelFits, Labelled
<1> QED BY <1>2, <1>3, <1>4 DEF NodeInv

\* Copies that would be taken differ from the object in the daemon's own fields
\* only, and the label fits the annotation wherever the two are.
THEOREM NodeInvariant == Spec => []NodeInv
<1>1. Init => NodeInv
  BY NodeAssumption
  DEF Init, NodeInv, TypeOK, CopiesAgree, LevelFits, Labelled, Object, Daemons, Levels
<1>2. NodeInv /\ [Next]_vars => NodeInv'
  <2> SUFFICES ASSUME NodeInv, [Next]_vars PROVE NodeInv'
    OBVIOUS
  <2>1. CASE StartRubicante \/ StartMalacoda
    BY <2>1, GetKeepsInv
  <2>2. ASSUME NEW b \in BOOLEAN, UpdateSchedulability(b) PROVE NodeInv'
    BY <2>2, CordonKeepsInv
  <2>3. ASSUME NEW b \in BOOLEAN, OtherWrite(b) PROVE NodeInv'
    <3> DEFINE o == [object EXCEPT !.Unschedulable = b]
    <3>1. o \in Object /\ Labelled(o)
      BY DEF NodeInv, TypeOK, LevelFits, Labelled, Object
    <3> QED BY <2>3, <3>1, WriteKeepsInv DEF OtherWrite, NodeInv, TypeOK
  <2>4. ASSUME NEW g \in Gammas, Measure(g) PROVE NodeInv'
    BY <2>4, MeasureKeepsInv
  <2>5. ASSUME NEW d \in Daemons, UpdateTaken(d) PROVE NodeInv'
    <3>1. copy[d] \in Object /\ Labelled(copy[d])
      BY DEF NodeInv, TypeOK, LevelFits
    <3>2. pc' \in [Daemons -> {"down", "idle", "update"}]
      BY <2>5 DEF UpdateTaken, AfterError, NodeInv, TypeOK
    <3> QED BY <2>5, <3>1, <3>2, WriteKeepsInv DEF UpdateTaken
  <2>6. ASSUME NEW d \in Daemons, UpdateError(d) PROVE NodeInv'
    BY <2>6 DEF UpdateError, AfterError, NodeInv, TypeOK, CopiesAgree, LevelFits, Labelled, SameBut
  <2>7. ASSUME NEW d \in Daemons, Stop(d) PROVE NodeInv'
    BY <2>7, StopKeepsInv
  <2>8. ASSUME NEW r \in late, LateUpdate(r) PROVE NodeInv'
    <3>1. r.object \in Object /\ Labelled(r.object)
      BY DEF NodeInv, TypeOK, LevelFits, Request
    <3> QED BY <2>8, <3>1, WriteKeepsInv DEF LateUpdate, NodeInv, TypeOK
  <2>9. CASE UNCHANGED vars
    BY <2>9 DEF vars, NodeInv, TypeOK, CopiesAgree, LevelFits, Labelled, SameBut
  <2> QED BY <2>1, <2>2, <2>3, <2>4, <2>5, <2>6, <2>7, <2>8, <2>9 DEF Next
<1> QED BY <1>1, <1>2, PTL DEF Spec

\* Updates of outdated objects, late ones too, take nothing back.
THEOREM WritesTakeNothingBack == Spec => NothingTakenBack
<1>1. NodeInv /\ [Next]_vars =>
        [ /\ \A d \in Daemons : UpdateTaken(d) => SameBut(d, object, object')
          /\ \A r \in late : LateUpdate(r) => SameBut(r.from, object, object') ]_vars
  <2>1. ASSUME NodeInv, NEW d \in Daemons, UpdateTaken(d) PROVE SameBut(d, object, object')
    BY <2>1 DEF NodeInv, CopiesAgree, SameBut, UpdateTaken, Write
  <2>2. ASSUME NodeInv, NEW r \in late, LateUpdate(r) PROVE SameBut(r.from, object, object')
    BY <2>2 DEF NodeInv, CopiesAgree, SameBut, LateUpdate, Write
  <2> QED BY <2>1, <2>2
<1> QED BY <1>1, NodeInvariant, PTL DEF Spec, NothingTakenBack

=============================================================================
