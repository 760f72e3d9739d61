------------------------------ MODULE NodeObject ------------------------------
(***************************************************************************)
(* The Node object of one node and its writers.  rubicante marks the node  *)
(* unschedulable (updateSchedulability), malacoda writes the assurance of  *)
(* the node to an annotation and its level to a label.  Each of them reads *)
(* the object once, when it starts, and sends back the whole object with   *)
(* its change; the API server takes it if the version is still its own.    *)
(* Others (the kubelet, an administrator) write the object too.            *)
(*                                                                         *)
(* Of a version only this matters: is it the one the API server holds now? *)
(* fresh and late keep the copies and requests for which it is.  Every     *)
(* write makes all of them outdated, those of the writer too, since both   *)
(* daemons drop the object that Update returns.                            *)
(***************************************************************************)
EXTENDS Integers

CONSTANTS
  Gammas,   \* the scores that malacoda draws, of 0 .. 9
  None      \* no annotation

ASSUME NodeAssumption ==
  /\ Gammas \subseteq 0 .. 9
  /\ None \notin Int

VARIABLES
  object,       \* what the API server holds
  copy,         \* copy[d]: NODE of rubicante, node of malacoda
  pc,           \* what each daemon does
  fresh,        \* daemons whose copy has the version of object
  late,         \* requests of processes that are gone, with the version of object
  SCHEDULABLE   \* rubicante's flag

vars == <<object, copy, pc, fresh, late, SCHEDULABLE>>

Daemons == {"rubicante", "malacoda"}
Levels == {"NO", "LOW", "HI"}

\* Spec.Unschedulable, the annotation ASSURANCE and the label Criticality.
Object ==
  [Unschedulable : BOOLEAN, ASSURANCE : (0 .. 9) \cup {None}, Criticality : Levels \cup {None}]

Request == [from : Daemons, object : Object]

-----------------------------------------------------------------------------
(* The daemons up to their calls                                           *)

\* A daemon is started and gets the object.
Get(d) ==
  /\ pc[d] = "down"
  /\ pc' = [pc EXCEPT ![d] = "idle"]
  /\ copy' = [copy EXCEPT ![d] = object]
  /\ fresh' = fresh \cup {d}

\* configClient
StartRubicante ==
  /\ Get("rubicante")
  /\ SCHEDULABLE' = TRUE
  /\ UNCHANGED <<object, late>>

\* start of malacoda, up to its loop
StartMalacoda ==
  /\ Get("malacoda")
  /\ UNCHANGED <<object, late, SCHEDULABLE>>

\* updateSchedulability is called when a pod was deleted; schedulable says that
\* some core is below the threshold.  If that is news, the flag is set and the
\* object sent.
UpdateSchedulability(schedulable) ==
  /\ pc["rubicante"] = "idle"
  /\ schedulable # SCHEDULABLE
  /\ SCHEDULABLE' = schedulable
  /\ copy' = [copy EXCEPT !["rubicante"].Unschedulable = ~schedulable]
  /\ pc' = [pc EXCEPT !["rubicante"] = "update"]
  /\ UNCHANGED <<object, fresh, late>>

Level(assurance) ==
  IF assurance < 3 THEN "NO" ELSE IF assurance < 7 THEN "LOW" ELSE "HI"

\* gamma as malacoda reads it: Atoi of a missing annotation gives 0.
Gamma(o) == IF o.ASSURANCE = None THEN 0 ELSE o.ASSURANCE

\* Mutant: the label follows the score of the turn before.
MeasureLabelsLate(gamma) ==
  /\ pc["malacoda"] = "idle"
  /\ gamma # Gamma(copy["malacoda"])
  /\ copy' = [copy EXCEPT !["malacoda"].ASSURANCE = gamma,
                          !["malacoda"].Criticality = Level(Gamma(copy["malacoda"]))]
  /\ pc' = [pc EXCEPT !["malacoda"] = "update"]
  /\ UNCHANGED <<object, fresh, late, SCHEDULABLE>>

\* A turn of malacoda's loop that finds another score (alpha and beta are 0).
Measure(gamma) ==
  /\ pc["malacoda"] = "idle"
  /\ gamma # Gamma(copy["malacoda"])
  /\ copy' = [copy EXCEPT !["malacoda"].ASSURANCE = gamma,
                          !["malacoda"].Criticality = Level(gamma)]
  /\ pc' = [pc EXCEPT !["malacoda"] = "update"]
  /\ UNCHANGED <<object, fresh, late, SCHEDULABLE>>

-----------------------------------------------------------------------------
(* The API server and what comes back                                      *)

Write(o) ==
  /\ object' = o
  /\ fresh' = {}
  /\ late' = {}

\* Mutant: the error of Update is printed by malacoda too.
AfterErrorIdle(d) == "idle"

\* rubicante prints an error and goes on; malacoda prints err, not UpdateErr: err
\* is nil and the process ends.
AfterError(d) == IF d = "rubicante" THEN "idle" ELSE "down"

\* Mutant: the version is left out, so that any object is taken.
UpdateForced(d) ==
  /\ pc[d] = "update"
  /\ Write(copy[d])
  /\ \E next \in {"idle", AfterError(d)} : pc' = [pc EXCEPT ![d] = next]
  /\ UNCHANGED <<copy, SCHEDULABLE>>

\* The object is taken; the answer may be lost.
UpdateTaken(d) ==
  /\ pc[d] = "update"
  /\ d \in fresh
  /\ Write(copy[d])
  /\ \E next \in {"idle", AfterError(d)} : pc' = [pc EXCEPT ![d] = next]
  /\ UNCHANGED <<copy, SCHEDULABLE>>

\* The object is outdated, or the request does not arrive.
UpdateError(d) ==
  /\ pc[d] = "update"
  /\ pc' = [pc EXCEPT ![d] = AfterError(d)]
  /\ UNCHANGED <<object, copy, fresh, late, SCHEDULABLE>>

\* A daemon stops.  A request it has sent may still arrive.
Stop(d) ==
  /\ pc[d] # "down"
  /\ pc' = [pc EXCEPT ![d] = "down"]
  /\ late' \in {late} \cup
       IF pc[d] = "update" /\ d \in fresh THEN {late \cup {[from |-> d, object |-> copy[d]]}} ELSE {}
  /\ UNCHANGED <<object, copy, fresh, SCHEDULABLE>>

LateUpdate(r) ==
  /\ r \in late
  /\ Write(r.object)
  /\ UNCHANGED <<copy, pc, SCHEDULABLE>>

\* The kubelet's heartbeat, or an administrator who marks the node.
OtherWrite(unschedulable) ==
  /\ Write([object EXCEPT !.Unschedulable = unschedulable])
  /\ UNCHANGED <<copy, pc, SCHEDULABLE>>

-----------------------------------------------------------------------------
\* The first start of the daemons on a node that has no assurance yet; its label
\* may have been set by hand.
Init ==
  /\ object \in [Unschedulable : {FALSE}, ASSURANCE : {None}, Criticality : Levels \cup {None}]
  /\ copy = [d \in Daemons |-> object]
  /\ pc = [d \in Daemons |-> "down"]
  /\ fresh = {}
  /\ late = {}
  /\ SCHEDULABLE = TRUE

Next ==
  \/ StartRubicante \/ StartMalacoda
  \/ \E b \in BOOLEAN : UpdateSchedulability(b) \/ OtherWrite(b)
  \/ \E g \in Gammas : Measure(g)
  \/ \E d \in Daemons : UpdateTaken(d) \/ UpdateError(d) \/ Stop(d)
  \/ \E r \in late : LateUpdate(r)

Spec == Init /\ [][Next]_vars

\* The DaemonSet starts malacoda again, its loop draws another score at some time,
\* and its calls return.
FairSpec ==
  /\ Spec
  /\ WF_vars(StartMalacoda)
  /\ WF_vars(\E g \in Gammas : Measure(g))
  /\ WF_vars(UpdateTaken("malacoda") \/ UpdateError("malacoda"))

-----------------------------------------------------------------------------
(* Properties                                                              *)

TypeOK ==
  /\ object \in Object
  /\ copy \in [Daemons -> Object]
  /\ pc \in [Daemons -> {"down", "idle", "update"}]
  /\ fresh \subseteq Daemons
  /\ late \subseteq Request
  /\ SCHEDULABLE \in BOOLEAN

\* What a daemon must leave alone when it writes.
SameBut(d, o1, o2) ==
  IF d = "rubicante"
  THEN o1.ASSURANCE = o2.ASSURANCE /\ o1.Criticality = o2.Criticality
  ELSE o1.Unschedulable = o2.Unschedulable

\* A copy or a request that the API server would take differs from the object only
\* in what its daemon may change.
CopiesAgree ==
  /\ \A d \in fresh : SameBut(d, copy[d], object)
  /\ \A r \in late : SameBut(r.from, r.object, object)

Labelled(o) == o.ASSURANCE # None => o.Criticality = Level(o.ASSURANCE)

\* The scheduler goes by the label: in the object it is the level of the assurance
\* written with it, also when writes of malacoda fail, arrive late or are repeated
\* by a new process.  The same holds for whatever may still be written.
LevelFits ==
  /\ Labelled(object)
  /\ \A d \in Daemons : Labelled(copy[d])
  /\ \A r \in late : Labelled(r.object)

NodeInv == TypeOK /\ CopiesAgree /\ LevelFits

\* Both daemons send whole objects they read long ago, and also with requests that
\* arrive late (Update in updateSchedulability and in the loop of malacoda): none
\* takes back what the other daemon or anybody else has changed since.
NothingTakenBack ==
  [][ /\ \A d \in Daemons : UpdateTaken(d) => SameBut(d, object, object')
      /\ \A r \in late : LateUpdate(r) => SameBut(r.from, object, object') ]_vars

\* malacoda never reads its node again, so after the first write of anyone each of
\* its updates is refused (main.go:166): it does not go on like that for ever.
OutdatedIsReplaced == ("malacoda" \notin fresh) ~> ("malacoda" \in fresh)

=============================================================================
