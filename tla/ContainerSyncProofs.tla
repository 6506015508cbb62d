------------------------- MODULE ContainerSyncProofs -------------------------
(***************************************************************************)
(* Theorems about ContainerSync, for every number of containers, every     *)
(* configuration and every set of faults: its variables keep their types,  *)
(* a pass deletes only what it has listed, and daemons that know their     *)
(* containers, and may not delete themselves, die out only when one is     *)
(* killed while a stop or a removal of its own is under way.               *)
(***************************************************************************)
EXTENDS ContainerSync, TLAPS

USE ContainerSyncAssumption

Deleting == {"stopping", "removing"}

\* What a daemon stops or removes is a container, ...
Aimed == \A w \in Workers : pc[w] \in Deleting => victim[w] \in Ids

\* ... and not its own.
NotItself == \A w \in Workers : pc[w] \in Deleting => victim[w] # w

\* While no daemon was killed with a request under way, one that is dead has
\* left no request behind; the daemon 0, which may, is restarted at once.
SomeoneLives == Alive(0) \/ crossed \/ (orphans = {} /\ AlwaysADaemon)

SurvivalInv == ControlOK /\ crossed \in BOOLEAN /\ Aimed /\ NotItself /\ SomeoneLives

-----------------------------------------------------------------------------

\* One daemon is up at the start.
LEMMA InitSurvival == Init => SurvivalInv
<1> SUFFICES ASSUME Init PROVE SurvivalInv
  OBVIOUS
<1>0. MaxIds \in Nat
  BY DEF ContainerSyncAssumption
<1>1. PICK w \in Workers : pc = [v \in Workers |-> IF v = w THEN "networks" ELSE "dead"]
  BY DEF Init
<1>2. victim = [v \in Workers |-> 0] /\ orphans = {} /\ crossed = FALSE
  BY DEF Init
<1>3. ControlOK
  BY <1>0, <1>1, <1>2 DEF ControlOK, PCs, Workers
<1>4. Aimed /\ NotItself
  BY <1>1 DEF Aimed, NotItself, Deleting
<1>5. AlwaysADaemon
  BY <1>1 DEF AlwaysADaemon, Alive
<1>. QED
  BY <1>2, <1>3, <1>4, <1>5 DEF SurvivalInv, SomeoneLives

\* What a daemon that dies has asked for is a request.
LEMMA UnderWayType ==
    ASSUME Aimed, NEW w \in Workers PROVE UnderWay(w) \subseteq Deleting \X Ids
BY DEF Aimed, UnderWay, Deleting

\* Where the daemons are when Docker has carried out a request.
LEMMA CarryOutControl ==
    ASSUME ControlOK, Aimed, NEW request, NEW id \in Ids, NEW next \in [Workers -> PCs],
           CarryOut(request, id, next), victim' \in [Workers -> 0 .. MaxIds]
    PROVE  ControlOK' /\ pc' = [next EXCEPT ![id] = "dead"]
<1>1. id \in Workers
  BY DEF Ids, Workers, ContainerSyncAssumption
<1>2. pc' = [next EXCEPT ![id] = "dead"]
  BY DEF CarryOut
<1>3. orphans' \subseteq orphans \cup UnderWay(id)
  BY DEF CarryOut
<1>4. orphans' \subseteq Deleting \X Ids
  BY <1>1, <1>3, UnderWayType DEF ControlOK, Deleting
<1>. QED
  BY <1>1, <1>2, <1>4 DEF ControlOK, PCs, Deleting

\* A request that is carried out leaves a daemon, unless it kills one with
\* another request under way, or was left behind by such a one.
LEMMA CarryOutSurvival ==
    ASSUME ControlOK, SomeoneLives,
           NEW request, NEW id \in Ids, NEW next \in [Workers -> PCs],
           \A v \in Workers : next[v] = "dead" => pc[v] = "dead",
           \/ <<request, id>> \in orphans
           \/ \E w \in Workers \ {id} : next[w] # "dead",
           CarryOut(request, id, next)
    PROVE  SomeoneLives'
<1>1. id \in Workers /\ 0 \in Workers /\ id # 0
  BY DEF Ids, Workers, ContainerSyncAssumption
<1>2. pc' = [next EXCEPT ![id] = "dead"]
  BY DEF CarryOut
<1>3. CASE Alive(0)
  BY <1>1, <1>2, <1>3 DEF SomeoneLives, Alive
<1>4. CASE crossed
  BY <1>4 DEF SomeoneLives, CarryOut
<1>5. CASE orphans = {} /\ AlwaysADaemon
  <2>1. PICK w \in Workers \ {id} : next[w] # "dead"
    BY <1>5
  <2>2. AlwaysADaemon'
    BY <1>2, <2>1 DEF AlwaysADaemon, Alive
  <2>3. CASE UnderWay(id) \subseteq {<<request, id>>}
    <3>1. orphans' = {}
      BY <1>5, <2>3 DEF CarryOut
    <3>. QED
      BY <2>2, <3>1 DEF SomeoneLives
  <2>4. CASE ~(UnderWay(id) \subseteq {<<request, id>>})
    <3>1. UnderWay(id) \ {<<request, id>>} # {}
      BY <2>4
    <3>2. crossed'
      BY <3>1 DEF CarryOut
    <3>. QED
      BY <3>2 DEF SomeoneLives
  <2>. QED
    BY <2>3, <2>4
<1>. QED
  BY <1>3, <1>4, <1>5 DEF SomeoneLives

\* No step of the outside stops a daemon, but for the one it starts again and
\* for one that a request left behind is about.
LEMMA OutsideSurvival == SurvivalInv /\ Outside => SurvivalInv'
<1> SUFFICES ASSUME SurvivalInv, Outside PROVE SurvivalInv'
  OBVIOUS
<1> USE DEF SurvivalInv
<1>0. MaxIds \in Nat /\ 0 \in Workers
  BY DEF ContainerSyncAssumption, Workers
<1>1. ASSUME UNCHANGED <<pc, victim, orphans, crossed>> PROVE SurvivalInv'
  BY <1>1 DEF ControlOK, Aimed, NotItself, SomeoneLives, AlwaysADaemon, Alive
<1>2. CASE \E id \in Ids : ContainerExits(id)
  BY <1>1, <1>2 DEF ContainerExits, plans, calls
<1>3. CASE \E t \in Targets, tag \in Tags : ImageArrives(t, tag)
  BY <1>1, <1>3 DEF ImageArrives, plans, calls
<1>4. CASE Reconfigured
  BY <1>1, <1>4 DEF Reconfigured, plans, calls
<1>5. CASE Restarted
  <2>1. /\ pc' = [pc EXCEPT ![0] = "networks"]
        /\ victim' = [victim EXCEPT ![0] = 0]
        /\ orphans' = orphans \cup UnderWay(0) /\ crossed' = crossed
    BY <1>5 DEF Restarted, Forget
  <2>2. ControlOK'
    BY <1>0, <2>1, UnderWayType DEF ControlOK, PCs, Deleting
  <2>3. Aimed' /\ NotItself'
    BY <1>0, <2>1 DEF ControlOK, Aimed, NotItself, Deleting
  <2>4. Alive(0)'
    BY <1>0, <2>1 DEF Alive, ControlOK
  <2>. QED
    BY <2>1, <2>2, <2>3, <2>4 DEF SomeoneLives
<1>6. CASE OrphanCarriedOut
  <2>1. PICK r \in orphans : CarryOut(r[1], r[2], pc)
    BY <1>6 DEF OrphanCarriedOut
  <2>2. r[2] \in Ids /\ r = <<r[1], r[2]>> /\ victim' = victim
    BY <1>6 DEF OrphanCarriedOut, ControlOK, plans
  <2>3. ControlOK' /\ pc' = [pc EXCEPT ![r[2]] = "dead"]
    BY <2>1, <2>2, CarryOutControl DEF ControlOK
  <2>4. Aimed' /\ NotItself'
    BY <2>2, <2>3 DEF ControlOK, Aimed, NotItself, Deleting
  <2>5. SomeoneLives'
    BY <2>1, <2>2, CarryOutSurvival DEF ControlOK
  <2>6. crossed' \in BOOLEAN
    BY <2>1 DEF CarryOut
  <2>. QED
    BY <2>3, <2>4, <2>5, <2>6
<1>. QED
  BY <1>2, <1>3, <1>4, <1>5, <1>6 DEF Outside

\* The daemon that asks for the stop of a container lives in another one, ...
LEMMA StopSurvival ==
    ASSUME Reflected, ~AllowSelfDelete, SurvivalInv, NEW w \in Workers, NEW id \in Ids,
           ContainerStop(w, id)
    PROVE  SurvivalInv'
<1> USE DEF SurvivalInv
<1>1. id \in Workers /\ id \in 0 .. MaxIds
  BY DEF ContainerSyncAssumption, Workers, Ids
<1>2. /\ id # w /\ pc[w] = "deleting"
      /\ victim' = [victim EXCEPT ![w] = id]
      /\ pc' = [pc EXCEPT ![w] = "stopping"]
      /\ orphans' = orphans /\ crossed' = crossed
  BY DEF ContainerStop, Protected, calls
<1>3. ControlOK'
  BY <1>1, <1>2 DEF ControlOK, PCs
<1>4. Aimed' /\ NotItself'
  BY <1>2 DEF ControlOK, Aimed, NotItself, Deleting
<1>5. SomeoneLives'
  <2>1. \A v \in Workers : pc[v] # "dead" => pc'[v] # "dead"
    BY <1>2 DEF ControlOK
  <2>2. 0 \in Workers
    BY DEF Workers, ContainerSyncAssumption
  <2>. QED
    BY <1>2, <2>1, <2>2 DEF SomeoneLives, AlwaysADaemon, Alive
<1>. QED
  BY <1>2, <1>3, <1>4, <1>5

\* ... and so lives on when the request, or the removal, is carried out.
LEMMA RequestSurvival ==
    ASSUME SurvivalInv, NEW w \in Workers, pc[w] \in Deleting,
           NEW to \in {"removing", "deleting"},
           CarryOut(pc[w], victim[w], [pc EXCEPT ![w] = to]),
           \/ to = "removing" /\ victim' = victim
           \/ to = "deleting" /\ victim' = [victim EXCEPT ![w] = 0]
    PROVE  SurvivalInv'
<1> DEFINE next == [pc EXCEPT ![w] = to]
<1>1. /\ victim[w] \in Ids /\ victim[w] # w
      /\ next \in [Workers -> PCs]
      /\ victim' \in [Workers -> 0 .. MaxIds]
  BY DEF SurvivalInv, ControlOK, Aimed, NotItself, PCs, ContainerSyncAssumption
<1>2. /\ next[w] = to
      /\ \A v \in Workers \ {w} : next[v] = pc[v]
  BY DEF SurvivalInv, ControlOK
<1> HIDE DEF next
<1>3. CarryOut(pc[w], victim[w], next)
  BY DEF next
<1>4. ControlOK' /\ pc' = [next EXCEPT ![victim[w]] = "dead"]
  BY <1>1, <1>3, CarryOutControl DEF SurvivalInv
<1>5. SomeoneLives'
  BY <1>1, <1>2, <1>3, CarryOutSurvival DEF SurvivalInv
<1>6. Aimed' /\ NotItself'
  BY <1>1, <1>2, <1>4 DEF SurvivalInv, ControlOK, Aimed, NotItself, Deleting
<1>7. crossed' \in BOOLEAN
  BY <1>3 DEF CarryOut
<1>. QED
  BY <1>4, <1>5, <1>6, <1>7 DEF SurvivalInv

\* Every other step of a pass moves the daemon that takes it, and may boot one.
LEMMA MoveSurvival ==
    ASSUME SurvivalInv, NEW w \in Workers, NEW to \in PCs \ {"dead", "stopping", "removing"},
           NEW v \in Workers, NEW there \in {pc[v], "networks"},
           pc' = [pc EXCEPT ![w] = to] \/ pc' = [pc EXCEPT ![v] = there],
           victim' = victim \/ victim' = [victim EXCEPT ![w] = 0],
           UNCHANGED calls,
           pc[w] \notin Deleting
    PROVE  SurvivalInv'
<1> USE DEF SurvivalInv
<1>1. MaxIds \in Nat /\ 0 \in 0 .. MaxIds /\ 0 \in Workers
  BY DEF ContainerSyncAssumption, Workers
<1>2. orphans' = orphans /\ crossed' = crossed
  BY DEF calls
<1>3. ControlOK'
  BY <1>1, <1>2 DEF ControlOK, PCs
<1>4. \A u \in Workers : pc'[u] \in Deleting => pc'[u] = pc[u] /\ u # w
  BY DEF ControlOK, PCs, Deleting
<1>5. Aimed' /\ NotItself'
  BY <1>4 DEF Aimed, NotItself, ControlOK
<1>6. \A u \in Workers : pc[u] # "dead" => pc'[u] # "dead"
  BY DEF ControlOK, PCs
<1>7. SomeoneLives'
  BY <1>1, <1>2, <1>6 DEF SomeoneLives, AlwaysADaemon, Alive
<1>. QED
  BY <1>2, <1>3, <1>5, <1>7

\* A stop or a removal that fails kills nobody.
LEMMA FailedSurvival ==
    ASSUME SurvivalInv, NEW w \in Workers, pc[w] \in Deleting,
           NEW to \in {"removing", "deleting"}, pc' = [pc EXCEPT ![w] = to],
           UNCHANGED calls,
           \/ to = "removing" /\ victim' = victim
           \/ to = "deleting" /\ victim' = [victim EXCEPT ![w] = 0]
    PROVE  SurvivalInv'
<1> USE DEF SurvivalInv, calls
<1>1. ControlOK'
  BY DEF ControlOK, PCs, ContainerSyncAssumption
<1>2. Aimed' /\ NotItself'
  BY DEF ControlOK, Aimed, NotItself, Deleting
<1>3. \A u \in Workers : pc[u] # "dead" => pc'[u] # "dead"
  BY DEF ControlOK
<1>4. 0 \in Workers
  BY DEF Workers, ContainerSyncAssumption
<1>5. SomeoneLives'
  BY <1>3, <1>4 DEF SomeoneLives, AlwaysADaemon, Alive
<1>. QED
  BY <1>1, <1>2, <1>5

LEMMA PassSurvival ==
    ASSUME Reflected, ~AllowSelfDelete, SurvivalInv, NEW w \in Workers, Pass(w)
    PROVE  SurvivalInv'
<1> USE DEF Goto, Deleting
<1>1. CASE Woken(w)
  BY <1>1, MoveSurvival DEF Woken, plans, PCs
<1>2. CASE ProcessNetworks(w)
  BY <1>2, MoveSurvival DEF ProcessNetworks, PCs
<1>3. CASE ContainerList(w)
  BY <1>3, MoveSurvival DEF ContainerList, PCs
<1>4. CASE ImageList(w)
  <2>1. /\ pc[w] = "images" /\ UNCHANGED <<victim, calls>>
        /\ \E to \in {"deleting", "flush"} : pc' = [pc EXCEPT ![w] = to]
    BY <1>4 DEF ImageList, plans
  <2>. QED
    BY <2>1, MoveSurvival DEF PCs
<1>5. CASE Prevent(w)
  <2>1. pc' = [pc EXCEPT ![w] = "deleting"] /\ pc[w] = "deleting" /\ UNCHANGED <<victim, calls>>
    BY <1>5 DEF Prevent, SurvivalInv, ControlOK
  <2>. QED
    BY <2>1, MoveSurvival DEF PCs
<1>6. CASE ContainerRemove(w)
  <2>1. pc[w] = "removing" /\ victim' = [victim EXCEPT ![w] = 0]
    BY <1>6 DEF ContainerRemove
  <2>2. CASE CarryOut("removing", victim[w], [pc EXCEPT ![w] = "deleting"])
    BY <2>1, <2>2, RequestSurvival
  <2>3. CASE pc' = [pc EXCEPT ![w] = "deleting"] /\ UNCHANGED calls
    BY <2>1, <2>3, FailedSurvival
  <2>. QED
    BY <1>6, <2>2, <2>3 DEF ContainerRemove
<1>7. CASE DeleteDone(w)
  BY <1>7, MoveSurvival DEF DeleteDone, plans, PCs
<1>8. CASE CreateDone(w)
  BY <1>8, MoveSurvival DEF CreateDone, plans, PCs
<1>9. CASE StartDone(w)
  BY <1>9, MoveSurvival DEF StartDone, plans, PCs
<1>10. CASE Flush(w)
  <2>1. /\ pc[w] = "flush" /\ pc' = [pc EXCEPT ![w] = "idle"]
        /\ victim' = [victim EXCEPT ![w] = 0] /\ UNCHANGED calls
    BY <1>10 DEF Flush, Forget
  <2>. QED
    BY <2>1, MoveSurvival DEF PCs
<1>11. CASE \E id \in Ids : ContainerStop(w, id)
  BY <1>11, StopSurvival
<1>12. CASE \E id \in Ids : ContainerStart(w, id)
  <2>1. PICK id \in Ids : ContainerStart(w, id)
    BY <1>12
  <2>2. id \in Workers
    BY DEF ContainerSyncAssumption, Ids, Workers
  <2>3. pc[w] = "starting" /\ UNCHANGED <<victim, calls>>
    BY <2>1 DEF ContainerStart
  <2>4. \E there \in {pc[id], "networks"} : pc' = [pc EXCEPT ![id] = there]
    BY <2>1, <2>2 DEF ContainerStart, SurvivalInv, ControlOK
  <2>. QED
    BY <2>2, <2>3, <2>4, MoveSurvival DEF PCs
<1>13. CASE \E p \in Targets \X Tags : ContainerCreate(w, p)
  <2>1. pc' = [pc EXCEPT ![w] = "creating"] /\ pc[w] = "creating" /\ UNCHANGED <<victim, calls>>
    BY <1>13 DEF ContainerCreate, SurvivalInv, ControlOK
  <2>. QED
    BY <2>1, MoveSurvival DEF PCs
<1>14. CASE ContainerStopped(w)
  <2>1. pc[w] = "stopping" /\ victim' = victim
    BY <1>14 DEF ContainerStopped, plans
  <2>2. CASE CarryOut("stopping", victim[w], [pc EXCEPT ![w] = "removing"])
    BY <2>1, <2>2, RequestSurvival
  <2>3. CASE pc' = [pc EXCEPT ![w] = "removing"] /\ UNCHANGED calls
    BY <2>1, <2>3, FailedSurvival
  <2>. QED
    BY <1>14, <2>2, <2>3 DEF ContainerStopped
<1>. QED
  BY <1>1, <1>2, <1>3, <1>4, <1>5, <1>6, <1>7, <1>8, <1>9, <1>10, <1>11,
     <1>12, <1>13, <1>14 DEF Pass

\* "Deviced will never delete itself" (README.md:35) keeps a daemon alive,
\* whatever the daemons do to each other's containers and whatever fails,
\* unless one is killed while a stop or a removal of its own is under way (as
\* when two daemons stop each other: see AlwaysADaemon).
THEOREM DaemonSurvives ==
    ASSUME Reflected, ~AllowSelfDelete PROVE Spec => []DiesOutOnlyCrossed
<1>1. SurvivalInv /\ [Next]_vars => SurvivalInv'
  <2> SUFFICES ASSUME SurvivalInv, [Next]_vars PROVE SurvivalInv'
    OBVIOUS
  <2>1. CASE UNCHANGED vars
    BY <2>1 DEF SurvivalInv, ControlOK, Aimed, NotItself, SomeoneLives, AlwaysADaemon,
                Alive, vars, plans, calls
  <2>2. CASE Outside
    BY <2>2, OutsideSurvival
  <2>3. CASE \E w \in Workers : Pass(w)
    BY <2>3, PassSurvival
  <2>. QED
    BY <2>1, <2>2, <2>3 DEF Next
<1>2. SurvivalInv => DiesOutOnlyCrossed
  <2>1. 0 \in Workers
    BY DEF Workers, ContainerSyncAssumption
  <2>. QED
    BY <2>1 DEF SurvivalInv, SomeoneLives, DiesOutOnlyCrossed, AlwaysADaemon
<1>. QED
  BY InitSurvival, <1>1, <1>2, PTL DEF Spec

-----------------------------------------------------------------------------

\* A plan concerns containers that were listed and targets that are known.
LEMMA PlanType ==
    ASSUME NEW cfg, NEW seen, NEW list, NEW tags,
           DOMAIN seen \subseteq Ids, DOMAIN cfg \subseteq Targets
    PROVE  /\ Plan(cfg, seen, list, tags).delete \in SUBSET (DOMAIN seen)
           /\ Plan(cfg, seen, list, tags).create \in SUBSET (Targets \X Tags)
           /\ Plan(cfg, seen, list, tags).start \in SUBSET Ids
BY DEF Plan

\* A container that is not gone is a record with a target.
LEMMA CtrType ==
    ASSUME NEW c \in Ctrs, c.state # "gone", NEW s \in States
    PROVE  [c EXCEPT !.state = s] \in Ctrs
BY DEF Ctrs, States, Absent

LEMMA AbsentType == Absent \in Ctrs
BY DEF Ctrs

LEMMA ForgetType ==
    ASSUME ListedOK, ControlOK, NEW w \in Workers, Forget(w),
           NEW to \in {"networks", "idle"}, pc' = [pc EXCEPT ![w] = to]
    PROVE  ListedOK'
<1>2. DOMAIN NoCtrs = {} /\ NoCtrs \in [{} -> Ctrs]
  BY DEF NoCtrs
<1>. QED
  BY <1>2 DEF ListedOK, ControlOK, Forget

\* A container that is stopped, or removed, is a container.
LEMMA CarryOutWorld ==
    ASSUME WorldOK, NEW request, NEW id \in Ids, NEW next, CarryOut(request, id, next),
           UNCHANGED <<images, config>>
    PROVE  WorldOK'
<1>1. ctrs[id] \in Ctrs /\ "exited" \in States
  BY DEF WorldOK, States
<1>2. PICK c \in Ctrs : ctrs' = [ctrs EXCEPT ![id] = c]
  <2>1. CASE ctrs' = [ctrs EXCEPT ![id] = Absent]
    BY <2>1, AbsentType
  <2>2. CASE ctrs' = [ctrs EXCEPT ![id].state = IF @ = "running" THEN "exited" ELSE @]
    <3>1. CASE ctrs[id].state = "running"
      <4>1. [ctrs[id] EXCEPT !.state = "exited"] \in Ctrs
        BY <1>1, <3>1, CtrType
      <4>. QED
        BY <2>2, <3>1, <4>1
    <3>2. CASE ctrs[id].state # "running"
      <4>1. [ctrs[id] EXCEPT !.state = ctrs[id].state] = ctrs[id]
        BY <1>1 DEF Ctrs, Absent
      <4>. QED
        BY <1>1, <2>2, <3>2, <4>1
    <3>. QED
      BY <3>1, <3>2
  <2>. QED
    BY <2>1, <2>2 DEF CarryOut
<1>. QED
  BY <1>2 DEF WorldOK

\* Requests that are carried out, or fail, leave the lists alone.
LEMMA ListedKept ==
    ASSUME ListedOK, UNCHANGED <<nets, listed, toDelete, toCreate, toStart>>,
           \A v \in Workers : pc'[v] \in {"deleting", "stopping", "removing"} =>
              /\ pc[v] \in {"deleting", "stopping", "removing"}
              /\ pc'[v] # "deleting" => pc[v] # "deleting" /\ victim'[v] = victim[v]
    PROVE  ListedOK'
BY DEF ListedOK

\* What is stopped or removed was listed: it is a container.
LEMMA ListedAimed == ListedOK => Aimed
BY DEF ListedOK, Aimed, Deleting

\* The types hold at the start.
LEMMA InitType == Init => TypeOK
<1> SUFFICES ASSUME Init PROVE TypeOK
  OBVIOUS
<1>1. WorldOK
  BY DEF Init, WorldOK, ContainerSyncAssumption
<1>2. ControlOK
  BY InitSurvival DEF SurvivalInv
<1>3. ListedOK
  <2>1. DOMAIN NoCtrs = {} /\ NoCtrs \in [{} -> Ctrs]
    BY DEF NoCtrs
  <2>. QED
    BY <2>1 DEF Init, ListedOK
<1>4. FlagsOK
  BY Zenon DEF Init, FlagsOK
<1>5. CountsOK
  BY DEF Init, CountsOK, ContainerSyncAssumption
<1>. QED
  BY <1>1, <1>2, <1>3, <1>4, <1>5 DEF TypeOK

\* The outside moves only what is its own.
LEMMA OutsideType == TypeOK /\ Outside => TypeOK'
<1> SUFFICES ASSUME TypeOK, Outside PROVE TypeOK'
  OBVIOUS
<1> USE DEF TypeOK
<1>1. CASE \E id \in Ids : ContainerExits(id)
  <2>0. PICK id \in Ids : ContainerExits(id)
    BY <1>1
  <2>1. WorldOK'
    <3>1. "exited" \in States /\ ctrs[id] \in Ctrs /\ ctrs[id].state # "gone"
      BY <2>0 DEF ContainerExits, WorldOK, States
    <3>. QED
      BY <2>0, <3>1, CtrType DEF ContainerExits, WorldOK
  <2>2. ControlOK'
    BY <2>0 DEF ContainerExits, ControlOK, plans, calls
  <2>3. ListedOK'
    BY <2>0 DEF ContainerExits, ListedOK, plans
  <2>4. FlagsOK'
    BY Zenon, <2>0 DEF ContainerExits, FlagsOK, calls, Report, Disturbed, Alive
  <2>5. CountsOK'
    BY <2>0 DEF ContainerExits, CountsOK, ContainerSyncAssumption
  <2>. QED
    BY <2>1, <2>2, <2>3, <2>4, <2>5
<1>2. CASE \E t \in Targets, tag \in Tags : ImageArrives(t, tag)
  <2>0. PICK t \in Targets, tag \in Tags : ImageArrives(t, tag)
    BY <1>2
  <2>1. WorldOK'
    BY <2>0 DEF ImageArrives, WorldOK, world
  <2>2. ControlOK'
    BY <2>0 DEF ImageArrives, ControlOK, plans, calls
  <2>3. ListedOK'
    BY <2>0 DEF ImageArrives, ListedOK, plans
  <2>4. FlagsOK'
    BY Zenon, <2>0 DEF ImageArrives, FlagsOK, calls, Report, Disturbed, Alive
  <2>5. CountsOK'
    BY <2>0 DEF ImageArrives, CountsOK, ContainerSyncAssumption
  <2>. QED
    BY <2>1, <2>2, <2>3, <2>4, <2>5
<1>3. CASE Reconfigured
  <2>1. WorldOK'
    BY <1>3 DEF Reconfigured, WorldOK, world
  <2>2. ControlOK'
    BY <1>3 DEF Reconfigured, ControlOK, plans, calls
  <2>3. ListedOK'
    BY <1>3 DEF Reconfigured, ListedOK, plans
  <2>4. FlagsOK'
    BY Zenon, <1>3 DEF Reconfigured, FlagsOK, calls, Disturbed, Alive
  <2>5. CountsOK'
    BY <1>3 DEF Reconfigured, CountsOK, ContainerSyncAssumption
  <2>. QED
    BY <2>1, <2>2, <2>3, <2>4, <2>5
<1>4. CASE Restarted
  <2>0. /\ pc' = [pc EXCEPT ![0] = "networks"]
        /\ victim' = [victim EXCEPT ![0] = 0]
        /\ orphans' = orphans \cup UnderWay(0)
    BY <1>4 DEF Restarted, Forget
  <2>1. WorldOK'
    BY <1>4 DEF Restarted, WorldOK, world
  <2>2. ControlOK'
    <3>1. 0 \in 0 .. MaxIds /\ 0 \in Workers
      BY DEF Workers, ContainerSyncAssumption
    <3>2. UnderWay(0) \subseteq Deleting \X Ids
      BY <3>1, ListedAimed, UnderWayType
    <3>. QED
      BY <2>0, <3>1, <3>2 DEF ControlOK, PCs, Deleting
  <2>3. ListedOK'
    <3>1. 0 \in Workers /\ Forget(0)
      BY <1>4 DEF Restarted, Workers, ContainerSyncAssumption
    <3>. QED
      BY <2>0, <3>1, ForgetType
  <2>4. FlagsOK'
    BY Zenon, <1>4 DEF Restarted, FlagsOK
  <2>5. CountsOK'
    BY <1>4 DEF Restarted, CountsOK, ContainerSyncAssumption
  <2>. QED
    BY <2>1, <2>2, <2>3, <2>4, <2>5
<1>5. CASE OrphanCarriedOut
  <2>0. PICK r \in orphans : CarryOut(r[1], r[2], pc)
    BY <1>5 DEF OrphanCarriedOut
  <2>1. r[2] \in Ids /\ victim' = victim
    BY <1>5 DEF OrphanCarriedOut, ControlOK, plans
  <2>2. WorldOK'
    BY <1>5, <2>0, <2>1, CarryOutWorld DEF OrphanCarriedOut
  <2>3. ControlOK' /\ pc' = [pc EXCEPT ![r[2]] = "dead"]
    BY <2>0, <2>1, CarryOutControl, ListedAimed DEF ControlOK
  <2>4. ListedOK'
    <3>1. UNCHANGED plans
      BY <1>5 DEF OrphanCarriedOut
    <3>. QED
      BY <2>3, <3>1 DEF ControlOK, ListedOK, plans
  <2>5. FlagsOK'
    BY Zenon, <1>5, <2>0 DEF OrphanCarriedOut, CarryOut, FlagsOK, Report, Disturbed
  <2>6. CountsOK'
    BY <1>5 DEF OrphanCarriedOut, CountsOK, counts
  <2>. QED
    BY <2>2, <2>3, <2>4, <2>5, <2>6
<1>. QED
  BY <1>1, <1>2, <1>3, <1>4, <1>5 DEF Outside

\* So does a pass: a plan is of the types of what it was made from, and what
\* is started is not gone.
LEMMA PassType ==
    ASSUME TypeOK, NEW w \in Workers, Pass(w) PROVE TypeOK'
<1> USE DEF TypeOK, Goto
<1>1. CASE Woken(w)
  <2>1. WorldOK'
    BY <1>1 DEF Woken, WorldOK, world
  <2>2. ControlOK'
    BY <1>1 DEF Woken, ControlOK, PCs, plans, calls
  <2>3. ListedOK'
    BY <1>1 DEF Woken, ListedOK, ControlOK, plans
  <2>4. FlagsOK'
    BY Zenon, <1>1 DEF Woken, FlagsOK, calls
  <2>5. CountsOK'
    BY <1>1 DEF Woken, CountsOK, counts
  <2>. QED
    BY <2>1, <2>2, <2>3, <2>4, <2>5
<1>2. CASE ProcessNetworks(w)
  <2>1. WorldOK'
    BY <1>2 DEF ProcessNetworks, WorldOK, world
  <2>2. ControlOK'
    BY <1>2 DEF ProcessNetworks, ControlOK, PCs, plans, calls
  <2>3. ListedOK'
    <3>1. PICK found \in SUBSET Targets : nets' = [nets EXCEPT ![w] = found]
      BY <1>2 DEF ProcessNetworks, WorldOK, ContainerSyncAssumption
    <3>2. pc' = [pc EXCEPT ![w] = "listing"]
      BY <1>2 DEF ProcessNetworks
    <3>. QED
      BY <1>2, <3>1, <3>2 DEF ProcessNetworks, ListedOK, ControlOK
  <2>4. FlagsOK'
    BY Zenon, <1>2 DEF ProcessNetworks, FlagsOK, calls
  <2>5. CountsOK'
    BY <1>2 DEF ProcessNetworks, CountsOK, counts
  <2>. QED
    BY <2>1, <2>2, <2>3, <2>4, <2>5
<1>3. CASE ContainerList(w)
  <2>1. WorldOK'
    BY <1>3 DEF ContainerList, WorldOK, world
  <2>2. ControlOK'
    BY <1>3 DEF ContainerList, ControlOK, PCs, plans, calls
  <2>3. ListedOK'
    <3>1. PICK new :
            /\ listed' = [listed EXCEPT ![w] = new]
            /\ \/ new = [id \in {i \in Ids : ctrs[i].state # "gone"} |-> ctrs[id]]
               \/ new = NoCtrs
      BY <1>3 DEF ContainerList
    <3>2. DOMAIN new \subseteq Ids /\ new \in [DOMAIN new -> Ctrs]
      BY <3>1 DEF NoCtrs, WorldOK
    <3>3. /\ nets' = nets /\ toDelete' = toDelete
          /\ toCreate' = toCreate /\ toStart' = toStart /\ victim' = victim
          /\ pc' = [pc EXCEPT ![w] = "images"]
      BY <1>3 DEF ContainerList
    <3>. QED
      BY <3>1, <3>2, <3>3 DEF ListedOK, ControlOK
  <2>4. FlagsOK'
    BY Zenon, <1>3 DEF ContainerList, FlagsOK, calls
  <2>5. CountsOK'
    BY <1>3 DEF ContainerList, CountsOK, counts
  <2>. QED
    BY <2>1, <2>2, <2>3, <2>4, <2>5
<1>4. CASE ImageList(w)
  <2>1. WorldOK'
    BY <1>4 DEF ImageList, WorldOK, world
  <2>2. ControlOK'
    BY <1>4 DEF ImageList, ControlOK, PCs, plans, calls
  <2>3. ListedOK'
    <3>1. CASE /\ nets' = nets /\ listed' = listed /\ victim' = victim
               /\ pc' = [pc EXCEPT ![w] = "deleting"]
               /\ \E list \in SetToSeqs(DOMAIN listed[w]), tags \in TagLists :
                     LET plan == Plan(config, listed[w], list, tags)
                     IN  /\ toDelete' = [toDelete EXCEPT ![w] = plan.delete]
                         /\ toCreate' = [toCreate EXCEPT ![w] = plan.create]
                         /\ toStart' = [toStart EXCEPT ![w] = plan.start]
      <4>1. DOMAIN listed[w] \subseteq Ids /\ DOMAIN config \subseteq Targets
        BY DEF ListedOK, WorldOK, ContainerSyncAssumption
      <4>2. PICK d \in SUBSET (DOMAIN listed[w]), c \in SUBSET (Targets \X Tags), s \in SUBSET Ids :
              /\ toDelete' = [toDelete EXCEPT ![w] = d]
              /\ toCreate' = [toCreate EXCEPT ![w] = c]
              /\ toStart' = [toStart EXCEPT ![w] = s]
        BY <3>1, <4>1, PlanType
      <4>. QED
        BY <3>1, <4>1, <4>2 DEF ListedOK, ControlOK
    <3>2. CASE UNCHANGED plans /\ pc' = [pc EXCEPT ![w] = "flush"]
      BY <3>2 DEF ListedOK, ControlOK, plans
    <3>. QED
      BY <1>4, <3>1, <3>2 DEF ImageList
  <2>4. FlagsOK'
    BY Zenon, <1>4 DEF ImageList, FlagsOK, calls
  <2>5. CountsOK'
    BY <1>4 DEF ImageList, CountsOK, counts
  <2>. QED
    BY <2>1, <2>2, <2>3, <2>4, <2>5
<1>5. CASE Prevent(w)
  <2>1. WorldOK'
    BY <1>5 DEF Prevent, WorldOK, world
  <2>2. ControlOK'
    BY <1>5 DEF Prevent, ControlOK, PCs, plans, calls
  <2>3. ListedOK'
    BY <1>5 DEF Prevent, ListedOK, ControlOK, plans
  <2>4. FlagsOK'
    BY Zenon, <1>5 DEF Prevent, FlagsOK, calls
  <2>5. CountsOK'
    BY <1>5 DEF Prevent, CountsOK, counts
  <2>. QED
    BY <2>1, <2>2, <2>3, <2>4, <2>5
<1>6. CASE ContainerRemove(w)
  <2> DEFINE next == [pc EXCEPT ![w] = "deleting"]
  <2>1. pc[w] = "removing" /\ victim' = [victim EXCEPT ![w] = 0]
    BY <1>6 DEF ContainerRemove, plans
  <2>2. /\ victim[w] \in Ids /\ victim[w] \in DOMAIN listed[w] /\ Aimed
        /\ victim' \in [Workers -> 0 .. MaxIds]
        /\ next \in [Workers -> PCs]
    BY <2>1, ListedAimed DEF ListedOK, ControlOK, PCs, ContainerSyncAssumption
  <2>3. WorldOK' /\ ControlOK' /\ ListedOK'
    <3>1. CASE CarryOut("removing", victim[w], next)
      <4>1. ControlOK' /\ pc' = [next EXCEPT ![victim[w]] = "dead"]
        BY <2>2, <3>1, CarryOutControl
      <4>2. WorldOK'
        BY <1>6, <2>2, <3>1, CarryOutWorld DEF ContainerRemove
      <4>3. ListedOK'
        <5>1. UNCHANGED <<nets, listed, toDelete, toCreate, toStart>>
          BY <1>6 DEF ContainerRemove, plans
        <5>2. \A v \in Workers : pc'[v] \in {"deleting", "stopping", "removing"} =>
                 /\ pc[v] \in {"deleting", "stopping", "removing"}
                 /\ pc'[v] # "deleting" => pc[v] # "deleting" /\ victim'[v] = victim[v]
          BY <2>1, <2>2, <4>1 DEF ControlOK
        <5>. QED
          BY <5>1, <5>2, ListedKept
      <4>. QED
        BY <4>1, <4>2, <4>3
    <3>2. CASE pc' = next /\ UNCHANGED <<ctrs, calls>>
      <4>1. WorldOK'
        BY <1>6, <3>2 DEF ContainerRemove, WorldOK
      <4>2. ControlOK'
        BY <2>2, <3>2 DEF ControlOK, calls
      <4>3. ListedOK'
        <5>1. UNCHANGED <<nets, listed, toDelete, toCreate, toStart>>
          BY <1>6 DEF ContainerRemove, plans
        <5>2. \A v \in Workers : pc'[v] \in {"deleting", "stopping", "removing"} =>
                 /\ pc[v] \in {"deleting", "stopping", "removing"}
                 /\ pc'[v] # "deleting" => pc[v] # "deleting" /\ victim'[v] = victim[v]
          BY <2>1, <2>2, <3>2 DEF ControlOK
        <5>. QED
          BY <5>1, <5>2, ListedKept
      <4>. QED
        BY <4>1, <4>2, <4>3
    <3>. QED
      BY <1>6, <3>1, <3>2 DEF ContainerRemove
  <2>4. FlagsOK'
    BY Zenon, <1>6 DEF ContainerRemove, CarryOut, FlagsOK, Report, Meddled, calls
  <2>5. CountsOK'
    BY <1>6 DEF ContainerRemove, CountsOK, counts
  <2>. QED
    BY <2>3, <2>4, <2>5
<1>7. CASE DeleteDone(w)
  <2>1. WorldOK'
    BY <1>7 DEF DeleteDone, WorldOK, world
  <2>2. ControlOK'
    BY <1>7 DEF DeleteDone, ControlOK, PCs, plans, calls
  <2>3. ListedOK'
    BY <1>7 DEF DeleteDone, ListedOK, ControlOK, plans
  <2>4. FlagsOK'
    BY Zenon, <1>7 DEF DeleteDone, FlagsOK, calls
  <2>5. CountsOK'
    BY <1>7 DEF DeleteDone, CountsOK, counts
  <2>. QED
    BY <2>1, <2>2, <2>3, <2>4, <2>5
<1>8. CASE CreateDone(w)
  <2>1. WorldOK'
    BY <1>8 DEF CreateDone, WorldOK, world
  <2>2. ControlOK'
    BY <1>8 DEF CreateDone, ControlOK, PCs, plans, calls
  <2>3. ListedOK'
    BY <1>8 DEF CreateDone, ListedOK, ControlOK, plans
  <2>4. FlagsOK'
    BY Zenon, <1>8 DEF CreateDone, FlagsOK, calls
  <2>5. CountsOK'
    BY <1>8 DEF CreateDone, CountsOK, counts
  <2>. QED
    BY <2>1, <2>2, <2>3, <2>4, <2>5
<1>9. CASE StartDone(w)
  <2>1. WorldOK'
    BY <1>9 DEF StartDone, WorldOK, world
  <2>2. ControlOK'
    BY <1>9 DEF StartDone, ControlOK, PCs, plans, calls
  <2>3. ListedOK'
    BY <1>9 DEF StartDone, ListedOK, ControlOK, plans
  <2>4. FlagsOK'
    BY Zenon, <1>9 DEF StartDone, FlagsOK, calls
  <2>5. CountsOK'
    BY <1>9 DEF StartDone, CountsOK, counts
  <2>. QED
    BY <2>1, <2>2, <2>3, <2>4, <2>5
<1>10. CASE Flush(w)
  <2>1. WorldOK'
    BY <1>10 DEF Flush, WorldOK, world
  <2>2. ControlOK'
    BY <1>10 DEF Flush, Forget, ControlOK, PCs, calls, ContainerSyncAssumption
  <2>3. ListedOK'
    BY <1>10, ForgetType DEF Flush
  <2>4. FlagsOK'
    BY Zenon, <1>10 DEF Flush, FlagsOK, calls
  <2>5. CountsOK'
    BY <1>10 DEF Flush, CountsOK, counts
  <2>. QED
    BY <2>1, <2>2, <2>3, <2>4, <2>5
<1>11. CASE \E id \in Ids : ContainerStop(w, id)
  <2>0. PICK id \in Ids : ContainerStop(w, id)
    BY <1>11
  <2>1. WorldOK'
    BY <2>0 DEF ContainerStop, WorldOK, world
  <2>2. ControlOK'
    <3>1. id \in 0 .. MaxIds
      BY DEF Ids, ContainerSyncAssumption
    <3>. QED
      BY <2>0, <3>1 DEF ContainerStop, ControlOK, PCs, calls
  <2>3. ListedOK'
    BY <2>0 DEF ContainerStop, ListedOK, ControlOK
  <2>4. FlagsOK'
    BY Zenon, <2>0 DEF ContainerStop, FlagsOK, calls
  <2>5. CountsOK'
    BY <2>0 DEF ContainerStop, CountsOK, counts
  <2>. QED
    BY <2>1, <2>2, <2>3, <2>4, <2>5
<1>12. CASE \E id \in Ids : ContainerStart(w, id)
  <2>0. PICK id \in Ids : ContainerStart(w, id)
    BY <1>12
  <2>1. WorldOK'
    <3>1. CASE UNCHANGED ctrs
      BY <2>0, <3>1 DEF ContainerStart, WorldOK
    <3>2. CASE ctrs[id].state # "gone" /\ ctrs' = [ctrs EXCEPT ![id].state = "running"]
      <4>1. ctrs[id] \in Ctrs /\ "running" \in States
        BY DEF WorldOK, States
      <4>2. [ctrs[id] EXCEPT !.state = "running"] \in Ctrs
        BY <3>2, <4>1, CtrType
      <4>. QED
        BY <2>0, <3>2, <4>2 DEF ContainerStart, WorldOK
    <3>. QED
      BY <2>0, <3>1, <3>2 DEF ContainerStart
  <2>2. ControlOK'
    BY <2>0 DEF ContainerStart, ControlOK, PCs, calls
  <2>3. ListedOK'
    BY <2>0 DEF ContainerStart, ListedOK, ControlOK
  <2>4. FlagsOK'
    BY Zenon, <2>0 DEF ContainerStart, FlagsOK, Report, Meddled, calls
  <2>5. CountsOK'
    BY <2>0 DEF ContainerStart, CountsOK, counts
  <2>. QED
    BY <2>1, <2>2, <2>3, <2>4, <2>5
<1>13. CASE \E p \in Targets \X Tags : ContainerCreate(w, p)
  <2>0. PICK p \in Targets \X Tags : ContainerCreate(w, p)
    BY <1>13
  <2>1. WorldOK'
    <3>1. [target |-> p[1], tag |-> p[2], state |-> "created"] \in Ctrs
      BY DEF Ctrs, States
    <3>. QED
      BY <2>0, <3>1 DEF ContainerCreate, WorldOK
  <2>2. ControlOK'
    BY <2>0 DEF ContainerCreate, ControlOK, PCs, calls
  <2>3. ListedOK'
    BY <2>0 DEF ContainerCreate, ListedOK, ControlOK
  <2>4. FlagsOK'
    BY Zenon, <2>0 DEF ContainerCreate, FlagsOK, Report, Meddled, calls
  <2>5. CountsOK'
    BY <2>0 DEF ContainerCreate, CountsOK, counts
  <2>. QED
    BY <2>1, <2>2, <2>3, <2>4, <2>5
<1>14. CASE ContainerStopped(w)
  <2> DEFINE next == [pc EXCEPT ![w] = "removing"]
  <2>1. pc[w] = "stopping" /\ victim' = victim
    BY <1>14 DEF ContainerStopped, plans
  <2>2. /\ victim[w] \in Ids /\ victim[w] \in DOMAIN listed[w] /\ Aimed
        /\ victim' \in [Workers -> 0 .. MaxIds]
        /\ next \in [Workers -> PCs]
    BY <2>1, ListedAimed DEF ListedOK, ControlOK, PCs, ContainerSyncAssumption
  <2>3. WorldOK' /\ ControlOK' /\ ListedOK'
    <3>1. CASE CarryOut("stopping", victim[w], next)
      <4>1. ControlOK' /\ pc' = [next EXCEPT ![victim[w]] = "dead"]
        BY <2>2, <3>1, CarryOutControl
      <4>2. WorldOK'
        BY <1>14, <2>2, <3>1, CarryOutWorld DEF ContainerStopped
      <4>3. ListedOK'
        <5>1. UNCHANGED <<nets, listed, toDelete, toCreate, toStart>>
          BY <1>14 DEF ContainerStopped, plans
        <5>2. \A v \in Workers : pc'[v] \in {"deleting", "stopping", "removing"} =>
                 /\ pc[v] \in {"deleting", "stopping", "removing"}
                 /\ pc'[v] # "deleting" => pc[v] # "deleting" /\ victim'[v] = victim[v]
          BY <2>1, <2>2, <4>1 DEF ControlOK
        <5>. QED
          BY <5>1, <5>2, ListedKept
      <4>. QED
        BY <4>1, <4>2, <4>3
    <3>2. CASE pc' = next /\ UNCHANGED <<ctrs, calls>>
      <4>1. WorldOK'
        BY <1>14, <3>2 DEF ContainerStopped, WorldOK
      <4>2. ControlOK'
        BY <2>2, <3>2 DEF ControlOK, calls
      <4>3. ListedOK'
        <5>1. UNCHANGED <<nets, listed, toDelete, toCreate, toStart>>
          BY <1>14 DEF ContainerStopped, plans
        <5>2. \A v \in Workers : pc'[v] \in {"deleting", "stopping", "removing"} =>
                 /\ pc[v] \in {"deleting", "stopping", "removing"}
                 /\ pc'[v] # "deleting" => pc[v] # "deleting" /\ victim'[v] = victim[v]
          BY <2>1, <2>2, <3>2 DEF ControlOK
        <5>. QED
          BY <5>1, <5>2, ListedKept
      <4>. QED
        BY <4>1, <4>2, <4>3
    <3>. QED
      BY <1>14, <3>1, <3>2 DEF ContainerStopped
  <2>4. FlagsOK'
    BY Zenon, <1>14 DEF ContainerStopped, CarryOut, FlagsOK, Report, Meddled, calls
  <2>5. CountsOK'
    BY <1>14 DEF ContainerStopped, CountsOK, counts
  <2>. QED
    BY <2>3, <2>4, <2>5
<1>. QED
  BY <1>1, <1>2, <1>3, <1>4, <1>5, <1>6, <1>7, <1>8, <1>9, <1>10, <1>11, <1>12, <1>13,
     <1>14 DEF Pass

\* Every variable keeps its type: what a pass is to delete, stops or removes, it
\* has listed, what it starts has the number of a container, and a request
\* that a daemon leaves behind is about a container.
THEOREM TypeCorrect == Spec => []TypeOK
<1>1. TypeOK /\ [Next]_vars => TypeOK'
  <2> SUFFICES ASSUME TypeOK, [Next]_vars PROVE TypeOK'
    OBVIOUS
  <2>1. CASE UNCHANGED vars
    <3> USE <2>1 DEF vars, world, plans, calls, counts, TypeOK
    <3>1. WorldOK' /\ ControlOK' /\ ListedOK' /\ CountsOK'
      BY DEF WorldOK, ControlOK, ListedOK, CountsOK
    <3>2. FlagsOK'
      BY Zenon DEF FlagsOK
    <3>. QED
      BY <3>1, <3>2
  <2>2. CASE Outside
    BY <2>2, OutsideType
  <2>3. CASE \E w \in Workers : Pass(w)
    BY <2>3, PassType
  <2>. QED
    BY <2>1, <2>2, <2>3 DEF Next
<1>. QED
  BY InitType, <1>1, PTL DEF Spec

=============================================================================
