---------------------------- MODULE ContainerSync ----------------------------
(***************************************************************************)
(* ContainerSyncWorker.processOnce (pkg/containersync/worker.go): one pass *)
(* lists the containers and the images, plans what to delete, create and   *)
(* start, and carries the plan out call by call while Docker lives on.     *)
(*                                                                         *)
(* deviced may run in a container that it manages itself.  A daemon is     *)
(* named after its container; the daemon 0 runs outside of any.  Starting  *)
(* a container of SelfTarget boots a daemon, stopping it kills the daemon. *)
(* A stop takes up to 30 seconds and a removal its time: meanwhile the     *)
(* daemon in the container goes on, and what it has asked of Docker is     *)
(* carried out though it is dead by then.                                  *)
(*                                                                         *)
(* A container's image is its tag, a configuration maps a target to its    *)
(* versions (best first, the architecture suffix included) and its flags.  *)
(* A number is given to a container while anything refers to it.  Stop hooks *)
(* only take time: any other step may come before the stop they precede.   *)
(* Networks matter only in that a target may lack its own.                 *)
(***************************************************************************)
EXTENDS Naturals, Sequences, FiniteSets, SequencesExt

CONSTANTS
    Targets,          \* deviced.id labels
    Tags,             \* image tags
    MaxIds,           \* bound: containers that exist or are referred to
    Configs,          \* configurations the user may give
    InitialCtrs,      \* what Docker may hold at the start
    InitialImages,    \* tags each target may have at the start
    SelfTarget,       \* the target that is deviced itself, or NoTarget
    NoTarget,
    Reflected,        \* a daemon in a container knows which (cw.Reflection)
    AllowSelfDelete,  \* ContainerConfig.AllowSelfDelete
    Faults,           \* whose calls, and which of them, may fail
    MaxExits,         \* bound: containers that stop by themselves
    MaxChanges,       \* bound: images that arrive, and edits of config
    MaxCrashes,       \* bound: restarts of the daemon 0
    QuietPasses       \* Docker changes by itself only before a pass lists it

FaultKinds == {"networks", "list", "images", "stop", "remove", "create", "start"}

Ids     == 1 .. MaxIds
Workers == 0 .. MaxIds
Absent  == [target |-> NoTarget, tag |-> "none", state |-> "gone"]
States  == {"created", "running", "exited"}
Ctrs    == [target : Targets, tag : Tags, state : States] \cup {Absent}

ASSUME ContainerSyncAssumption ==
    /\ MaxIds \in Nat
    /\ NoTarget \notin Targets
    /\ \A cfg \in Configs : DOMAIN cfg \subseteq Targets
    /\ SelfTarget \in Targets \cup {NoTarget}
    /\ InitialCtrs \subseteq [Ids -> Ctrs]
    /\ InitialImages \subseteq [Targets -> SUBSET Tags]
    /\ Reflected \in BOOLEAN
    /\ AllowSelfDelete \in BOOLEAN
    /\ QuietPasses \in BOOLEAN
    /\ Faults \subseteq Workers \X FaultKinds
    /\ MaxExits \in Nat /\ MaxChanges \in Nat /\ MaxCrashes \in Nat

\* What a configuration says of a target: its versions and two flags.
ASSUME ConfigAssumption ==
    /\ IsFiniteSet(Tags)
    /\ \A cfg \in Configs : \A t \in DOMAIN cfg :
          cfg[t] \in [versions : Seq(Tags), useAny : BOOLEAN, restartExited : BOOLEAN]

VARIABLES
    ctrs,       \* Docker's containers
    images,     \* the tags Docker has of each target's image
    config,     \* the configuration in memory
    pc,         \* where each daemon's worker is
    events,     \* Docker events wait for the daemon
    wake,       \* Main offers a wake
    nets,       \* targets whose network is in netMap
    listed,     \* containers, as listed in this pass
    toDelete,   \* containersToDelete
    victim,     \* the container that is being stopped or removed
    toCreate,   \* containersToCreate: the tag to create for a target
    toStart,    \* containersToStart
    orphans,    \* stops and removals under way that dead daemons asked for
    clean,      \* history: nothing failed or changed during this pass
    stale,      \* history: an image arrived since this worker listed them
    crossed,    \* history: a daemon was killed with a request under way
    exits, changes, crashes   \* counters for the bounds

world   == <<ctrs, images>>
plans   == <<nets, listed, toDelete, victim, toCreate, toStart>>
counts  == <<exits, changes, crashes>>
calls   == <<orphans, crossed>>
vars    == <<world, config, pc, events, wake, plans, calls, clean, stale, counts>>

(***************************************************************************)
(* The plan, a pure function of what was listed.                           *)
(***************************************************************************)

\* ContainerVersionScore: the position in the list of versions, from 0, or
\* math.MaxUint16.
Unlisted == 65535

ContainerVersionScore(target, tag) ==
    IF \E i \in DOMAIN target.versions : target.versions[i] = tag
      THEN (CHOOSE i \in DOMAIN target.versions :
               /\ target.versions[i] = tag
               /\ \A j \in 1 .. i - 1 : target.versions[j] # tag) - 1
      ELSE Unlisted

\* Mutant: a container that stopped for good is a candidate.
Candidates_AnyState(cfg, seen, list, t) ==
    {i \in DOMAIN list : seen[list[i]].target = t}

\* Where in the list the containers of a target are that are not stopped for
\* good.
Candidates(cfg, seen, list, t) ==
    {i \in DOMAIN list :
        /\ seen[list[i]].target = t
        /\ seen[list[i]].state = "running" \/ cfg[t].restartExited}

\* The candidate kept when the loop has met the first i of the list (0: none).
\* The first is kept until one beats it, and so on; but the tag of the one kept
\* is parsed from a name that has none any more, so each is compared with
\* "latest".
KeptAfter(target, seen, list, cands, i) ==
    LET met     == {j \in cands : j <= i}
        winners == {j \in met \ {Min(met)} :
                       ContainerVersionScore(target, seen[list[j]].tag)
                          < ContainerVersionScore(target, "latest")}
    IN  IF met = {} THEN 0
        ELSE IF winners = {} THEN list[Min(met)]
        ELSE list[Max(winners)]

Kept(cfg, seen, list) ==
    [t \in DOMAIN cfg |->
        KeptAfter(cfg[t], seen, list, Candidates(cfg, seen, list, t), Len(list))]

\* Mutant: only a container that replaced another one is started.
Compared_OnlyWinners(cfg, seen, list, id) ==
    \E t \in DOMAIN cfg :
        LET cands == Candidates(cfg, seen, list, t)
        IN  \E i \in cands : /\ i # Min(cands)
                             /\ id = list[i]
                             /\ id = KeptAfter(cfg[t], seen, list, cands, i)

\* Whatever is not kept goes.  What was ever kept in a comparison is started.
Compared(cfg, seen, list, id) ==
    \E t \in DOMAIN cfg :
        LET cands == Candidates(cfg, seen, list, t)
        IN  \E i \in cands : /\ i # Min(cands)
                             /\ id = KeptAfter(cfg[t], seen, list, cands, i)

\* Mutant: the version of the kept container is not compared.
Suitable_AnyScore(target, seen, kept, tag) ==
    /\ target.useAny \/ ContainerVersionScore(target, tag) <= 1000
    /\ kept # 0 => tag # seen[kept].tag

\* Mutant: the tag of the kept container is not skipped.
Suitable_SameTag(target, seen, kept, tag) ==
    LET score == ContainerVersionScore(target, tag)
    IN  /\ target.useAny \/ score <= 1000
        /\ kept # 0 => score <= ContainerVersionScore(target, seen[kept].tag)

\* The tags that may take the place of the kept container (0: none).
Suitable(target, seen, kept, tag) ==
    LET score == ContainerVersionScore(target, tag)
    IN  /\ target.useAny \/ score <= 1000
        /\ kept # 0 => /\ tag # seen[kept].tag
                       /\ score <= ContainerVersionScore(target, seen[kept].tag)

\* The image the code selects: the last suitable one in Docker's order, none
\* if the kept container already has the first version.
Selected(target, seen, kept, tags) ==
    LET found == {i \in DOMAIN tags : Suitable(target, seen, kept, tags[i])}
    IN  IF \/ kept # 0 /\ ContainerVersionScore(target, seen[kept].tag) = 0
           \/ found = {}
          THEN {}
          ELSE {tags[Max(found)]}

\* Mutant: the container that is replaced is not deleted.
Plan_KeepsReplaced(cfg, seen, list, tags) ==
    LET kept == Kept(cfg, seen, list)
        new  == {p \in (DOMAIN cfg) \X Tags :
                    p[2] \in Selected(cfg[p[1]], seen, kept[p[1]], tags[p[1]])}
    IN  [delete |-> {id \in DOMAIN seen : \A t \in DOMAIN cfg : id # kept[t]},
         create |-> new,
         start  |-> {id \in DOMAIN seen : Compared(cfg, seen, list, id)}]

\* What a pass deletes, creates (a target and a tag) and starts, given the
\* lists of containers and, for each target, of tags.
Plan(cfg, seen, list, tags) ==
    LET kept == Kept(cfg, seen, list)
        new  == {p \in (DOMAIN cfg) \X Tags :
                    p[2] \in Selected(cfg[p[1]], seen, kept[p[1]], tags[p[1]])}
    IN  [delete |-> {id \in DOMAIN seen :
                        \A t \in DOMAIN cfg : id = kept[t] => \E p \in new : p[1] = t},
         create |-> new,
         start  |-> {id \in DOMAIN seen : Compared(cfg, seen, list, id)}]

(***************************************************************************)
(* Docker and the outside.                                                 *)
(***************************************************************************)

NoCtrs == [id \in {} |-> Absent]
Alive(w) == pc[w] # "dead"
MayFail(w, call) == <<w, call>> \in Faults

\* Docker reports a change to every daemon that lives.
Report == events' = [w \in Workers |-> pc'[w] # "dead"]

\* What the code's environment does behind the back of a pass.
Behind(w) == pc[w] \notin {"idle", "networks", "listing", "dead"}
MayDisturb == QuietPasses => \A w \in Workers : ~Behind(w)

Disturbed == clean' = [w \in Workers |-> clean[w] /\ ~Behind(w)]

\* The stop or the removal that a daemon waits for, if it can do anything.
UnderWay(w) ==
    IF pc[w] \in {"stopping", "removing"} /\ ctrs[victim[w]] # Absent
      THEN {<<pc[w], victim[w]>>} ELSE {}

\* Docker carries out a stop or a removal.  The daemon in the container dies,
\* its own request does not.
CarryOut(request, id, next) ==
    /\ \/ /\ request = "removing"
          /\ ctrs' = [ctrs EXCEPT ![id] = Absent]
       \/ /\ request = "stopping"
          /\ ctrs' = [ctrs EXCEPT ![id].state = IF @ = "running" THEN "exited" ELSE @]
    /\ pc' = [next EXCEPT ![id] = "dead"]
    /\ orphans' = {r \in orphans \cup UnderWay(id) :
                      r # <<request, id>> /\ ctrs'[r[2]] # Absent}
    /\ crossed' = (crossed \/ UnderWay(id) \ {<<request, id>>} # {})
    /\ Report

\* What w does to Docker disturbs the passes of the other daemons.
Meddled(w) == [v \in Workers |-> clean[v] /\ (v = w \/ ~Behind(v))]

\* A container stops by itself.
ContainerExits(id) ==
    /\ MayDisturb
    /\ exits < MaxExits
    /\ ctrs[id].state = "running"
    /\ ctrs[id].target # SelfTarget
    /\ ctrs' = [ctrs EXCEPT ![id].state = "exited"]
    /\ exits' = exits + 1
    /\ UNCHANGED pc
    /\ Report
    /\ Disturbed
    /\ UNCHANGED <<images, config, wake, plans, calls, stale, changes, crashes>>

\* An image is pulled, loaded or built.
ImageArrives(t, tag) ==
    /\ MayDisturb
    /\ changes < MaxChanges
    /\ tag \notin images[t]
    /\ images' = [images EXCEPT ![t] = @ \cup {tag}]
    /\ changes' = changes + 1
    /\ UNCHANGED pc
    /\ Report
    /\ Disturbed
    /\ stale' = [w \in Workers |-> Alive(w)]
    /\ UNCHANGED <<ctrs, config, wake, plans, calls, exits, crashes>>

\* Main has read another configuration: it cannot while a pass holds
\* ConfigLock, and it wakes the worker (see Daemon).
Reconfigured ==
    /\ changes < MaxChanges
    /\ \A w \in Workers : pc[w] \in {"idle", "networks", "flush", "dead"}
    /\ config' \in Configs \ {config}
    /\ wake' = [w \in Workers |-> Alive(w)]
    /\ changes' = changes + 1
    /\ Disturbed
    /\ UNCHANGED <<world, pc, events, plans, calls, stale, exits, crashes>>

\* The locals of processOnce are gone.
Forget(w) ==
    /\ nets' = [nets EXCEPT ![w] = {}]
    /\ listed' = [listed EXCEPT ![w] = NoCtrs]
    /\ toDelete' = [toDelete EXCEPT ![w] = {}]
    /\ victim' = [victim EXCEPT ![w] = 0]
    /\ toCreate' = [toCreate EXCEPT ![w] = {}]
    /\ toStart' = [toStart EXCEPT ![w] = {}]

\* The daemon that runs outside of a container dies and is started again: it
\* remembers nothing and begins with a pass.
Restarted ==
    /\ crashes < MaxCrashes
    /\ Alive(0)
    /\ crashes' = crashes + 1
    /\ pc' = [pc EXCEPT ![0] = "networks"]
    /\ events' = [events EXCEPT ![0] = FALSE]
    /\ wake' = [wake EXCEPT ![0] = FALSE]
    /\ Forget(0)
    /\ orphans' = orphans \cup UnderWay(0)
    /\ UNCHANGED <<world, config, crossed, clean, stale, exits, changes>>

\* Docker gets to what a daemon asked for that is dead.
OrphanCarriedOut ==
    /\ MayDisturb
    /\ \E r \in orphans : CarryOut(r[1], r[2], pc)
    /\ Disturbed
    /\ UNCHANGED <<images, config, wake, plans, stale, counts>>

Outside ==
    \/ \E id \in Ids : ContainerExits(id)
    \/ \E t \in Targets, tag \in Tags : ImageArrives(t, tag)
    \/ Reconfigured \/ Restarted \/ OrphanCarriedOut

(***************************************************************************)
(* One pass.                                                               *)
(***************************************************************************)

Goto(w, from, to) ==
    /\ pc[w] = from
    /\ pc' = [pc EXCEPT ![w] = to]

\* Out of the select of Run, by a wake or by an event.  After an event the
\* loop drains the wake that Main may already be sending.
Woken(w) ==
    /\ Goto(w, "idle", "networks")
    /\ \/ /\ wake[w]
          /\ wake' = [wake EXCEPT ![w] = FALSE]
          /\ UNCHANGED events
       \/ /\ events[w]
          /\ events' = [events EXCEPT ![w] = FALSE]
          /\ wake' \in {wake, [wake EXCEPT ![w] = FALSE]}
    /\ UNCHANGED <<world, config, plans, calls, clean, stale, counts>>

\* processNetworks: a target whose network cannot be listed, created or
\* found is not in netMap.
ProcessNetworks(w) ==
    /\ Goto(w, "networks", "listing")
    /\ \E found \in SUBSET (DOMAIN config) :
          /\ found = DOMAIN config \/ MayFail(w, "networks")
          /\ nets' = [nets EXCEPT ![w] = found]
          /\ clean' = [clean EXCEPT ![w] = (found = DOMAIN config)]
    /\ UNCHANGED <<world, config, events, wake, listed, toDelete, victim,
                   toCreate, toStart, calls, stale, counts>>

\* ContainerList with All: true.  After an error the pass goes on, two
\* seconds or a wake later, with an empty list.
ContainerList(w) ==
    /\ Goto(w, "listing", "images")
    /\ \/ /\ listed' = [listed EXCEPT ![w] =
                 [id \in {i \in Ids : ctrs[i].state # "gone"} |-> ctrs[id]]]
          /\ UNCHANGED <<wake, clean>>
       \/ /\ MayFail(w, "list")
          /\ listed' = [listed EXCEPT ![w] = NoCtrs]
          /\ wake' \in {wake, [wake EXCEPT ![w] = FALSE]}
          /\ clean' = [clean EXCEPT ![w] = FALSE]
    /\ UNCHANGED <<world, config, events, nets, toDelete, victim, toCreate,
                   toStart, calls, stale, counts>>

\* The lists of tags that Docker may answer with.
TagLists ==
    {tags \in [Targets -> UNION {SetToSeqs(images[t]) : t \in Targets}] :
        \A t \in Targets : Range(tags[t]) = images[t]}

\* ImageList, and the plan.  Neither list has an order one can rely on.  An
\* error ends the pass.
ImageList(w) ==
    \/ /\ Goto(w, "images", "deleting")
       /\ \E list \in SetToSeqs(DOMAIN listed[w]), tags \in TagLists :
             LET plan == Plan(config, listed[w], list, tags)
             IN  /\ toDelete' = [toDelete EXCEPT ![w] = plan.delete]
                 /\ toCreate' = [toCreate EXCEPT ![w] = plan.create]
                 /\ toStart' = [toStart EXCEPT ![w] = plan.start]
       /\ stale' = [stale EXCEPT ![w] = FALSE]
       /\ UNCHANGED <<world, config, events, wake, nets, listed, victim, calls, clean,
                      counts>>
    \/ /\ MayFail(w, "images")
       /\ Goto(w, "images", "flush")
       /\ clean' = [clean EXCEPT ![w] = FALSE]
       /\ UNCHANGED <<world, config, events, wake, plans, calls, stale, counts>>

\* The daemon w must not delete this container.
Protected(w, id) == id = w /\ Reflected /\ ~AllowSelfDelete

\* Mutant: the daemon does not look for itself.
ContainerStop_Ourselves(w, id) ==
    /\ pc[w] = "deleting"
    /\ id \in toDelete[w]
    /\ pc' = [pc EXCEPT ![w] = "stopping"]
    /\ toDelete' = [toDelete EXCEPT ![w] = @ \ {id}]
    /\ victim' = [victim EXCEPT ![w] = id]
    /\ UNCHANGED <<world, config, events, wake, nets, listed, toCreate, toStart, calls, clean,
                   stale, counts>>

\* The loop over containersToDelete, in any order: our own container is
\* skipped, any other is to be stopped, ...
Prevent(w) ==
    /\ pc[w] = "deleting"
    /\ \E id \in toDelete[w] : Protected(w, id)
    /\ toDelete' = [toDelete EXCEPT ![w] = @ \ {w}]
    /\ UNCHANGED <<world, config, pc, events, wake, nets, listed, victim,
                   toCreate, toStart, calls, clean, stale, counts>>

ContainerStop(w, id) ==
    /\ pc[w] = "deleting"
    /\ id \in toDelete[w]
    /\ ~Protected(w, id)
    /\ pc' = [pc EXCEPT ![w] = "stopping"]
    /\ toDelete' = [toDelete EXCEPT ![w] = @ \ {id}]
    /\ victim' = [victim EXCEPT ![w] = id]
    /\ UNCHANGED <<world, config, events, wake, nets, listed, toCreate, toStart, calls, clean,
                   stale, counts>>

\* ... in time it is, if Docker can, ...
ContainerStopped(w) ==
    /\ pc[w] = "stopping"
    /\ \/ /\ CarryOut("stopping", victim[w], [pc EXCEPT ![w] = "removing"])
          /\ clean' = Meddled(w)
       \/ /\ MayFail(w, "stop")
          /\ pc' = [pc EXCEPT ![w] = "removing"]
          /\ UNCHANGED <<ctrs, events, calls, clean>>
    /\ UNCHANGED <<images, config, wake, plans, stale, counts>>

\* ... and removed, by force: what the stop could not do, this does.
ContainerRemove(w) ==
    /\ pc[w] = "removing"
    /\ victim' = [victim EXCEPT ![w] = 0]
    /\ \/ /\ CarryOut("removing", victim[w], [pc EXCEPT ![w] = "deleting"])
          /\ clean' = Meddled(w)
       \/ /\ MayFail(w, "remove")
          /\ pc' = [pc EXCEPT ![w] = "deleting"]
          /\ clean' = [clean EXCEPT ![w] = FALSE]
          /\ UNCHANGED <<ctrs, events, calls>>
    /\ UNCHANGED <<images, config, wake, nets, listed, toDelete,
                   toCreate, toStart, stale, counts>>

DeleteDone(w) ==
    /\ toDelete[w] = {}
    /\ Goto(w, "deleting", "creating")
    /\ UNCHANGED <<world, config, events, wake, plans, calls, clean, stale, counts>>

\* A number that nothing refers to: Docker never gives an ID twice.
Fresh(id) ==
    /\ ctrs[id] = Absent
    /\ pc[id] = "dead"
    /\ \A w \in {v \in Workers : Alive(v)} :
          id # victim[w] /\ id \notin toDelete[w] \cup toStart[w] \cup DOMAIN listed[w]

\* Mutant: after an error the ID, which is empty, is to be started.
ContainerCreate_NoContinue(w, p) ==
    /\ pc[w] = "creating"
    /\ p \in toCreate[w]
    /\ toCreate' = [toCreate EXCEPT ![w] = @ \ {p}]
    /\ MayFail(w, "create")
    /\ clean' = [clean EXCEPT ![w] = FALSE]
    /\ toStart' = [toStart EXCEPT ![w] = @ \cup {0}]
    /\ UNCHANGED <<world, config, pc, events, wake, nets, listed, toDelete, victim, calls,
                   stale, counts>>

\* The loop over containersToCreate.  A missing network or an error skips it.
ContainerCreate(w, p) ==
    /\ pc[w] = "creating"
    /\ p \in toCreate[w]
    /\ toCreate' = [toCreate EXCEPT ![w] = @ \ {p}]
    /\ UNCHANGED pc
    /\ \/ \E id \in Ids :
          /\ Fresh(id) /\ \A lower \in 1 .. id - 1 : ~Fresh(lower)
          /\ p[1] \in nets[w]
          /\ ctrs' = [ctrs EXCEPT ![id] =
                         [target |-> p[1], tag |-> p[2], state |-> "created"]]
          /\ toStart' = [toStart EXCEPT ![w] = @ \cup {id}]
          /\ Report
          /\ clean' = Meddled(w)
       \/ /\ p[1] \notin nets[w] \/ MayFail(w, "create")
          /\ clean' = [clean EXCEPT ![w] = FALSE]
          /\ UNCHANGED <<ctrs, toStart, events>>
    /\ UNCHANGED <<images, config, wake, nets, listed, toDelete, victim, calls,
                   stale, counts>>

CreateDone(w) ==
    /\ toCreate[w] = {}
    /\ Goto(w, "creating", "starting")
    /\ UNCHANGED <<world, config, events, wake, plans, calls, clean, stale, counts>>

\* The loop over containersToStart, in any order.  Errors are ignored: there
\* may be no such container any more.  A container of deviced is a daemon.
ContainerStart(w, id) ==
    /\ pc[w] = "starting"
    /\ id \in toStart[w]
    /\ toStart' = [toStart EXCEPT ![w] = @ \ {id}]
    /\ \/ /\ ctrs[id].state # "gone"
          /\ ctrs' = [ctrs EXCEPT ![id].state = "running"]
          /\ pc' = [pc EXCEPT ![id] =
                       IF ctrs[id].target = SelfTarget /\ ctrs[id].state # "running"
                         THEN "networks" ELSE @]
          /\ Report
          /\ clean' = Meddled(w)
       \/ /\ ctrs[id].state = "gone" \/ MayFail(w, "start")
          /\ clean' = [clean EXCEPT ![w] = @ /\ ctrs[id].state = "gone"]
          /\ UNCHANGED <<ctrs, pc, events>>
    /\ UNCHANGED <<images, config, wake, nets, listed, toDelete,
                   victim, toCreate, calls, stale, counts>>

StartDone(w) ==
    /\ toStart[w] = {}
    /\ Goto(w, "starting", "flush")
    /\ UNCHANGED <<world, config, events, wake, plans, calls, clean, stale, counts>>

\* Run flushes the events and sleeps.  An event that the stream is about to
\* deliver may escape the flush.
Flush(w) ==
    /\ Goto(w, "flush", "idle")
    /\ events' \in {events, [events EXCEPT ![w] = FALSE]}
    /\ Forget(w)
    /\ UNCHANGED <<world, config, wake, calls, clean, stale, counts>>

Pass(w) ==
    \/ Woken(w) \/ ProcessNetworks(w) \/ ContainerList(w) \/ ImageList(w)
    \/ Prevent(w) \/ ContainerStopped(w) \/ ContainerRemove(w) \/ DeleteDone(w)
    \/ CreateDone(w) \/ StartDone(w) \/ Flush(w)
    \/ \E id \in Ids : ContainerStop(w, id) \/ ContainerStart(w, id)
    \/ \E p \in Targets \X Tags : ContainerCreate(w, p)

(***************************************************************************)
(* The specification.                                                      *)
(***************************************************************************)

\* One daemon is up: in a container of SelfTarget if there is a running one,
\* outside of any container otherwise.
Init ==
    /\ ctrs \in InitialCtrs
    /\ images \in InitialImages
    /\ config \in Configs
    /\ \E w \in Workers :
          /\ pc = [v \in Workers |-> IF v = w THEN "networks" ELSE "dead"]
          /\ IF w = 0
               THEN \A id \in Ids : ctrs[id].state = "running" => ctrs[id].target # SelfTarget
               ELSE ctrs[w].state = "running" /\ ctrs[w].target = SelfTarget
    /\ events = [w \in Workers |-> FALSE]
    /\ wake = [w \in Workers |-> FALSE]
    /\ nets = [w \in Workers |-> {}]
    /\ listed = [w \in Workers |-> NoCtrs]
    /\ toDelete = [w \in Workers |-> {}]
    /\ victim = [w \in Workers |-> 0]
    /\ toCreate = [w \in Workers |-> {}]
    /\ toStart = [w \in Workers |-> {}]
    /\ orphans = {} /\ crossed = FALSE
    /\ clean = [w \in Workers |-> FALSE]
    /\ stale = [w \in Workers |-> FALSE]
    /\ exits = 0 /\ changes = 0 /\ crashes = 0

Next == Outside \/ \E w \in Workers : Pass(w)

Spec == Init /\ [][Next]_vars

\* The worker is a goroutine that the scheduler runs; Docker answers.
FairSpec == Spec /\ \A w \in Workers : WF_vars(Pass(w))

(***************************************************************************)
(* Properties.                                                             *)
(***************************************************************************)

PCs == {"dead", "idle", "networks", "listing", "images", "deleting", "stopping",
        "removing", "creating", "starting", "flush"}

\* The types of the state of Docker and of the configuration, ...
WorldOK ==
    /\ ctrs \in [Ids -> Ctrs]
    /\ images \in [Targets -> SUBSET Tags]
    /\ config \in Configs

\* ... of the place where each daemon is, and of what is asked of Docker, ...
ControlOK ==
    /\ pc \in [Workers -> PCs]
    /\ victim \in [Workers -> 0 .. MaxIds]
    /\ orphans \subseteq {"stopping", "removing"} \X Ids

\* ... of what a pass computes: it stops and removes only what it has listed, ...
ListedOK ==
    /\ nets \in [Workers -> SUBSET Targets]
    /\ listed = [w \in Workers |-> listed[w]]
    /\ \A w \in Workers : /\ DOMAIN listed[w] \subseteq Ids
                          /\ listed[w] \in [DOMAIN listed[w] -> Ctrs]
    /\ toDelete \in [Workers -> SUBSET Ids]
    /\ toCreate \in [Workers -> SUBSET (Targets \X Tags)]
    /\ toStart \in [Workers -> SUBSET Ids]
    /\ \A w \in Workers :
          /\ pc[w] \in {"deleting", "stopping", "removing"} =>
                toDelete[w] \subseteq DOMAIN listed[w]
          /\ pc[w] \in {"stopping", "removing"} => victim[w] \in DOMAIN listed[w]

\* ... and of the rest.
FlagsOK ==
    /\ events \in [Workers -> BOOLEAN]
    /\ wake \in [Workers -> BOOLEAN]
    /\ clean \in [Workers -> BOOLEAN]
    /\ stale \in [Workers -> BOOLEAN]
    /\ crossed \in BOOLEAN

CountsOK ==
    /\ exits \in 0 .. MaxExits
    /\ changes \in 0 .. MaxChanges
    /\ crashes \in 0 .. MaxCrashes

\* The values every variable may take; what a pass stops and removes, it has
\* listed, and what it starts has an ID.
TypeOK == WorldOK /\ ControlOK /\ ListedOK /\ FlagsOK /\ CountsOK

Present  == {id \in Ids : ctrs[id].state # "gone"}
Of(t)    == {id \in Present : ctrs[id].target = t}
Running(t) == {id \in Of(t) : ctrs[id].state = "running"}
Score(t, tag) == ContainerVersionScore(config[t], tag)

\* At the end of a pass in which nothing failed and nothing else changed.
Settled(w) == pc[w] = "flush" /\ clean[w]

\* "attempts to reconcile" (README.md:22): such a pass leaves, apart from the
\* daemon's own container, no container without a target, at most one for
\* each, and none that does not run unless it may be restarted.
PassReconciles ==
    \A w \in Workers : Settled(w) =>
        \A id \in Present \ {w} :
            LET t == ctrs[id].target
            IN  /\ t \in DOMAIN config
                /\ Of(t) \ {w, id} = {}
                /\ ctrs[id].state = "running" \/ config[t].restartExited

\* "uptime management" (README.md:4): such a pass never takes down a target:
\* one that ran when it was listed runs when the pass ends.
NoOutage ==
    \A w \in Workers : Settled(w) =>
        \A t \in DOMAIN config :
            (\E id \in DOMAIN listed[w] : /\ listed[w][id].target = t
                                          /\ listed[w][id].state = "running")
                => Running(t) # {}

\* A target that had one container is never moved to a version further down
\* its list (containersync/worker.go:271).
NoDowngrade ==
    \A w \in Workers : Settled(w) =>
        \A t \in DOMAIN config :
            LET had == {id \in DOMAIN listed[w] : listed[w][id].target = t}
            IN  \A old \in had, id \in Running(t) :
                    had = {old} /\ listed[w][old].state = "running" =>
                        Score(t, ctrs[id].tag) <= Score(t, listed[w][old].tag)

\* A target never gets a second running container: what is replaced is
\* stopped before its replacement starts (two may share a port or a volume).
OneAtATime ==
    [][\A t \in Targets :
          Cardinality(Running(t)') > Cardinality(Running(t)) => Running(t) = {}]_vars

\* The loop comes to rest ("if this loop identifies that no changes need to
\* be made it will exit", README.md:25) with every target that has a listed
\* image in one container, which runs unless it may be restarted; a crash of
\* the daemon between any two calls included.
Convergence ==
    <>[](\A t \in DOMAIN config :
            /\ ~config[t].useAny
            /\ \E tag \in images[t] : Score(t, tag) # Unlisted
            => /\ Cardinality(Of(t)) = 1
               /\ config[t].restartExited \/ Cardinality(Running(t)) = 1)

\* "Deviced will never delete itself" (README.md:35): whatever daemons do to
\* each other's containers, one of them lives.
AlwaysADaemon == \E w \in Workers : Alive(w)

\* Stops that fail, daemons that have not got far, a newer one that has not
\* started: none of it leaves the device without a daemon.  That takes a daemon
\* that was killed with a stop or a removal of its own under way, as when two
\* daemons stop each other (containersync/worker.go:313-319, :373-377).
DiesOutOnlyCrossed == AlwaysADaemon \/ crossed

\* "it will create a new container first, start it, THEN it expects the new
\* container to delete the old" (README.md:36): a daemon never stops the
\* container of one with a better version.
NewDeletesOld ==
    [][\A v, w \in Ids :
          /\ pc[v] = "deleting" /\ pc'[v] = "stopping"
          /\ w = victim'[v] /\ pc[w] # "dead"
          => Score(SelfTarget, ctrs[v].tag) <= Score(SelfTarget, ctrs[w].tag)]_vars

\* "It will then select the best available version of the image"
\* (README.md:8): what a pass will create has the best score that Docker has.
SelectsBest ==
    \A w \in Workers : pc[w] = "creating" =>
        \A p \in toCreate[w] : \A tag \in images[p[1]] :
            Score(p[1], p[2]) <= Score(p[1], tag)

\* "We want to re-check with the following events: pull, tag, import"
\* (containersync/worker.go:448): a worker that sleeps with no event and no
\* wake pending has listed the images since the last one arrived.
EventsNotLost ==
    \A w \in Workers : pc[w] = "idle" /\ ~events[w] /\ ~wake[w] => ~stale[w]

=============================================================================
