------------------------------- MODULE Daemon -------------------------------
(***************************************************************************)
(* The goroutines of deviced and everything they share.                    *)
(*                                                                         *)
(*   main  System.Main (pkg/daemon/system.go): starts the workers, waits   *)
(*         for a signal or for a file-system event on the configuration    *)
(*         file, re-reads the file and wakes the workers.                  *)
(*   iw    ImageSyncWorker.Run (pkg/imagesync/worker.go): pulls images.    *)
(*   cw    ContainerSyncWorker.Run (pkg/containersync/worker.go): makes    *)
(*         the containers match the configuration.                         *)
(*                                                                         *)
(* A step is one synchronisation of the code: a lock, an unlock, a channel *)
(* send or receive, one access to a variable that no lock protects.  What  *)
(* a worker does to Docker in a pass is the subject of other modules; here *)
(* a pass only notes which configuration it works on and which wakes and   *)
(* events it causes.  Memory is sequentially consistent.                   *)
(***************************************************************************)
EXTENDS Naturals, FiniteSets

CONSTANTS
    MaxEdits,      \* bound: edits of the configuration file
    MaxRepos,      \* bound: repositories in the configuration
    PullPrefixed,  \* a configured repository has a PullPrefix
    Rechecks,      \* ImageConfig.RecheckPeriod is at least 1
    Disturbances   \* what the environment may do beside editing the file

Kinds == {"signal", "dockerChanges", "badConfig", "partialConfig", "noFile",
          "newWatcher", "dockerDown", "streamLost", "listError", "imageError"}

ASSUME DaemonAssumption ==
    /\ MaxEdits \in Nat
    /\ MaxRepos \in Nat \ {0}
    /\ PullPrefixed \in BOOLEAN
    /\ Rechecks \in BOOLEAN
    /\ Disturbances \subseteq Kinds

VARIABLES
    pc,            \* where each goroutine is
    proc,          \* the operating system process
    file,          \* the configuration file: version and what it holds
    watch,         \* System.ConfigWatcher
    fsEvent,       \* an event waits in the watcher's Events channel
    sig,           \* a signal waits in the channel c of Main
    config,        \* System.Config
    configLock,    \* System.ConfigLock: its holder
    workerLock,    \* System.WorkerLock: its holder
    timer,         \* ImageSyncWorker.RecheckTimer: nil or set
    armed,         \* the timer created last will fire
    iwRunning,     \* ImageSyncWorker.Running
    iwWake,        \* ImageSyncWorker.WakeChannel (capacity 1) is full
    iwQuit,        \* ImageSyncWorker.QuitChannel (capacity 1) is full
    unsolved,      \* ImageSyncWorker.UnsolvedReqs
    iwTrigger,     \* shouldTriggerContainerCheck
    iwRepo,        \* repositories this pass has still to visit
    iwSeen,        \* configuration of the last image pass
    cwRunning,     \* ContainerSyncWorker.Running
    cwClosed,      \* ContainerSyncWorker.WakeChannel is closed
    cwSeen,        \* configuration of the last container pass
    events,        \* Docker events wait for cw's EventsChannel
    stream         \* the Docker event stream

ctl     == <<pc, proc>>
os      == <<file, watch, fsEvent, sig>>
shared  == <<config, configLock, workerLock>>
timing  == <<timer, armed>>
iwVars  == <<iwRunning, iwWake, iwQuit, unsolved, iwTrigger, iwRepo, iwSeen>>
cwVars  == <<cwRunning, cwClosed, cwSeen>>
docker  == <<events, stream>>
vars    == <<ctl, os, shared, timing, iwVars, cwVars, docker>>

Threads == {"main", "iw", "cw"}

MainPC == {"initConfig", "initWorkers", "initWatchers", "select", "lockConfig",
           "readFrom", "unlockOk", "unlockErr", "confCheck", "confStop",
           "confClear", "wakeImage", "wakeContainer", "rewatch", "quitCw",
           "quitIw", "exit"}
IwPC   == {"unborn", "first", "passCheck", "passStop", "passClear",
           "resetUnsolved", "lockConfig", "lockWorker", "plan", "repo",
           "wakeContainer", "flush", "unlockWorker", "unlockConfig", "again",
           "sleepCheck", "sleepStop", "sleepClear", "timerLock", "timerNew",
           "timerSet", "timerUnlock", "enterSelect", "select", "done"}
CwPC   == {"unborn", "top", "drain", "lockConfig", "lockWorker", "listing",
           "backoff", "images", "work", "unlockWorker", "unlockConfig",
           "flush", "select", "done"}

Forms    == {"good", "bad", "partial", "missing"}
Versions == 0 .. MaxEdits + 1

(***************************************************************************)
(* Control.                                                                *)
(***************************************************************************)

\* Goroutine t moves from one point of its code to the next.
Go(t, from, to) ==
    /\ proc = "up"
    /\ pc[t] = from
    /\ pc' = [pc EXCEPT ![t] = to]
    /\ UNCHANGED proc

\* Goroutine t ends the process at this point of its code.
End(t, at, how) ==
    /\ proc = "up"
    /\ pc[t] = at
    /\ proc' = how
    /\ UNCHANGED pc

\* sync.Mutex.Lock and Unlock on the two locks.
LockConfig(t)   == configLock = "free" /\ configLock' = t
UnlockConfig    == configLock' = "free"
LockWorker(t)   == workerLock = "free" /\ workerLock' = t
UnlockWorker    == workerLock' = "free"

\* Goroutines blocked in a send on the container worker's unbuffered channel,
\* and where each continues once the value has been taken.
Offering  == {t \in {"main", "iw"} : pc[t] = "wakeContainer"}
AfterSend == [main |-> "rewatch", iw |-> "flush"]

\* The container worker, at `from', takes the value that s offers.
Receive(s, from, to) ==
    /\ proc = "up"
    /\ ~cwClosed
    /\ pc["cw"] = from
    /\ s \in Offering
    /\ pc' = [pc EXCEPT !["cw"] = to, ![s] = AfterSend[s]]
    /\ UNCHANGED proc

\* killRecheckTimer, called by goroutine t: it reads RecheckTimer twice and
\* clears it, and holds no lock.
killRecheckTimer(t, check, stop, clear, next) ==
    \/ /\ Go(t, check, IF timer = "nil" THEN next ELSE stop)
       /\ UNCHANGED timing
    \/ /\ timer # "nil"
       /\ Go(t, stop, clear)
       /\ armed' = FALSE
       /\ UNCHANGED timer
    \/ /\ timer = "nil"
       /\ End(t, stop, "panicked")
       /\ UNCHANGED timing
    \/ /\ Go(t, clear, next)
       /\ timer' = "nil"
       /\ UNCHANGED armed

(***************************************************************************)
(* The outside: a user edits the file, others change Docker, a signal.     *)
(***************************************************************************)

\* The user saves a new version of the file, breaks it or removes it.
EditFile ==
    /\ proc = "up"
    /\ file.version < MaxEdits + 1
    /\ \E form \in Forms :
          /\ form = "bad"     => "badConfig" \in Disturbances
          /\ form = "partial" => "partialConfig" \in Disturbances
          /\ form = "missing" => "noFile" \in Disturbances
          /\ file' = [version |-> file.version + 1, form |-> form]
    /\ fsEvent' = (fsEvent \/ watch = "live")
    /\ UNCHANGED <<ctl, watch, sig, shared, timing, iwVars, cwVars, docker>>

\* Docker's state changes and Docker reports it, if anyone still listens.
DockerChanges == events' = (events \/ stream = "live")

\* A container dies, an image is loaded by hand.
WorldChanges ==
    /\ proc = "up"
    /\ "dockerChanges" \in Disturbances
    /\ pc["cw"] # "unborn"
    /\ DockerChanges
    /\ UNCHANGED <<ctl, os, shared, timing, iwVars, cwVars, stream>>

\* The connection that carries the events breaks.  The error goes to
\* ErrorsChannel, which nobody reads, and no code restarts the stream.
StreamLost ==
    /\ proc = "up"
    /\ "streamLost" \in Disturbances
    /\ pc["cw"] # "unborn"
    /\ stream = "live"
    /\ stream' = "lost"
    /\ UNCHANGED <<ctl, os, shared, timing, iwVars, cwVars, events>>

\* SIGINT or SIGTERM, once signal.Notify has been called.
Signal ==
    /\ proc = "up"
    /\ "signal" \in Disturbances
    /\ pc["cw"] # "unborn"
    /\ ~sig
    /\ sig' = TRUE
    /\ UNCHANGED <<ctl, file, watch, fsEvent, shared, timing, iwVars, cwVars,
                   docker>>

(***************************************************************************)
(* System.Main.                                                            *)
(***************************************************************************)

NoConfig == [version |-> 0, whole |-> TRUE]

\* What ReadFrom leaves in System.Config, given the file: yaml.Unmarshal
\* stops before the first field on a syntax error, but decodes what it can
\* when only some fields have the wrong type.
AfterRead ==
    CASE file.form = "good"    -> [version |-> file.version, whole |-> TRUE]
      [] file.form = "partial" -> [version |-> file.version, whole |-> FALSE]
      [] OTHER                 -> config

\* initConfig: CreateOrRead writes the defaults if there is no file.
initConfig ==
    /\ IF file.form = "missing"
         THEN /\ file' = [file EXCEPT !.form = "good"]
              /\ config' = [version |-> file.version, whole |-> TRUE]
              /\ Go("main", "initConfig", "initWorkers")
         ELSE /\ UNCHANGED file
              /\ config' = AfterRead
              /\ IF file.form = "good"
                   THEN Go("main", "initConfig", "initWorkers")
                   ELSE End("main", "initConfig", "exited")
    /\ UNCHANGED <<watch, fsEvent, sig, configLock, workerLock, timing,
                   iwVars, cwVars, docker>>

\* initWorkers: Docker must answer; the container worker subscribes to the
\* events and both workers are initialised.
initWorkers ==
    /\ \/ /\ Go("main", "initWorkers", "initWatchers")
          /\ stream' = "live"
          /\ iwRunning' = TRUE
          /\ cwRunning' = TRUE
       \/ /\ "dockerDown" \in Disturbances
          /\ End("main", "initWorkers", "exited")
          /\ UNCHANGED <<stream, iwRunning, cwRunning>>
    /\ UNCHANGED <<os, shared, timing, iwWake, iwQuit, unsolved, iwTrigger,
                   iwRepo, iwSeen, cwClosed, cwSeen, events>>

\* DevicedConfigWatcher.Init: a watcher whose Add failed never reports, one
\* that could not be made leaves a nil pointer.
Watched ==
    LET added == IF file.form = "missing" THEN "deaf" ELSE "live"
    IN  IF "newWatcher" \in Disturbances THEN {added, "nil"} ELSE {added}

\* initWatchers before the loop, and the two go statements.
startWatching ==
    /\ \E w \in Watched :
          /\ watch' = w
          /\ IF w = "live"
               THEN /\ proc = "up"
                    /\ pc["main"] = "initWatchers"
                    /\ pc' = [main |-> "select", iw |-> "first", cw |-> "top"]
                    /\ UNCHANGED proc
               ELSE End("main", "initWatchers", "exited")
    /\ UNCHANGED <<file, fsEvent, sig, shared, timing, iwVars, cwVars, docker>>

\* The select of Main: an event closes the watcher (and one second later
\* the file is read), a signal ends the loop.
takeEvent ==
    /\ fsEvent
    /\ Go("main", "select", "lockConfig")
    /\ watch' = "closed"
    /\ fsEvent' = FALSE
    /\ UNCHANGED <<file, sig, shared, timing, iwVars, cwVars, docker>>

\* Mutant: break leaves the select and keepRunning stays true.
takeSignal_BreakOnly ==
    /\ sig
    /\ watch # "nil"
    /\ Go("main", "select", "select")
    /\ sig' = FALSE
    /\ UNCHANGED <<file, watch, fsEvent, shared, timing, iwVars, cwVars, docker>>

takeSignal ==
    /\ sig
    /\ watch # "nil"
    /\ Go("main", "select", "quitCw")
    /\ sig' = FALSE
    /\ UNCHANGED <<file, watch, fsEvent, shared, timing, iwVars, cwVars, docker>>

nilWatcher ==
    /\ watch = "nil"
    /\ End("main", "select", "panicked")
    /\ UNCHANGED <<os, shared, timing, iwVars, cwVars, docker>>

\* Mutant: the file is read without the lock.
lockToRead_NoLock ==
    /\ Go("main", "lockConfig", "readFrom")
    /\ UNCHANGED <<os, shared, timing, iwVars, cwVars, docker>>

lockToRead ==
    /\ Go("main", "lockConfig", "readFrom")
    /\ LockConfig("main")
    /\ UNCHANGED <<os, config, workerLock, timing, iwVars, cwVars, docker>>

readFrom ==
    /\ Go("main", "readFrom",
          IF file.form = "good" THEN "unlockOk" ELSE "unlockErr")
    /\ config' = AfterRead
    /\ UNCHANGED <<os, configLock, workerLock, timing, iwVars, cwVars, docker>>

\* Mutant: the workers are not woken after a reload.
unlockRead_NoWake ==
    /\ \/ Go("main", "unlockOk", "rewatch")
       \/ Go("main", "unlockErr", "rewatch")
    /\ UnlockConfig
    /\ UNCHANGED <<os, config, workerLock, timing, iwVars, cwVars, docker>>

\* After the unlock, err decides whether the workers hear of it.
unlockRead ==
    /\ \/ Go("main", "unlockOk", "confCheck")
       \/ Go("main", "unlockErr", "rewatch")
    /\ UnlockConfig
    /\ UNCHANGED <<os, config, workerLock, timing, iwVars, cwVars, docker>>

\* triggerConfRecheck, that is ImageSyncWorker.RecheckConfig.
triggerConfRecheck ==
    /\ killRecheckTimer("main", "confCheck", "confStop", "confClear", "wakeImage")
    /\ UNCHANGED <<os, shared, iwVars, cwVars, docker>>

\* wakeWorkers, first send: the image worker's channel buffers one value.
\* The second, to the container worker, is an offer: see Offering.
wakeImage ==
    /\ ~iwWake
    /\ Go("main", "wakeImage", "wakeContainer")
    /\ iwWake' = TRUE
    /\ UNCHANGED <<os, shared, timing, iwRunning, iwQuit, unsolved, iwTrigger,
                   iwRepo, iwSeen, cwVars, docker>>

\* initWatchers at the end of the loop: its result is ignored.
rewatch ==
    /\ Go("main", "rewatch", "select")
    /\ watch' \in Watched
    /\ UNCHANGED <<file, fsEvent, sig, shared, timing, iwVars, cwVars, docker>>

\* closeWorkers: ContainerSyncWorker.Quit, then ImageSyncWorker.Quit.
quitContainerWorker ==
    /\ Go("main", "quitCw", "quitIw")
    /\ cwRunning' = FALSE
    /\ cwClosed' = TRUE
    /\ UNCHANGED <<os, shared, timing, iwVars, cwSeen, docker>>

quitImageWorker ==
    /\ Go("main", "quitIw", "exit")
    /\ iwRunning' = FALSE
    /\ iwQuit' = TRUE
    /\ UNCHANGED <<os, shared, timing, iwWake, unsolved, iwTrigger, iwRepo,
                   iwSeen, cwVars, docker>>

\* closeWatchers, and Main returns: the process ends, whatever the workers do.
mainReturns ==
    /\ End("main", "exit", "exited")
    /\ watch' = "closed"
    /\ UNCHANGED <<file, fsEvent, sig, shared, timing, iwVars, cwVars, docker>>

Startup == initConfig \/ initWorkers \/ startWatching
Reload  == takeEvent \/ lockToRead \/ readFrom \/ unlockRead
              \/ triggerConfRecheck \/ wakeImage \/ rewatch
Shutdown == takeSignal \/ quitContainerWorker \/ quitImageWorker \/ mainReturns
Main == Startup \/ Reload \/ Shutdown \/ nilWatcher

(***************************************************************************)
(* ImageSyncWorker.Run.                                                    *)
(***************************************************************************)

\* Mutant: the wake channel is flushed before the worker goes to sleep,
\* outside the lock, and not during the pass.
iwLoop_LateFlush ==
    /\ \/ Go("iw", "first", IF iwRunning THEN "passCheck" ELSE "done")
       \/ Go("iw", "again", IF iwRunning THEN "sleepCheck" ELSE "done")
    /\ iwWake' = FALSE
    /\ UNCHANGED <<os, shared, timing, iwRunning, iwQuit, unsolved, iwTrigger,
                   iwRepo, iwSeen, cwVars, docker>>

\* for iw.Running: doRecheck is true before the first pass only.
iwLoop ==
    /\ \/ Go("iw", "first", IF iwRunning THEN "passCheck" ELSE "done")
       \/ Go("iw", "again", IF iwRunning THEN "sleepCheck" ELSE "done")
    /\ UNCHANGED <<os, shared, timing, iwVars, cwVars, docker>>

\* processOnce begins by killing the timer and forgetting UnsolvedReqs,
\* both without a lock.
iwKillTimer ==
    /\ killRecheckTimer("iw", "passCheck", "passStop", "passClear", "resetUnsolved")
    /\ UNCHANGED <<os, shared, iwVars, cwVars, docker>>

iwResetUnsolved ==
    /\ Go("iw", "resetUnsolved", "lockConfig")
    /\ unsolved' = FALSE
    /\ UNCHANGED <<os, shared, timing, iwRunning, iwWake, iwQuit, iwTrigger,
                   iwRepo, iwSeen, cwVars, docker>>

iwLockConfig ==
    /\ Go("iw", "lockConfig", "lockWorker")
    /\ LockConfig("iw")
    /\ UNCHANGED <<os, config, workerLock, timing, iwVars, cwVars, docker>>

iwLockWorker ==
    /\ Go("iw", "lockWorker", "plan")
    /\ LockWorker("iw")
    /\ UNCHANGED <<os, config, configLock, timing, iwVars, cwVars, docker>>

\* Mutant: a configuration without repositories is not sent back.
iwPlan_NoRepoCheck ==
    /\ iwSeen' = config
    /\ iwTrigger' = FALSE
    /\ iwRepo' \in 0 .. MaxRepos
    /\ Go("iw", "plan", "repo")
    /\ UNCHANGED <<os, shared, timing, iwRunning, iwWake, iwQuit, unsolved,
                   cwVars, docker>>

\* Mutant: the locks are released before the slow part of the pass.
iwPlan_EarlyUnlock ==
    /\ iwSeen' = config
    /\ iwTrigger' = FALSE
    /\ iwRepo' \in 1 .. MaxRepos
    /\ Go("iw", "plan", "repo")
    /\ UnlockWorker
    /\ UnlockConfig
    /\ UNCHANGED <<os, config, timing, iwRunning, iwWake, iwQuit, unsolved,
                   cwVars, docker>>

\* No repositories, no image list or nothing to fetch: the pass is over.
\* Otherwise it visits every repository of the configuration.
iwPlan ==
    /\ iwSeen' = config
    /\ iwTrigger' = FALSE
    /\ \/ /\ Go("iw", "plan", "unlockWorker")
          /\ iwRepo' = 0
       \/ /\ Go("iw", "plan", "repo")
          /\ iwRepo' \in 1 .. MaxRepos
    /\ UNCHANGED <<os, shared, timing, iwRunning, iwWake, iwQuit, unsolved,
                   cwVars, docker>>

\* One repository.  Pulling and tagging change Docker, which reports it.
\* An image that was tagged asks for a container check; a target that found
\* nothing, or not its best version, is left unsolved.
iwRepository ==
    \E changed, matched, tagged, left \in BOOLEAN :
        /\ tagged => matched /\ PullPrefixed
        /\ IF changed THEN DockerChanges ELSE UNCHANGED events
        /\ iwTrigger' = (iwTrigger \/ tagged)
        /\ unsolved' = (unsolved \/ ~matched \/ left)
        /\ Go("iw", "repo", IF iwTrigger' THEN "wakeContainer" ELSE "flush")
        /\ UNCHANGED <<os, shared, timing, iwRunning, iwWake, iwQuit, iwRepo,
                       iwSeen, cwVars, stream>>

\* Flush the wake channel, then the next repository.
iwFlush ==
    /\ Go("iw", "flush", IF iwRepo = 1 THEN "unlockWorker" ELSE "repo")
    /\ iwWake' = FALSE
    /\ iwRepo' = iwRepo - 1
    /\ iwTrigger' = (iwTrigger /\ iwRepo # 1)
    /\ UNCHANGED <<os, shared, timing, iwRunning, iwQuit, unsolved, iwSeen,
                   cwVars, docker>>

\* A send on the channel that Quit has closed.
iwSendOnClosed ==
    /\ cwClosed
    /\ End("iw", "wakeContainer", "panicked")
    /\ UNCHANGED <<os, shared, timing, iwVars, cwVars, docker>>

\* The deferred unlocks.
iwUnlockWorker ==
    /\ Go("iw", "unlockWorker", "unlockConfig")
    /\ UnlockWorker
    /\ UNCHANGED <<os, config, configLock, timing, iwVars, cwVars, docker>>

iwUnlockConfig ==
    /\ Go("iw", "unlockConfig", "again")
    /\ UnlockConfig
    /\ UNCHANGED <<os, config, workerLock, timing, iwVars, cwVars, docker>>

\* initRecheckTimer: kill the old timer, then, under ConfigLock, make a new
\* one and either stop it or set it to the configured period.
iwKillOldTimer ==
    /\ killRecheckTimer("iw", "sleepCheck", "sleepStop", "sleepClear", "timerLock")
    /\ UNCHANGED <<os, shared, iwVars, cwVars, docker>>

iwTimerLock ==
    /\ Go("iw", "timerLock", "timerNew")
    /\ LockConfig("iw")
    /\ UNCHANGED <<os, config, workerLock, timing, iwVars, cwVars, docker>>

iwTimerNew ==
    /\ Go("iw", "timerNew", "timerSet")
    /\ timer' = "set"
    /\ armed' = TRUE
    /\ UNCHANGED <<os, shared, iwVars, cwVars, docker>>

\* Mutant: the condition that stops the timer is turned round.
iwTimerSet_Inverted ==
    /\ IF timer = "nil"
         THEN /\ End("iw", "timerSet", "panicked")
              /\ UNCHANGED armed
         ELSE /\ Go("iw", "timerSet", "timerUnlock")
              /\ armed' = (Rechecks /\ ~unsolved)
    /\ UNCHANGED <<os, shared, timer, iwVars, cwVars, docker>>

iwTimerSet ==
    /\ IF timer = "nil"
         THEN /\ End("iw", "timerSet", "panicked")
              /\ UNCHANGED armed
         ELSE /\ Go("iw", "timerSet", "timerUnlock")
              /\ armed' = (Rechecks /\ unsolved)
    /\ UNCHANGED <<os, shared, timer, iwVars, cwVars, docker>>

iwTimerUnlock ==
    /\ Go("iw", "timerUnlock", "enterSelect")
    /\ UnlockConfig
    /\ UNCHANGED <<os, config, workerLock, timing, iwVars, cwVars, docker>>

\* Entering the select evaluates iw.RecheckTimer.C.
iwEnterSelect ==
    /\ IF timer = "nil" THEN End("iw", "enterSelect", "panicked")
                        ELSE Go("iw", "enterSelect", "select")
    /\ UNCHANGED <<os, shared, timing, iwVars, cwVars, docker>>

iwQuits ==
    /\ iwQuit
    /\ Go("iw", "select", "done")
    /\ iwQuit' = FALSE
    /\ UNCHANGED <<os, shared, timing, iwRunning, iwWake, unsolved, iwTrigger,
                   iwRepo, iwSeen, cwVars, docker>>

iwWoken ==
    /\ iwWake
    /\ Go("iw", "select", "passCheck")
    /\ iwWake' = FALSE
    /\ UNCHANGED <<os, shared, timing, iwRunning, iwQuit, unsolved, iwTrigger,
                   iwRepo, iwSeen, cwVars, docker>>

iwTimerElapses ==
    /\ armed
    /\ Go("iw", "select", "passCheck")
    /\ armed' = FALSE
    /\ UNCHANGED <<os, shared, timer, iwVars, cwVars, docker>>

ImagePass  == iwKillTimer \/ iwResetUnsolved \/ iwLockConfig \/ iwLockWorker
                \/ iwPlan \/ iwRepository \/ iwFlush \/ iwSendOnClosed
                \/ iwUnlockWorker \/ iwUnlockConfig
ImageSleep == iwKillOldTimer \/ iwTimerLock \/ iwTimerNew \/ iwTimerSet
                \/ iwTimerUnlock \/ iwEnterSelect \/ iwQuits \/ iwTimerElapses
ImageWorker == iwLoop \/ ImagePass \/ ImageSleep \/ iwWoken

(***************************************************************************)
(* ContainerSyncWorker.Run.                                                *)
(***************************************************************************)

cwLoop ==
    /\ Go("cw", "top", IF cwRunning THEN "drain" ELSE "done")
    /\ UNCHANGED <<os, shared, timing, iwVars, cwVars, docker>>

\* The non-blocking receive loop at the top.  A sender may not have reached
\* its send yet, so the default is always possible on an open channel; a
\* closed channel is always ready and the loop never ends.
cwDrain ==
    /\ \/ ~cwClosed /\ Go("cw", "drain", "lockConfig")
       \/ \E s \in {"main", "iw"} : Receive(s, "drain", "drain")
    /\ UNCHANGED <<os, shared, timing, iwVars, cwVars, docker>>

cwLockConfig ==
    /\ Go("cw", "lockConfig", "lockWorker")
    /\ LockConfig("cw")
    /\ UNCHANGED <<os, config, workerLock, timing, iwVars, cwVars, docker>>

cwLockWorker ==
    /\ Go("cw", "lockWorker", "listing")
    /\ LockWorker("cw")
    /\ UNCHANGED <<os, config, configLock, timing, iwVars, cwVars, docker>>

\* ContainerList: the pass works on the containers of this moment.  After an
\* error it waits and works on an empty list.
cwList ==
    /\ cwSeen' = config
    /\ \/ Go("cw", "listing", "images")
       \/ /\ "listError" \in Disturbances
          /\ Go("cw", "listing", "backoff")
    /\ UNCHANGED <<os, shared, timing, iwVars, cwRunning, cwClosed, docker>>

\* sleepShouldQuit, with both locks held: two seconds, or a wake, or Quit.
cwBackoff ==
    /\ \/ Go("cw", "backoff", "images")
       \/ \E s \in {"main", "iw"} : Receive(s, "backoff", "images")
       \/ cwClosed /\ Go("cw", "backoff", "unlockWorker")
    /\ UNCHANGED <<os, shared, timing, iwVars, cwVars, docker>>

\* ImageList: an error ends the pass.
cwImages ==
    /\ \/ Go("cw", "images", "work")
       \/ /\ "imageError" \in Disturbances
          /\ Go("cw", "images", "unlockWorker")
    /\ UNCHANGED <<os, shared, timing, iwVars, cwVars, docker>>

\* Stop, remove, create and start: what is done is reported as events.
cwWork ==
    /\ Go("cw", "work", "unlockWorker")
    /\ events' \in {events, events \/ stream = "live"}
    /\ UNCHANGED <<os, shared, timing, iwVars, cwVars, stream>>

cwUnlockWorker ==
    /\ Go("cw", "unlockWorker", "unlockConfig")
    /\ UnlockWorker
    /\ UNCHANGED <<os, config, configLock, timing, iwVars, cwVars, docker>>

cwUnlockConfig ==
    /\ Go("cw", "unlockConfig", "flush")
    /\ UnlockConfig
    /\ UNCHANGED <<os, config, workerLock, timing, iwVars, cwVars, docker>>

\* Flush the events: those that came during the pass are dropped.  One that
\* the stream is about to deliver may escape.
cwFlush ==
    /\ Go("cw", "flush", "select")
    /\ events' \in {FALSE, events}
    /\ UNCHANGED <<os, shared, timing, iwVars, cwVars, stream>>

cwWoken ==
    /\ \E s \in {"main", "iw"} : Receive(s, "select", "top")
    /\ UNCHANGED <<os, shared, timing, iwVars, cwVars, docker>>

cwQuits ==
    /\ cwClosed
    /\ Go("cw", "select", "done")
    /\ UNCHANGED <<os, shared, timing, iwVars, cwVars, docker>>

\* An image, network or container event, and one second of sleep.
cwEvent ==
    /\ events
    /\ Go("cw", "select", "top")
    /\ events' = FALSE
    /\ UNCHANGED <<os, shared, timing, iwVars, cwVars, stream>>

ContainerPass   == cwDrain \/ cwLockConfig \/ cwLockWorker \/ cwList \/ cwBackoff
                     \/ cwImages \/ cwWork \/ cwUnlockWorker \/ cwUnlockConfig
                     \/ cwFlush
ContainerWorker == cwLoop \/ ContainerPass \/ cwQuits \/ cwEvent \/ cwWoken

(***************************************************************************)
(* The specification.                                                      *)
(***************************************************************************)

Init ==
    /\ pc = [main |-> "initConfig", iw |-> "unborn", cw |-> "unborn"]
    /\ proc = "up"
    /\ file \in [version : {1}, form : {"good"}
                    \cup (IF "noFile" \in Disturbances THEN {"missing"} ELSE {})
                    \cup (IF "badConfig" \in Disturbances THEN {"bad"} ELSE {})]
    /\ watch = "closed"
    /\ fsEvent = FALSE
    /\ sig = FALSE
    /\ config = NoConfig
    /\ configLock = "free"
    /\ workerLock = "free"
    /\ timer = "nil"
    /\ armed = FALSE
    /\ iwRunning = FALSE
    /\ iwWake = FALSE
    /\ iwQuit = FALSE
    /\ unsolved = FALSE
    /\ iwTrigger = FALSE
    /\ iwRepo = 0
    /\ iwSeen = NoConfig
    /\ cwRunning = FALSE
    /\ cwClosed = FALSE
    /\ cwSeen = NoConfig
    /\ events = FALSE
    /\ stream = "lost"

Outside == EditFile \/ WorldChanges \/ StreamLost \/ Signal

\* The process may rest when it is gone or when every goroutine waits in the
\* select of its loop.  Any other state without a step is a deadlock.
Rest ==
    /\ proc # "up" \/ \A t \in Threads : pc[t] = "select"
    /\ UNCHANGED vars

Next == Outside \/ Main \/ ImageWorker \/ ContainerWorker \/ Rest

Spec == Init /\ [][Next]_vars

\* The Go scheduler runs every goroutine, a mutex in starvation mode is
\* handed to its oldest waiter, select chooses at random among ready cases,
\* and every call to Docker and to a registry is assumed to return.
Fairness ==
    /\ SF_vars(Main)
    /\ SF_vars(ImageWorker)
    /\ SF_vars(iwWoken)
    /\ SF_vars(ContainerWorker)
    /\ SF_vars(cwWoken)

FairSpec == Spec /\ Fairness

(***************************************************************************)
(* Properties.                                                             *)
(***************************************************************************)

Configs == [version : Versions, whole : BOOLEAN]

\* The values every variable may take: control, data, flags.
ControlOK ==
    /\ pc \in [Threads -> MainPC \cup IwPC \cup CwPC]
    /\ pc["main"] \in MainPC
    /\ pc["iw"] \in IwPC
    /\ pc["cw"] \in CwPC
    /\ proc \in {"up", "exited", "panicked"}

DataOK ==
    /\ file \in [version : Versions, form : Forms]
    /\ watch \in {"live", "closed", "deaf", "nil"}
    /\ config \in Configs
    /\ configLock \in Threads \cup {"free"}
    /\ workerLock \in Threads \cup {"free"}
    /\ timer \in {"nil", "set"}
    /\ iwRepo \in 0 .. MaxRepos
    /\ iwSeen \in Configs
    /\ cwSeen \in Configs
    /\ stream \in {"live", "lost"}

FlagsOK ==
    /\ fsEvent \in BOOLEAN
    /\ sig \in BOOLEAN
    /\ armed \in BOOLEAN
    /\ iwRunning \in BOOLEAN
    /\ iwWake \in BOOLEAN
    /\ iwQuit \in BOOLEAN
    /\ unsolved \in BOOLEAN
    /\ iwTrigger \in BOOLEAN
    /\ cwRunning \in BOOLEAN
    /\ cwClosed \in BOOLEAN
    /\ events \in BOOLEAN

TypeOK == ControlOK /\ DataOK /\ FlagsOK

\* Where each goroutine holds each lock.
MainHoldsConfig == {"readFrom", "unlockOk", "unlockErr"}
IwHoldsWorker == {"plan", "repo", "wakeContainer", "flush", "unlockWorker"}
IwHoldsConfig == IwHoldsWorker \cup {"lockWorker", "unlockConfig", "timerNew",
                                     "timerSet", "timerUnlock"}
CwHoldsWorker == {"listing", "backoff", "images", "work", "unlockWorker"}
CwHoldsConfig == CwHoldsWorker \cup {"lockWorker", "unlockConfig"}

\* An image pass and a container pass never overlap: neither worker sees the
\* other half way through its changes to Docker (imagesync/worker.go:102-105,
\* containersync/worker.go:157-160).
PassesExclude ==
    ~ (pc["iw"] \in IwHoldsWorker /\ pc["cw"] \in CwHoldsWorker)

\* A pass works on one configuration from its first lock to its last unlock:
\* Main replaces it only while no worker is between the two
\* (daemon/system.go:159-161).
ConfigStable ==
    [][ config' # config => /\ pc["iw"] \notin IwHoldsConfig
                            /\ pc["cw"] \notin CwHoldsConfig ]_vars

Starting   == {"initConfig", "initWorkers", "initWatchers"}
Announcing == {"unlockOk", "confCheck", "confStop", "confClear", "wakeImage"}

\* Goroutines that have yet to take the configuration of their next pass.
IwBeforePlan == {"unborn", "first", "passCheck", "passStop", "passClear",
                 "resetUnsolved", "lockConfig", "lockWorker", "plan", "done"}
CwBeforeList == {"unborn", "top", "drain", "lockConfig", "lockWorker",
                 "listing", "done"}

\* No worker sleeps on an old configuration.  If its last pass used another
\* one than the one in memory, then Main has still to wake it, or the wake
\* waits in its channel, or it has yet to begin its next pass -- though both
\* workers throw wakes away (imagesync/worker.go:301-311,
\* containersync/worker.go:410-419, 187).  A configuration that failed to
\* decode is never announced.
NoLostWakeup ==
    config.whole =>
        /\ iwSeen # config => \/ pc["main"] \in Starting \cup Announcing
                              \/ iwWake
                              \/ pc["iw"] \in IwBeforePlan
        /\ cwSeen # config => \/ pc["main"] \in Starting \cup Announcing
                                                  \cup {"wakeContainer"}
                              \/ pc["cw"] \in CwBeforeList

\* "dependencies unsolved, will recheck later" (imagesync/worker.go:292): an
\* image worker that sleeps with unsolved requirements has an armed timer,
\* unless Main has killed the timer and is about to wake it instead.
RetryPending ==
    pc["iw"] = "select" /\ unsolved /\ Rechecks =>
        armed \/ iwWake \/ pc["main"] \in {"confClear", "wakeImage"}

\* "create with a dummy value initially" (imagesync/worker.go:57): when the
\* image worker enters its select the recheck timer exists.
TimerPresent == pc["iw"] = "enterSelect" => timer = "set"

\* Both workers catch up with the configuration, again and again while the
\* process lives, and so in the end with the last one that was read whole
\* (daemon/system.go:100-105).
WorkersCatchUp ==
    []<>(proc # "up" \/ (config.whole => iwSeen = config /\ cwSeen = config))

\* After a signal the process ends (daemon/system.go:152-173).
SignalEnds == sig ~> proc # "up"

\* "trigger a wake" (imagesync/worker.go:296): a wake the image worker sends
\* after tagging an image is received, or the process ends.
WakeDelivered == pc["iw"] = "wakeContainer" ~> (pc["iw"] # "wakeContainer" \/ proc # "up")

=============================================================================
