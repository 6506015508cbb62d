---------------------------- MODULE DaemonProofs ----------------------------
(***************************************************************************)
(* Safety of the goroutines of deviced, for every number of edits and      *)
(* repositories and for every environment.                                 *)
(*                                                                         *)
(* The argument has three layers: types; who holds which lock where        *)
(* (LockInv); and, because the configuration cannot change under a worker  *)
(* that holds its lock, which configuration each worker has seen (SeenInv).*)
(***************************************************************************)
EXTENDS Daemon, TLAPS

USE DEF Threads

(***************************************************************************)
(* Types.  The Boolean variables are kept apart from the others: one       *)
(* prover is good at them, the other at everything else.                   *)
(***************************************************************************)

LEMMA InitType == Init => TypeOK
  <1> SUFFICES ASSUME Init PROVE TypeOK
    OBVIOUS
  <1>1. ControlOK
    BY DEF Init, ControlOK, MainPC, IwPC, CwPC
  <1>2. file \in [version : Versions, form : Forms]
    BY DaemonAssumption DEF Init, Versions, Forms
  <1>3. NoConfig \in Configs /\ 0 \in 0 .. MaxRepos
    BY DaemonAssumption DEF NoConfig, Configs, Versions
  <1>4. DataOK
    BY <1>2, <1>3 DEF Init, DataOK
  <1>5. FlagsOK
    BY Zenon DEF Init, FlagsOK
  <1> QED
    BY <1>1, <1>4, <1>5 DEF TypeOK

\* The flags, in a step of the environment.
LEMMA OutsideFlags == FlagsOK /\ Outside => FlagsOK'
  <1> SUFFICES ASSUME FlagsOK, Outside PROVE FlagsOK'
    OBVIOUS
  <1>1. CASE EditFile
    BY <1>1, Zenon DEF EditFile, FlagsOK, ctl, os, shared, timing, iwVars,
        cwVars, docker
  <1>2. CASE WorldChanges
    BY <1>2, Zenon DEF WorldChanges, DockerChanges, FlagsOK, ctl, os, shared,
        timing, iwVars, cwVars, docker
  <1>3. CASE StreamLost
    BY <1>3, Zenon DEF StreamLost, FlagsOK, ctl, os, shared, timing, iwVars,
        cwVars, docker
  <1>4. CASE Signal
    BY <1>4, Zenon DEF Signal, FlagsOK, ctl, os, shared, timing, iwVars,
        cwVars, docker
  <1> QED
    BY <1>1, <1>2, <1>3, <1>4
    DEF Outside

\* The flags, in a step of Main.
LEMMA MainFlags == FlagsOK /\ Main => FlagsOK'
  <1> SUFFICES ASSUME FlagsOK, Main PROVE FlagsOK'
    OBVIOUS
  <1>1. CASE initConfig
    BY <1>1, Zenon DEF initConfig, FlagsOK, os, shared, timing, iwVars,
        cwVars, docker
  <1>2. CASE initWorkers
    BY <1>2, Zenon DEF initWorkers, FlagsOK, os, shared, timing, iwVars,
        cwVars, docker
  <1>3. CASE startWatching
    BY <1>3, Zenon DEF startWatching, FlagsOK, os, shared, timing, iwVars,
        cwVars, docker
  <1>4. CASE takeEvent
    BY <1>4, Zenon DEF takeEvent, FlagsOK, os, shared, timing, iwVars,
        cwVars, docker
  <1>5. CASE lockToRead
    BY <1>5, Zenon DEF lockToRead, FlagsOK, os, shared, timing, iwVars,
        cwVars, docker
  <1>6. CASE readFrom
    BY <1>6, Zenon DEF readFrom, FlagsOK, os, shared, timing, iwVars, cwVars,
        docker
  <1>7. CASE unlockRead
    BY <1>7, Zenon DEF unlockRead, FlagsOK, os, shared, timing, iwVars,
        cwVars, docker
  <1>8. CASE triggerConfRecheck
    BY <1>8, Zenon DEF triggerConfRecheck, killRecheckTimer, FlagsOK, os,
        shared, timing, iwVars, cwVars, docker
  <1>9. CASE wakeImage
    BY <1>9, Zenon DEF wakeImage, FlagsOK, os, shared, timing, iwVars,
        cwVars, docker
  <1>10. CASE rewatch
    BY <1>10, Zenon DEF rewatch, FlagsOK, os, shared, timing, iwVars, cwVars,
        docker
  <1>11. CASE takeSignal
    BY <1>11, Zenon DEF takeSignal, FlagsOK, os, shared, timing, iwVars,
        cwVars, docker
  <1>12. CASE quitContainerWorker
    BY <1>12, Zenon DEF quitContainerWorker, FlagsOK, os, shared, timing,
        iwVars, cwVars, docker
  <1>13. CASE quitImageWorker
    BY <1>13, Zenon DEF quitImageWorker, FlagsOK, os, shared, timing, iwVars,
        cwVars, docker
  <1>14. CASE mainReturns
    BY <1>14, Zenon DEF mainReturns, FlagsOK, os, shared, timing, iwVars,
        cwVars, docker
  <1>15. CASE nilWatcher
    BY <1>15, Zenon DEF nilWatcher, FlagsOK, os, shared, timing, iwVars,
        cwVars, docker
  <1> QED
    BY <1>1, <1>2, <1>3, <1>4, <1>5, <1>6, <1>7, <1>8, <1>9, <1>10,
       <1>11, <1>12, <1>13, <1>14, <1>15
    DEF Main, Startup, Reload, Shutdown

\* The flags, in a step of the image worker.
LEMMA ImageWorkerFlags == FlagsOK /\ ImageWorker => FlagsOK'
  <1> SUFFICES ASSUME FlagsOK, ImageWorker PROVE FlagsOK'
    OBVIOUS
  <1>1. CASE iwLoop
    BY <1>1, Zenon DEF iwLoop, FlagsOK, os, shared, timing, iwVars, cwVars,
        docker
  <1>2. CASE iwKillTimer
    BY <1>2, Zenon DEF iwKillTimer, killRecheckTimer, FlagsOK, os, shared,
        timing, iwVars, cwVars, docker
  <1>3. CASE iwResetUnsolved
    BY <1>3, Zenon DEF iwResetUnsolved, FlagsOK, os, shared, timing, iwVars,
        cwVars, docker
  <1>4. CASE iwLockConfig
    BY <1>4, Zenon DEF iwLockConfig, FlagsOK, os, shared, timing, iwVars,
        cwVars, docker
  <1>5. CASE iwLockWorker
    BY <1>5, Zenon DEF iwLockWorker, FlagsOK, os, shared, timing, iwVars,
        cwVars, docker
  <1>6. CASE iwPlan
    BY <1>6, Zenon DEF iwPlan, FlagsOK, os, shared, timing, iwVars, cwVars,
        docker
  <1>7. CASE iwRepository
    <2>1. UNCHANGED <<fsEvent, sig, armed, iwRunning, iwWake, iwQuit, cwRunning,
                      cwClosed>>
      BY <1>7, Zenon DEF iwRepository, os, timing, cwVars
    <2>2. iwTrigger' \in BOOLEAN
      BY <1>7, Zenon DEF iwRepository, FlagsOK
    <2>3. unsolved' \in BOOLEAN
      BY <1>7, Zenon DEF iwRepository, FlagsOK
    <2>4. events' \in BOOLEAN
      BY <1>7, Zenon DEF iwRepository, DockerChanges, FlagsOK
    <2> QED
      BY <2>1, <2>2, <2>3, <2>4, Zenon DEF FlagsOK
  <1>8. CASE iwFlush
    BY <1>8, Zenon DEF iwFlush, FlagsOK, os, shared, timing, iwVars, cwVars,
        docker
  <1>9. CASE iwSendOnClosed
    BY <1>9, Zenon DEF iwSendOnClosed, FlagsOK, os, shared, timing, iwVars,
        cwVars, docker
  <1>10. CASE iwUnlockWorker
    BY <1>10, Zenon DEF iwUnlockWorker, FlagsOK, os, shared, timing, iwVars,
        cwVars, docker
  <1>11. CASE iwUnlockConfig
    BY <1>11, Zenon DEF iwUnlockConfig, FlagsOK, os, shared, timing, iwVars,
        cwVars, docker
  <1>12. CASE iwKillOldTimer
    BY <1>12, Zenon DEF iwKillOldTimer, killRecheckTimer, FlagsOK, os,
        shared, timing, iwVars, cwVars, docker
  <1>13. CASE iwTimerLock
    BY <1>13, Zenon DEF iwTimerLock, FlagsOK, os, shared, timing, iwVars,
        cwVars, docker
  <1>14. CASE iwTimerNew
    BY <1>14, Zenon DEF iwTimerNew, FlagsOK, os, shared, timing, iwVars,
        cwVars, docker
  <1>15. CASE iwTimerSet
    BY <1>15, Zenon DEF iwTimerSet, FlagsOK, os, shared, timing, iwVars,
        cwVars, docker
  <1>16. CASE iwTimerUnlock
    BY <1>16, Zenon DEF iwTimerUnlock, FlagsOK, os, shared, timing, iwVars,
        cwVars, docker
  <1>17. CASE iwEnterSelect
    BY <1>17, Zenon DEF iwEnterSelect, FlagsOK, os, shared, timing, iwVars,
        cwVars, docker
  <1>18. CASE iwQuits
    BY <1>18, Zenon DEF iwQuits, FlagsOK, os, shared, timing, iwVars, cwVars,
        docker
  <1>19. CASE iwTimerElapses
    BY <1>19, Zenon DEF iwTimerElapses, FlagsOK, os, shared, timing, iwVars,
        cwVars, docker
  <1>20. CASE iwWoken
    BY <1>20, Zenon DEF iwWoken, FlagsOK, os, shared, timing, iwVars, cwVars,
        docker
  <1> QED
    BY <1>1, <1>2, <1>3, <1>4, <1>5, <1>6, <1>7, <1>8, <1>9, <1>10,
       <1>11, <1>12, <1>13, <1>14, <1>15, <1>16, <1>17, <1>18, <1>19, <1>20
    DEF ImageWorker, ImagePass, ImageSleep

\* The flags, in a step of the container worker.
LEMMA ContainerWorkerFlags == FlagsOK /\ ContainerWorker => FlagsOK'
  <1> SUFFICES ASSUME FlagsOK, ContainerWorker PROVE FlagsOK'
    OBVIOUS
  <1>1. CASE cwLoop
    BY <1>1, Zenon DEF cwLoop, FlagsOK, os, shared, timing, iwVars, cwVars,
        docker
  <1>2. CASE cwDrain
    BY <1>2, Zenon DEF cwDrain, FlagsOK, os, shared, timing, iwVars, cwVars,
        docker
  <1>3. CASE cwLockConfig
    BY <1>3, Zenon DEF cwLockConfig, FlagsOK, os, shared, timing, iwVars,
        cwVars, docker
  <1>4. CASE cwLockWorker
    BY <1>4, Zenon DEF cwLockWorker, FlagsOK, os, shared, timing, iwVars,
        cwVars, docker
  <1>5. CASE cwList
    BY <1>5, Zenon DEF cwList, FlagsOK, os, shared, timing, iwVars, cwVars,
        docker
  <1>6. CASE cwBackoff
    BY <1>6, Zenon DEF cwBackoff, FlagsOK, os, shared, timing, iwVars,
        cwVars, docker
  <1>7. CASE cwImages
    BY <1>7, Zenon DEF cwImages, FlagsOK, os, shared, timing, iwVars, cwVars,
        docker
  <1>8. CASE cwWork
    BY <1>8, Zenon DEF cwWork, FlagsOK, os, shared, timing, iwVars, cwVars,
        docker
  <1>9. CASE cwUnlockWorker
    BY <1>9, Zenon DEF cwUnlockWorker, FlagsOK, os, shared, timing, iwVars,
        cwVars, docker
  <1>10. CASE cwUnlockConfig
    BY <1>10, Zenon DEF cwUnlockConfig, FlagsOK, os, shared, timing, iwVars,
        cwVars, docker
  <1>11. CASE cwFlush
    BY <1>11, Zenon DEF cwFlush, FlagsOK, os, shared, timing, iwVars, cwVars,
        docker
  <1>12. CASE cwQuits
    BY <1>12, Zenon DEF cwQuits, FlagsOK, os, shared, timing, iwVars, cwVars,
        docker
  <1>13. CASE cwEvent
    BY <1>13, Zenon DEF cwEvent, FlagsOK, os, shared, timing, iwVars, cwVars,
        docker
  <1>14. CASE cwWoken
    BY <1>14, Zenon DEF cwWoken, FlagsOK, os, shared, timing, iwVars, cwVars,
        docker
  <1> QED
    BY <1>1, <1>2, <1>3, <1>4, <1>5, <1>6, <1>7, <1>8, <1>9, <1>10,
       <1>11, <1>12, <1>13, <1>14
    DEF ContainerWorker, ContainerPass

(***************************************************************************)
(* Control and data.                                                       *)
(***************************************************************************)

\* A goroutine that moves stays inside its own code.
LEMMA GoMain ==
  ASSUME ControlOK, NEW from, NEW to \in MainPC, Go("main", from, to)
  PROVE  ControlOK'
  BY DEF ControlOK, Go

LEMMA GoIw ==
  ASSUME ControlOK, NEW from, NEW to \in IwPC, Go("iw", from, to)
  PROVE  ControlOK'
  BY DEF ControlOK, Go

LEMMA GoCw ==
  ASSUME ControlOK, NEW from, NEW to \in CwPC, Go("cw", from, to)
  PROVE  ControlOK'
  BY DEF ControlOK, Go

\* So does a goroutine that ends the process, and the two that meet in a send.
LEMMA EndControl ==
  ASSUME ControlOK, NEW t, NEW at, NEW how \in {"exited", "panicked"}, End(t, at, how)
  PROVE  ControlOK'
  BY DEF ControlOK, End

LEMMA ReceiveControl ==
  ASSUME ControlOK, NEW s \in {"main", "iw"}, NEW from, NEW to \in CwPC,
         Receive(s, from, to)
  PROVE  ControlOK'
  BY DEF ControlOK, Receive, AfterSend, MainPC, IwPC

\* Control, in a step of Main.
LEMMA MainControl == ControlOK /\ Main => ControlOK'
  <1> SUFFICES ASSUME ControlOK, Main PROVE ControlOK'
    OBVIOUS
  <1>1. CASE initConfig
    BY <1>1, GoMain, EndControl DEF initConfig, MainPC
  <1>2. CASE initWorkers
    BY <1>2, GoMain, EndControl DEF initWorkers, MainPC
  <1>3. CASE startWatching
    BY <1>3, GoMain, EndControl DEF startWatching, MainPC, ControlOK, IwPC,
        CwPC
  <1>4. CASE takeEvent
    BY <1>4, GoMain DEF takeEvent, MainPC
  <1>5. CASE lockToRead
    BY <1>5, GoMain DEF lockToRead, MainPC
  <1>6. CASE readFrom
    BY <1>6, GoMain DEF readFrom, MainPC
  <1>7. CASE unlockRead
    BY <1>7, GoMain DEF unlockRead, MainPC
  <1>8. CASE triggerConfRecheck
    BY <1>8, GoMain, EndControl DEF triggerConfRecheck, killRecheckTimer,
        MainPC
  <1>9. CASE wakeImage
    BY <1>9, GoMain DEF wakeImage, MainPC
  <1>10. CASE rewatch
    BY <1>10, GoMain DEF rewatch, MainPC
  <1>11. CASE takeSignal
    BY <1>11, GoMain DEF takeSignal, MainPC
  <1>12. CASE quitContainerWorker
    BY <1>12, GoMain DEF quitContainerWorker, MainPC
  <1>13. CASE quitImageWorker
    BY <1>13, GoMain DEF quitImageWorker, MainPC
  <1>14. CASE mainReturns
    BY <1>14, GoMain, EndControl DEF mainReturns, MainPC
  <1>15. CASE nilWatcher
    BY <1>15, GoMain, EndControl DEF nilWatcher, MainPC
  <1> QED
    BY <1>1, <1>2, <1>3, <1>4, <1>5, <1>6, <1>7, <1>8, <1>9, <1>10,
       <1>11, <1>12, <1>13, <1>14, <1>15
    DEF Main, Startup, Reload, Shutdown

\* Control, in a step of the image worker.
LEMMA ImageWorkerControl == ControlOK /\ ImageWorker => ControlOK'
  <1> SUFFICES ASSUME ControlOK, ImageWorker PROVE ControlOK'
    OBVIOUS
  <1>1. CASE iwLoop
    BY <1>1, GoIw DEF iwLoop, IwPC
  <1>2. CASE iwKillTimer
    BY <1>2, GoIw, EndControl DEF iwKillTimer, killRecheckTimer, IwPC
  <1>3. CASE iwResetUnsolved
    BY <1>3, GoIw DEF iwResetUnsolved, IwPC
  <1>4. CASE iwLockConfig
    BY <1>4, GoIw DEF iwLockConfig, IwPC
  <1>5. CASE iwLockWorker
    BY <1>5, GoIw DEF iwLockWorker, IwPC
  <1>6. CASE iwPlan
    BY <1>6, GoIw DEF iwPlan, IwPC
  <1>7. CASE iwRepository
    BY <1>7, GoIw DEF iwRepository, DockerChanges, IwPC
  <1>8. CASE iwFlush
    BY <1>8, GoIw DEF iwFlush, IwPC
  <1>9. CASE iwSendOnClosed
    BY <1>9, GoIw, EndControl DEF iwSendOnClosed, IwPC
  <1>10. CASE iwUnlockWorker
    BY <1>10, GoIw DEF iwUnlockWorker, IwPC
  <1>11. CASE iwUnlockConfig
    BY <1>11, GoIw DEF iwUnlockConfig, IwPC
  <1>12. CASE iwKillOldTimer
    BY <1>12, GoIw, EndControl DEF iwKillOldTimer, killRecheckTimer, IwPC
  <1>13. CASE iwTimerLock
    BY <1>13, GoIw DEF iwTimerLock, IwPC
  <1>14. CASE iwTimerNew
    BY <1>14, GoIw DEF iwTimerNew, IwPC
  <1>15. CASE iwTimerSet
    BY <1>15, GoIw, EndControl DEF iwTimerSet, IwPC
  <1>16. CASE iwTimerUnlock
    BY <1>16, GoIw DEF iwTimerUnlock, IwPC
  <1>17. CASE iwEnterSelect
    BY <1>17, GoIw, EndControl DEF iwEnterSelect, IwPC
  <1>18. CASE iwQuits
    BY <1>18, GoIw DEF iwQuits, IwPC
  <1>19. CASE iwTimerElapses
    BY <1>19, GoIw DEF iwTimerElapses, IwPC
  <1>20. CASE iwWoken
    BY <1>20, GoIw DEF iwWoken, IwPC
  <1> QED
    BY <1>1, <1>2, <1>3, <1>4, <1>5, <1>6, <1>7, <1>8, <1>9, <1>10,
       <1>11, <1>12, <1>13, <1>14, <1>15, <1>16, <1>17, <1>18, <1>19, <1>20
    DEF ImageWorker, ImagePass, ImageSleep

\* Control, in a step of the container worker.
LEMMA ContainerWorkerControl == ControlOK /\ ContainerWorker => ControlOK'
  <1> SUFFICES ASSUME ControlOK, ContainerWorker PROVE ControlOK'
    OBVIOUS
  <1>1. CASE cwLoop
    BY <1>1, GoCw DEF cwLoop, CwPC
  <1>2. CASE cwDrain
    BY <1>2, GoCw, ReceiveControl DEF cwDrain, CwPC
  <1>3. CASE cwLockConfig
    BY <1>3, GoCw DEF cwLockConfig, CwPC
  <1>4. CASE cwLockWorker
    BY <1>4, GoCw DEF cwLockWorker, CwPC
  <1>5. CASE cwList
    BY <1>5, GoCw DEF cwList, CwPC
  <1>6. CASE cwBackoff
    BY <1>6, GoCw, ReceiveControl DEF cwBackoff, CwPC
  <1>7. CASE cwImages
    BY <1>7, GoCw DEF cwImages, CwPC
  <1>8. CASE cwWork
    BY <1>8, GoCw DEF cwWork, CwPC
  <1>9. CASE cwUnlockWorker
    BY <1>9, GoCw DEF cwUnlockWorker, CwPC
  <1>10. CASE cwUnlockConfig
    BY <1>10, GoCw DEF cwUnlockConfig, CwPC
  <1>11. CASE cwFlush
    BY <1>11, GoCw DEF cwFlush, CwPC
  <1>12. CASE cwQuits
    BY <1>12, GoCw DEF cwQuits, CwPC
  <1>13. CASE cwEvent
    BY <1>13, GoCw DEF cwEvent, CwPC
  <1>14. CASE cwWoken
    BY <1>14, GoCw, ReceiveControl DEF cwWoken, CwPC
  <1> QED
    BY <1>1, <1>2, <1>3, <1>4, <1>5, <1>6, <1>7, <1>8, <1>9, <1>10,
       <1>11, <1>12, <1>13, <1>14
    DEF ContainerWorker, ContainerPass

(***************************************************************************)
(* What the others leave alone.                                            *)
(***************************************************************************)

\* The environment moves no goroutine and touches none of their variables.
LEMMA OutsideFrame ==
  Outside => UNCHANGED <<ctl, shared, timing, iwVars, cwVars, watch>>
  BY DEF Outside, EditFile, WorldChanges, StreamLost, Signal, os

\* The container worker leaves the image worker's variables alone, and moves
\* another goroutine only by taking the value it offers.
LEMMA ContainerFrame ==
  ASSUME ControlOK, ContainerWorker
  PROVE  /\ UNCHANGED <<os, config, timing, iwVars>>
         /\ \/ pc'["iw"] = pc["iw"]
            \/ pc["iw"] = "wakeContainer" /\ pc'["iw"] = "flush"
         /\ \/ pc'["main"] = pc["main"]
            \/ pc["main"] = "wakeContainer" /\ pc'["main"] = "rewatch"
  <1>1. ASSUME NEW s \in {"main", "iw"}, NEW from, NEW to, Receive(s, from, to)
        PROVE  /\ \/ pc'["iw"] = pc["iw"]
                  \/ pc["iw"] = "wakeContainer" /\ pc'["iw"] = "flush"
               /\ \/ pc'["main"] = pc["main"]
                  \/ pc["main"] = "wakeContainer" /\ pc'["main"] = "rewatch"
    BY <1>1 DEF Receive, Offering, AfterSend, ControlOK
  <1>2. ASSUME NEW from, NEW to, Go("cw", from, to)
        PROVE  pc'["iw"] = pc["iw"] /\ pc'["main"] = pc["main"]
    BY <1>2 DEF Go, ControlOK
  <1>3. UNCHANGED <<os, config, timing, iwVars>>
    BY DEF ContainerWorker, ContainerPass, cwLoop, cwDrain, cwLockConfig,
        cwLockWorker, cwList, cwBackoff, cwImages, cwWork, cwUnlockWorker,
        cwUnlockConfig, cwFlush, cwQuits, cwEvent, cwWoken, shared
  <1> QED
    BY <1>1, <1>2, <1>3 DEF ContainerWorker, ContainerPass, cwLoop, cwDrain,
        cwLockConfig, cwLockWorker, cwList, cwBackoff, cwImages, cwWork,
        cwUnlockWorker, cwUnlockConfig, cwFlush, cwQuits, cwEvent, cwWoken

\* Main moves no other goroutine once it has started them.
LEMMA MainFrame ==
  ASSUME ControlOK, Main, pc["main"] # "initWatchers"
  PROVE  /\ pc'["iw"] = pc["iw"] /\ pc'["cw"] = pc["cw"]
         /\ UNCHANGED <<unsolved, iwTrigger, iwRepo, iwSeen, cwSeen>>
  BY DEF Main, Startup, Reload, Shutdown, initConfig, initWorkers,
      startWatching, takeEvent, lockToRead, readFrom, unlockRead,
      triggerConfRecheck, wakeImage, rewatch, takeSignal,
      quitContainerWorker, quitImageWorker, mainReturns, nilWatcher,
      killRecheckTimer, Go, End, ControlOK, iwVars, cwVars


\* The image worker counts down only while a repository is left.
RepoInv == pc["iw"] \in {"repo", "wakeContainer", "flush"} => iwRepo # 0

\* What ReadFrom leaves is a configuration.
LEMMA AfterReadType == DataOK => AfterRead \in Configs
  BY DEF DataOK, AfterRead, Configs

\* Data, in a step of the environment.
LEMMA OutsideData == DataOK /\ Outside => DataOK'
  <1> SUFFICES ASSUME DataOK, Outside PROVE DataOK'
    OBVIOUS
  <1>1. CASE EditFile
    BY <1>1, DaemonAssumption DEF EditFile, DataOK, Versions, Forms, ctl, os,
        shared, timing, iwVars, cwVars, docker
  <1>2. CASE WorldChanges
    BY <1>2 DEF WorldChanges, DockerChanges, DataOK, ctl, os, shared, timing,
        iwVars, cwVars, docker
  <1>3. CASE StreamLost
    BY <1>3 DEF StreamLost, DataOK, ctl, os, shared, timing, iwVars, cwVars,
        docker
  <1>4. CASE Signal
    BY <1>4 DEF Signal, DataOK, ctl, os, shared, timing, iwVars, cwVars,
        docker
  <1> QED
    BY <1>1, <1>2, <1>3, <1>4
    DEF Outside

\* Data, in a step of Main.
LEMMA MainData == DataOK /\ Main => DataOK'
  <1> SUFFICES ASSUME DataOK, Main PROVE DataOK'
    OBVIOUS
  <1>1. CASE initConfig
    <2>1. config' \in Configs
      <3>1. \/ config' = AfterRead
            \/ config' = [version |-> file.version, whole |-> TRUE]
        BY <1>1 DEF initConfig
      <3>2. [version |-> file.version, whole |-> TRUE] \in Configs
        BY DEF DataOK, Configs
      <3> QED
        BY <3>1, <3>2, AfterReadType
    <2>2. file' \in [version : Versions, form : Forms]
      BY <1>1 DEF initConfig, DataOK, Forms
    <2> QED
      BY <1>1, <2>1, <2>2 DEF initConfig, DataOK, timing, iwVars, cwVars, docker
  <1>2. CASE initWorkers
    BY <1>2 DEF initWorkers, DataOK, os, shared, timing, iwVars, cwVars,
        docker
  <1>3. CASE startWatching
    BY <1>3 DEF startWatching, DataOK, Watched, os, shared, timing, iwVars,
        cwVars, docker
  <1>4. CASE takeEvent
    BY <1>4 DEF takeEvent, DataOK, os, shared, timing, iwVars, cwVars, docker
  <1>5. CASE lockToRead
    BY <1>5 DEF lockToRead, DataOK, LockConfig, os, shared, timing, iwVars,
        cwVars, docker
  <1>6. CASE readFrom
    BY <1>6, AfterReadType DEF readFrom, DataOK, os, shared, timing, iwVars,
        cwVars, docker
  <1>7. CASE unlockRead
    BY <1>7 DEF unlockRead, DataOK, UnlockConfig, os, shared, timing, iwVars,
        cwVars, docker
  <1>8. CASE triggerConfRecheck
    BY <1>8 DEF triggerConfRecheck, killRecheckTimer, DataOK, os, shared,
        timing, iwVars, cwVars, docker
  <1>9. CASE wakeImage
    BY <1>9 DEF wakeImage, DataOK, os, shared, timing, iwVars, cwVars, docker
  <1>10. CASE rewatch
    BY <1>10 DEF rewatch, DataOK, Watched, os, shared, timing, iwVars,
        cwVars, docker
  <1>11. CASE takeSignal
    BY <1>11 DEF takeSignal, DataOK, os, shared, timing, iwVars, cwVars,
        docker
  <1>12. CASE quitContainerWorker
    BY <1>12 DEF quitContainerWorker, DataOK, os, shared, timing, iwVars,
        cwVars, docker
  <1>13. CASE quitImageWorker
    BY <1>13 DEF quitImageWorker, DataOK, os, shared, timing, iwVars, cwVars,
        docker
  <1>14. CASE mainReturns
    BY <1>14 DEF mainReturns, DataOK, os, shared, timing, iwVars, cwVars,
        docker
  <1>15. CASE nilWatcher
    BY <1>15 DEF nilWatcher, DataOK, os, shared, timing, iwVars, cwVars,
        docker
  <1> QED
    BY <1>1, <1>2, <1>3, <1>4, <1>5, <1>6, <1>7, <1>8, <1>9, <1>10,
       <1>11, <1>12, <1>13, <1>14, <1>15
    DEF Main, Startup, Reload, Shutdown

\* Data, in a step of the image worker.
LEMMA ImageWorkerData == DataOK /\ RepoInv /\ ImageWorker => DataOK'
  <1> SUFFICES ASSUME DataOK, RepoInv, ImageWorker PROVE DataOK'
    OBVIOUS
  <1>1. CASE iwLoop
    BY <1>1 DEF iwLoop, DataOK, os, shared, timing, iwVars, cwVars, docker
  <1>2. CASE iwKillTimer
    BY <1>2 DEF iwKillTimer, killRecheckTimer, DataOK, os, shared, timing,
        iwVars, cwVars, docker
  <1>3. CASE iwResetUnsolved
    BY <1>3 DEF iwResetUnsolved, DataOK, os, shared, timing, iwVars, cwVars,
        docker
  <1>4. CASE iwLockConfig
    BY <1>4 DEF iwLockConfig, DataOK, LockConfig, os, shared, timing, iwVars,
        cwVars, docker
  <1>5. CASE iwLockWorker
    BY <1>5 DEF iwLockWorker, DataOK, LockWorker, os, shared, timing, iwVars,
        cwVars, docker
  <1>6. CASE iwPlan
    BY <1>6, DaemonAssumption DEF iwPlan, DataOK, os, shared, timing, iwVars,
        cwVars, docker
  <1>7. CASE iwRepository
    BY <1>7 DEF iwRepository, DockerChanges, DataOK, os, shared, timing,
        iwVars, cwVars, docker
  <1>8. CASE iwFlush
    BY <1>8, DaemonAssumption DEF iwFlush, DataOK, RepoInv, Go, os, shared,
        timing, iwVars, cwVars, docker
  <1>9. CASE iwSendOnClosed
    BY <1>9 DEF iwSendOnClosed, DataOK, os, shared, timing, iwVars, cwVars,
        docker
  <1>10. CASE iwUnlockWorker
    BY <1>10 DEF iwUnlockWorker, DataOK, UnlockWorker, os, shared, timing,
        iwVars, cwVars, docker
  <1>11. CASE iwUnlockConfig
    BY <1>11 DEF iwUnlockConfig, DataOK, UnlockConfig, os, shared, timing,
        iwVars, cwVars, docker
  <1>12. CASE iwKillOldTimer
    BY <1>12 DEF iwKillOldTimer, killRecheckTimer, DataOK, os, shared,
        timing, iwVars, cwVars, docker
  <1>13. CASE iwTimerLock
    BY <1>13 DEF iwTimerLock, DataOK, LockConfig, os, shared, timing, iwVars,
        cwVars, docker
  <1>14. CASE iwTimerNew
    BY <1>14 DEF iwTimerNew, DataOK, os, shared, timing, iwVars, cwVars,
        docker
  <1>15. CASE iwTimerSet
    BY <1>15 DEF iwTimerSet, DataOK, os, shared, timing, iwVars, cwVars,
        docker
  <1>16. CASE iwTimerUnlock
    BY <1>16 DEF iwTimerUnlock, DataOK, UnlockConfig, os, shared, timing,
        iwVars, cwVars, docker
  <1>17. CASE iwEnterSelect
    BY <1>17 DEF iwEnterSelect, DataOK, os, shared, timing, iwVars, cwVars,
        docker
  <1>18. CASE iwQuits
    BY <1>18 DEF iwQuits, DataOK, os, shared, timing, iwVars, cwVars, docker
  <1>19. CASE iwTimerElapses
    BY <1>19 DEF iwTimerElapses, DataOK, os, shared, timing, iwVars, cwVars,
        docker
  <1>20. CASE iwWoken
    BY <1>20 DEF iwWoken, DataOK, os, shared, timing, iwVars, cwVars, docker
  <1> QED
    BY <1>1, <1>2, <1>3, <1>4, <1>5, <1>6, <1>7, <1>8, <1>9, <1>10,
       <1>11, <1>12, <1>13, <1>14, <1>15, <1>16, <1>17, <1>18, <1>19, <1>20
    DEF ImageWorker, ImagePass, ImageSleep

\* Data, in a step of the container worker.
LEMMA ContainerWorkerData == DataOK /\ ContainerWorker => DataOK'
  <1> SUFFICES ASSUME DataOK, ContainerWorker PROVE DataOK'
    OBVIOUS
  <1>1. CASE cwLoop
    BY <1>1 DEF cwLoop, DataOK, os, shared, timing, iwVars, cwVars, docker
  <1>2. CASE cwDrain
    BY <1>2 DEF cwDrain, DataOK, os, shared, timing, iwVars, cwVars, docker
  <1>3. CASE cwLockConfig
    BY <1>3 DEF cwLockConfig, DataOK, LockConfig, os, shared, timing, iwVars,
        cwVars, docker
  <1>4. CASE cwLockWorker
    BY <1>4 DEF cwLockWorker, DataOK, LockWorker, os, shared, timing, iwVars,
        cwVars, docker
  <1>5. CASE cwList
    BY <1>5 DEF cwList, DataOK, os, shared, timing, iwVars, cwVars, docker
  <1>6. CASE cwBackoff
    BY <1>6 DEF cwBackoff, DataOK, os, shared, timing, iwVars, cwVars, docker
  <1>7. CASE cwImages
    BY <1>7 DEF cwImages, DataOK, os, shared, timing, iwVars, cwVars, docker
  <1>8. CASE cwWork
    BY <1>8 DEF cwWork, DataOK, os, shared, timing, iwVars, cwVars, docker
  <1>9. CASE cwUnlockWorker
    BY <1>9 DEF cwUnlockWorker, DataOK, UnlockWorker, os, shared, timing,
        iwVars, cwVars, docker
  <1>10. CASE cwUnlockConfig
    BY <1>10 DEF cwUnlockConfig, DataOK, UnlockConfig, os, shared, timing,
        iwVars, cwVars, docker
  <1>11. CASE cwFlush
    BY <1>11 DEF cwFlush, DataOK, os, shared, timing, iwVars, cwVars, docker
  <1>12. CASE cwQuits
    BY <1>12 DEF cwQuits, DataOK, os, shared, timing, iwVars, cwVars, docker
  <1>13. CASE cwEvent
    BY <1>13 DEF cwEvent, DataOK, os, shared, timing, iwVars, cwVars, docker
  <1>14. CASE cwWoken
    BY <1>14 DEF cwWoken, DataOK, os, shared, timing, iwVars, cwVars, docker
  <1> QED
    BY <1>1, <1>2, <1>3, <1>4, <1>5, <1>6, <1>7, <1>8, <1>9, <1>10,
       <1>11, <1>12, <1>13, <1>14
    DEF ContainerWorker, ContainerPass

\* The countdown, in a step of the image worker.
LEMMA ImageWorkerRepo == ControlOK /\ DataOK /\ RepoInv /\ ImageWorker => RepoInv'
  <1> SUFFICES ASSUME ControlOK, DataOK, RepoInv, ImageWorker PROVE RepoInv'
    OBVIOUS
  <1>1. CASE iwLoop
    BY <1>1 DEF iwLoop, RepoInv, Go, iwVars, ControlOK
  <1>2. CASE iwKillTimer
    BY <1>2 DEF iwKillTimer, killRecheckTimer, RepoInv, Go, End, iwVars,
        ControlOK
  <1>3. CASE iwResetUnsolved
    BY <1>3 DEF iwResetUnsolved, RepoInv, Go, iwVars, ControlOK
  <1>4. CASE iwLockConfig
    BY <1>4 DEF iwLockConfig, RepoInv, Go, LockConfig, iwVars, ControlOK
  <1>5. CASE iwLockWorker
    BY <1>5 DEF iwLockWorker, RepoInv, Go, LockWorker, iwVars, ControlOK
  <1>6. CASE iwPlan
    BY <1>6, DaemonAssumption DEF iwPlan, RepoInv, Go, iwVars, ControlOK
  <1>7. CASE iwRepository
    BY <1>7 DEF iwRepository, DockerChanges, RepoInv, Go, iwVars, ControlOK
  <1>8. CASE iwFlush
    BY <1>8, DaemonAssumption DEF iwFlush, RepoInv, Go, iwVars, DataOK,
        ControlOK
  <1>9. CASE iwSendOnClosed
    BY <1>9 DEF iwSendOnClosed, RepoInv, End, iwVars, ControlOK
  <1>10. CASE iwUnlockWorker
    BY <1>10 DEF iwUnlockWorker, RepoInv, Go, UnlockWorker, iwVars, ControlOK
  <1>11. CASE iwUnlockConfig
    BY <1>11 DEF iwUnlockConfig, RepoInv, Go, UnlockConfig, iwVars, ControlOK
  <1>12. CASE iwKillOldTimer
    BY <1>12 DEF iwKillOldTimer, killRecheckTimer, RepoInv, Go, End, iwVars,
        ControlOK
  <1>13. CASE iwTimerLock
    BY <1>13 DEF iwTimerLock, RepoInv, Go, LockConfig, iwVars, ControlOK
  <1>14. CASE iwTimerNew
    BY <1>14 DEF iwTimerNew, RepoInv, Go, iwVars, ControlOK
  <1>15. CASE iwTimerSet
    BY <1>15 DEF iwTimerSet, RepoInv, Go, End, iwVars, ControlOK
  <1>16. CASE iwTimerUnlock
    BY <1>16 DEF iwTimerUnlock, RepoInv, Go, UnlockConfig, iwVars, ControlOK
  <1>17. CASE iwEnterSelect
    BY <1>17 DEF iwEnterSelect, RepoInv, Go, End, iwVars, ControlOK
  <1>18. CASE iwQuits
    BY <1>18 DEF iwQuits, RepoInv, Go, iwVars, ControlOK
  <1>19. CASE iwTimerElapses
    BY <1>19 DEF iwTimerElapses, RepoInv, Go, iwVars, ControlOK
  <1>20. CASE iwWoken
    BY <1>20 DEF iwWoken, RepoInv, Go, iwVars, ControlOK
  <1> QED
    BY <1>1, <1>2, <1>3, <1>4, <1>5, <1>6, <1>7, <1>8, <1>9, <1>10,
       <1>11, <1>12, <1>13, <1>14, <1>15, <1>16, <1>17, <1>18, <1>19, <1>20
    DEF ImageWorker, ImagePass, ImageSleep

(***************************************************************************)
(* Who holds the locks.                                                    *)
(***************************************************************************)

\* Each lock is held by the goroutine that is between its Lock and its
\* Unlock, and the workers do not exist before Main starts them.
LockInv ==
    /\ configLock = "main" <=> pc["main"] \in MainHoldsConfig
    /\ configLock = "iw" <=> pc["iw"] \in IwHoldsConfig
    /\ configLock = "cw" <=> pc["cw"] \in CwHoldsConfig
    /\ workerLock = "iw" <=> pc["iw"] \in IwHoldsWorker
    /\ workerLock = "cw" <=> pc["cw"] \in CwHoldsWorker
    /\ pc["main"] \in Starting => pc["iw"] = "unborn" /\ pc["cw"] = "unborn"

\* The locks, in a step of Main.
LEMMA MainLock == ControlOK /\ LockInv /\ Main => LockInv'
  <1> SUFFICES ASSUME ControlOK, LockInv, Main PROVE LockInv'
    OBVIOUS
  <1>1. CASE initConfig
    BY <1>1 DEF initConfig, Go, End, LockInv, ControlOK, shared, Starting,
        MainHoldsConfig, IwHoldsConfig, IwHoldsWorker, CwHoldsConfig,
        CwHoldsWorker
  <1>2. CASE initWorkers
    BY <1>2 DEF initWorkers, Go, End, LockInv, ControlOK, shared, Starting,
        MainHoldsConfig, IwHoldsConfig, IwHoldsWorker, CwHoldsConfig,
        CwHoldsWorker
  <1>3. CASE startWatching
    BY <1>3 DEF startWatching, Go, End, LockInv, ControlOK, shared, Starting,
        MainHoldsConfig, IwHoldsConfig, IwHoldsWorker, CwHoldsConfig,
        CwHoldsWorker
  <1>4. CASE takeEvent
    BY <1>4 DEF takeEvent, Go, LockInv, ControlOK, shared, Starting,
        MainHoldsConfig, IwHoldsConfig, IwHoldsWorker, CwHoldsConfig,
        CwHoldsWorker
  <1>5. CASE lockToRead
    BY <1>5 DEF lockToRead, Go, LockConfig, LockInv, ControlOK, shared,
        Starting, MainHoldsConfig, IwHoldsConfig, IwHoldsWorker,
        CwHoldsConfig, CwHoldsWorker
  <1>6. CASE readFrom
    BY <1>6 DEF readFrom, Go, LockInv, ControlOK, shared, Starting,
        MainHoldsConfig, IwHoldsConfig, IwHoldsWorker, CwHoldsConfig,
        CwHoldsWorker
  <1>7. CASE unlockRead
    BY <1>7 DEF unlockRead, Go, UnlockConfig, LockInv, ControlOK, shared,
        Starting, MainHoldsConfig, IwHoldsConfig, IwHoldsWorker,
        CwHoldsConfig, CwHoldsWorker
  <1>8. CASE triggerConfRecheck
    BY <1>8 DEF triggerConfRecheck, killRecheckTimer, Go, End, LockInv,
        ControlOK, shared, Starting, MainHoldsConfig, IwHoldsConfig,
        IwHoldsWorker, CwHoldsConfig, CwHoldsWorker
  <1>9. CASE wakeImage
    BY <1>9 DEF wakeImage, Go, LockInv, ControlOK, shared, Starting,
        MainHoldsConfig, IwHoldsConfig, IwHoldsWorker, CwHoldsConfig,
        CwHoldsWorker
  <1>10. CASE rewatch
    BY <1>10 DEF rewatch, Go, LockInv, ControlOK, shared, Starting,
        MainHoldsConfig, IwHoldsConfig, IwHoldsWorker, CwHoldsConfig,
        CwHoldsWorker
  <1>11. CASE takeSignal
    BY <1>11 DEF takeSignal, Go, LockInv, ControlOK, shared, Starting,
        MainHoldsConfig, IwHoldsConfig, IwHoldsWorker, CwHoldsConfig,
        CwHoldsWorker
  <1>12. CASE quitContainerWorker
    BY <1>12 DEF quitContainerWorker, Go, LockInv, ControlOK, shared,
        Starting, MainHoldsConfig, IwHoldsConfig, IwHoldsWorker,
        CwHoldsConfig, CwHoldsWorker
  <1>13. CASE quitImageWorker
    BY <1>13 DEF quitImageWorker, Go, LockInv, ControlOK, shared, Starting,
        MainHoldsConfig, IwHoldsConfig, IwHoldsWorker, CwHoldsConfig,
        CwHoldsWorker
  <1>14. CASE mainReturns
    BY <1>14 DEF mainReturns, End, LockInv, ControlOK, shared, Starting,
        MainHoldsConfig, IwHoldsConfig, IwHoldsWorker, CwHoldsConfig,
        CwHoldsWorker
  <1>15. CASE nilWatcher
    BY <1>15 DEF nilWatcher, End, LockInv, ControlOK, shared, Starting,
        MainHoldsConfig, IwHoldsConfig, IwHoldsWorker, CwHoldsConfig,
        CwHoldsWorker
  <1> QED
    BY <1>1, <1>2, <1>3, <1>4, <1>5, <1>6, <1>7, <1>8, <1>9, <1>10,
       <1>11, <1>12, <1>13, <1>14, <1>15
    DEF Main, Startup, Reload, Shutdown

\* The locks, in a step of the image worker.
LEMMA ImageWorkerLock == ControlOK /\ LockInv /\ ImageWorker => LockInv'
  <1> SUFFICES ASSUME ControlOK, LockInv, ImageWorker PROVE LockInv'
    OBVIOUS
  <1>1. CASE iwLoop
    BY <1>1 DEF iwLoop, Go, LockInv, ControlOK, shared, Starting,
        MainHoldsConfig, IwHoldsConfig, IwHoldsWorker, CwHoldsConfig,
        CwHoldsWorker
  <1>2. CASE iwKillTimer
    BY <1>2 DEF iwKillTimer, killRecheckTimer, Go, End, LockInv, ControlOK,
        shared, Starting, MainHoldsConfig, IwHoldsConfig, IwHoldsWorker,
        CwHoldsConfig, CwHoldsWorker
  <1>3. CASE iwResetUnsolved
    BY <1>3 DEF iwResetUnsolved, Go, LockInv, ControlOK, shared, Starting,
        MainHoldsConfig, IwHoldsConfig, IwHoldsWorker, CwHoldsConfig,
        CwHoldsWorker
  <1>4. CASE iwLockConfig
    BY <1>4 DEF iwLockConfig, Go, LockConfig, LockInv, ControlOK, shared,
        Starting, MainHoldsConfig, IwHoldsConfig, IwHoldsWorker,
        CwHoldsConfig, CwHoldsWorker
  <1>5. CASE iwLockWorker
    BY <1>5 DEF iwLockWorker, Go, LockWorker, LockInv, ControlOK, shared,
        Starting, MainHoldsConfig, IwHoldsConfig, IwHoldsWorker,
        CwHoldsConfig, CwHoldsWorker
  <1>6. CASE iwPlan
    BY <1>6 DEF iwPlan, Go, LockInv, ControlOK, shared, Starting,
        MainHoldsConfig, IwHoldsConfig, IwHoldsWorker, CwHoldsConfig,
        CwHoldsWorker
  <1>7. CASE iwRepository
    BY <1>7 DEF iwRepository, DockerChanges, Go, LockInv, ControlOK, shared,
        Starting, MainHoldsConfig, IwHoldsConfig, IwHoldsWorker,
        CwHoldsConfig, CwHoldsWorker
  <1>8. CASE iwFlush
    BY <1>8 DEF iwFlush, Go, LockInv, ControlOK, shared, Starting,
        MainHoldsConfig, IwHoldsConfig, IwHoldsWorker, CwHoldsConfig,
        CwHoldsWorker
  <1>9. CASE iwSendOnClosed
    BY <1>9 DEF iwSendOnClosed, End, LockInv, ControlOK, shared, Starting,
        MainHoldsConfig, IwHoldsConfig, IwHoldsWorker, CwHoldsConfig,
        CwHoldsWorker
  <1>10. CASE iwUnlockWorker
    BY <1>10 DEF iwUnlockWorker, Go, UnlockWorker, LockInv, ControlOK,
        shared, Starting, MainHoldsConfig, IwHoldsConfig, IwHoldsWorker,
        CwHoldsConfig, CwHoldsWorker
  <1>11. CASE iwUnlockConfig
    BY <1>11 DEF iwUnlockConfig, Go, UnlockConfig, LockInv, ControlOK,
        shared, Starting, MainHoldsConfig, IwHoldsConfig, IwHoldsWorker,
        CwHoldsConfig, CwHoldsWorker
  <1>12. CASE iwKillOldTimer
    BY <1>12 DEF iwKillOldTimer, killRecheckTimer, Go, End, LockInv,
        ControlOK, shared, Starting, MainHoldsConfig, IwHoldsConfig,
        IwHoldsWorker, CwHoldsConfig, CwHoldsWorker
  <1>13. CASE iwTimerLock
    BY <1>13 DEF iwTimerLock, Go, LockConfig, LockInv, ControlOK, shared,
        Starting, MainHoldsConfig, IwHoldsConfig, IwHoldsWorker,
        CwHoldsConfig, CwHoldsWorker
  <1>14. CASE iwTimerNew
    BY <1>14 DEF iwTimerNew, Go, LockInv, ControlOK, shared, Starting,
        MainHoldsConfig, IwHoldsConfig, IwHoldsWorker, CwHoldsConfig,
        CwHoldsWorker
  <1>15. CASE iwTimerSet
    BY <1>15 DEF iwTimerSet, Go, End, LockInv, ControlOK, shared, Starting,
        MainHoldsConfig, IwHoldsConfig, IwHoldsWorker, CwHoldsConfig,
        CwHoldsWorker
  <1>16. CASE iwTimerUnlock
    BY <1>16 DEF iwTimerUnlock, Go, UnlockConfig, LockInv, ControlOK, shared,
        Starting, MainHoldsConfig, IwHoldsConfig, IwHoldsWorker,
        CwHoldsConfig, CwHoldsWorker
  <1>17. CASE iwEnterSelect
    BY <1>17 DEF iwEnterSelect, Go, End, LockInv, ControlOK, shared,
        Starting, MainHoldsConfig, IwHoldsConfig, IwHoldsWorker,
        CwHoldsConfig, CwHoldsWorker
  <1>18. CASE iwQuits
    BY <1>18 DEF iwQuits, Go, LockInv, ControlOK, shared, Starting,
        MainHoldsConfig, IwHoldsConfig, IwHoldsWorker, CwHoldsConfig,
        CwHoldsWorker
  <1>19. CASE iwTimerElapses
    BY <1>19 DEF iwTimerElapses, Go, LockInv, ControlOK, shared, Starting,
        MainHoldsConfig, IwHoldsConfig, IwHoldsWorker, CwHoldsConfig,
        CwHoldsWorker
  <1>20. CASE iwWoken
    BY <1>20 DEF iwWoken, Go, LockInv, ControlOK, shared, Starting,
        MainHoldsConfig, IwHoldsConfig, IwHoldsWorker, CwHoldsConfig,
        CwHoldsWorker
  <1> QED
    BY <1>1, <1>2, <1>3, <1>4, <1>5, <1>6, <1>7, <1>8, <1>9, <1>10,
       <1>11, <1>12, <1>13, <1>14, <1>15, <1>16, <1>17, <1>18, <1>19, <1>20
    DEF ImageWorker, ImagePass, ImageSleep

\* The locks, in a step of the container worker.
LEMMA ContainerWorkerLock == ControlOK /\ LockInv /\ ContainerWorker => LockInv'
  <1> SUFFICES ASSUME ControlOK, LockInv, ContainerWorker PROVE LockInv'
    OBVIOUS
  <1>1. CASE cwLoop
    BY <1>1 DEF cwLoop, Go, LockInv, ControlOK, shared, Starting,
        MainHoldsConfig, IwHoldsConfig, IwHoldsWorker, CwHoldsConfig,
        CwHoldsWorker
  <1>2. CASE cwDrain
    BY <1>2 DEF cwDrain, Receive, Offering, AfterSend, Go, LockInv,
        ControlOK, shared, Starting, MainHoldsConfig, IwHoldsConfig,
        IwHoldsWorker, CwHoldsConfig, CwHoldsWorker
  <1>3. CASE cwLockConfig
    BY <1>3 DEF cwLockConfig, Go, LockConfig, LockInv, ControlOK, shared,
        Starting, MainHoldsConfig, IwHoldsConfig, IwHoldsWorker,
        CwHoldsConfig, CwHoldsWorker
  <1>4. CASE cwLockWorker
    BY <1>4 DEF cwLockWorker, Go, LockWorker, LockInv, ControlOK, shared,
        Starting, MainHoldsConfig, IwHoldsConfig, IwHoldsWorker,
        CwHoldsConfig, CwHoldsWorker
  <1>5. CASE cwList
    BY <1>5 DEF cwList, Go, LockInv, ControlOK, shared, Starting,
        MainHoldsConfig, IwHoldsConfig, IwHoldsWorker, CwHoldsConfig,
        CwHoldsWorker
  <1>6. CASE cwBackoff
    BY <1>6 DEF cwBackoff, Receive, Offering, AfterSend, Go, LockInv,
        ControlOK, shared, Starting, MainHoldsConfig, IwHoldsConfig,
        IwHoldsWorker, CwHoldsConfig, CwHoldsWorker
  <1>7. CASE cwImages
    BY <1>7 DEF cwImages, Go, LockInv, ControlOK, shared, Starting,
        MainHoldsConfig, IwHoldsConfig, IwHoldsWorker, CwHoldsConfig,
        CwHoldsWorker
  <1>8. CASE cwWork
    BY <1>8 DEF cwWork, Go, LockInv, ControlOK, shared, Starting,
        MainHoldsConfig, IwHoldsConfig, IwHoldsWorker, CwHoldsConfig,
        CwHoldsWorker
  <1>9. CASE cwUnlockWorker
    BY <1>9 DEF cwUnlockWorker, Go, UnlockWorker, LockInv, ControlOK, shared,
        Starting, MainHoldsConfig, IwHoldsConfig, IwHoldsWorker,
        CwHoldsConfig, CwHoldsWorker
  <1>10. CASE cwUnlockConfig
    BY <1>10 DEF cwUnlockConfig, Go, UnlockConfig, LockInv, ControlOK,
        shared, Starting, MainHoldsConfig, IwHoldsConfig, IwHoldsWorker,
        CwHoldsConfig, CwHoldsWorker
  <1>11. CASE cwFlush
    BY <1>11 DEF cwFlush, Go, LockInv, ControlOK, shared, Starting,
        MainHoldsConfig, IwHoldsConfig, IwHoldsWorker, CwHoldsConfig,
        CwHoldsWorker
  <1>12. CASE cwQuits
    BY <1>12 DEF cwQuits, Go, LockInv, ControlOK, shared, Starting,
        MainHoldsConfig, IwHoldsConfig, IwHoldsWorker, CwHoldsConfig,
        CwHoldsWorker
  <1>13. CASE cwEvent
    BY <1>13 DEF cwEvent, Go, LockInv, ControlOK, shared, Starting,
        MainHoldsConfig, IwHoldsConfig, IwHoldsWorker, CwHoldsConfig,
        CwHoldsWorker
  <1>14. CASE cwWoken
    BY <1>14 DEF cwWoken, Receive, Offering, AfterSend, LockInv, ControlOK,
        shared, Starting, MainHoldsConfig, IwHoldsConfig, IwHoldsWorker,
        CwHoldsConfig, CwHoldsWorker
  <1> QED
    BY <1>1, <1>2, <1>3, <1>4, <1>5, <1>6, <1>7, <1>8, <1>9, <1>10,
       <1>11, <1>12, <1>13, <1>14
    DEF ContainerWorker, ContainerPass

(***************************************************************************)
(* Which configuration the workers have seen.                              *)
(***************************************************************************)

IwPassing == {"repo", "wakeContainer", "flush", "unlockWorker", "unlockConfig"}
CwPassing == {"backoff", "images", "work", "unlockWorker", "unlockConfig"}

\* The image worker has the configuration, or will get it.
IwAware == \/ iwSeen = config
           \/ pc["main"] \in Starting \cup Announcing
           \/ iwWake = TRUE
           \/ pc["iw"] \in IwBeforePlan

CwAware == \/ cwSeen = config
           \/ pc["main"] \in Starting \cup Announcing \cup {"wakeContainer"}
           \/ pc["cw"] \in CwBeforeList

SeenInv ==
    /\ pc["iw"] \in IwPassing => iwSeen = config
    /\ pc["cw"] \in CwPassing => cwSeen = config
    /\ config.whole = TRUE => IwAware /\ CwAware

\* What the workers have seen, in a step of Main.
LEMMA MainSeen == ControlOK /\ DataOK /\ LockInv /\ SeenInv /\ Main => SeenInv'
  <1> SUFFICES ASSUME ControlOK, DataOK, LockInv, SeenInv, Main PROVE SeenInv'
    OBVIOUS
  <1>1. CASE initConfig
    BY <1>1 DEF initConfig, Go, End, SeenInv, IwPassing, CwPassing, IwAware,
        CwAware, Starting, Announcing, IwBeforePlan, CwBeforeList, ControlOK,
        shared, iwVars, cwVars, AfterRead, LockInv, DataOK, MainHoldsConfig,
        IwHoldsConfig, IwHoldsWorker, CwHoldsConfig, CwHoldsWorker
  <1>2. CASE initWorkers
    BY <1>2 DEF initWorkers, Go, End, SeenInv, IwPassing, CwPassing, IwAware,
        CwAware, Starting, Announcing, IwBeforePlan, CwBeforeList, ControlOK,
        shared, iwVars, cwVars
  <1>3. CASE startWatching
    BY <1>3 DEF startWatching, Go, End, SeenInv, IwPassing, CwPassing,
        IwAware, CwAware, Starting, Announcing, IwBeforePlan, CwBeforeList,
        ControlOK, shared, iwVars, cwVars
  <1>4. CASE takeEvent
    BY <1>4 DEF takeEvent, Go, SeenInv, IwPassing, CwPassing, IwAware,
        CwAware, Starting, Announcing, IwBeforePlan, CwBeforeList, ControlOK,
        shared, iwVars, cwVars
  <1>5. CASE lockToRead
    BY <1>5 DEF lockToRead, Go, LockConfig, SeenInv, IwPassing, CwPassing,
        IwAware, CwAware, Starting, Announcing, IwBeforePlan, CwBeforeList,
        ControlOK, shared, iwVars, cwVars
  <1>6. CASE readFrom
    BY <1>6 DEF readFrom, Go, SeenInv, IwPassing, CwPassing, IwAware,
        CwAware, Starting, Announcing, IwBeforePlan, CwBeforeList, ControlOK,
        shared, iwVars, cwVars, AfterRead, LockInv, DataOK, MainHoldsConfig,
        IwHoldsConfig, IwHoldsWorker, CwHoldsConfig, CwHoldsWorker
  <1>7. CASE unlockRead
    BY <1>7 DEF unlockRead, Go, UnlockConfig, SeenInv, IwPassing, CwPassing,
        IwAware, CwAware, Starting, Announcing, IwBeforePlan, CwBeforeList,
        ControlOK, shared, iwVars, cwVars
  <1>8. CASE triggerConfRecheck
    BY <1>8 DEF triggerConfRecheck, killRecheckTimer, Go, End, SeenInv,
        IwPassing, CwPassing, IwAware, CwAware, Starting, Announcing,
        IwBeforePlan, CwBeforeList, ControlOK, shared, iwVars, cwVars
  <1>9. CASE wakeImage
    BY <1>9 DEF wakeImage, Go, SeenInv, IwPassing, CwPassing, IwAware,
        CwAware, Starting, Announcing, IwBeforePlan, CwBeforeList, ControlOK,
        shared, iwVars, cwVars
  <1>10. CASE rewatch
    BY <1>10 DEF rewatch, Go, SeenInv, IwPassing, CwPassing, IwAware,
        CwAware, Starting, Announcing, IwBeforePlan, CwBeforeList, ControlOK,
        shared, iwVars, cwVars
  <1>11. CASE takeSignal
    BY <1>11 DEF takeSignal, Go, SeenInv, IwPassing, CwPassing, IwAware,
        CwAware, Starting, Announcing, IwBeforePlan, CwBeforeList, ControlOK,
        shared, iwVars, cwVars
  <1>12. CASE quitContainerWorker
    BY <1>12 DEF quitContainerWorker, Go, SeenInv, IwPassing, CwPassing,
        IwAware, CwAware, Starting, Announcing, IwBeforePlan, CwBeforeList,
        ControlOK, shared, iwVars, cwVars
  <1>13. CASE quitImageWorker
    BY <1>13 DEF quitImageWorker, Go, SeenInv, IwPassing, CwPassing, IwAware,
        CwAware, Starting, Announcing, IwBeforePlan, CwBeforeList, ControlOK,
        shared, iwVars, cwVars
  <1>14. CASE mainReturns
    BY <1>14 DEF mainReturns, End, SeenInv, IwPassing, CwPassing, IwAware,
        CwAware, Starting, Announcing, IwBeforePlan, CwBeforeList, ControlOK,
        shared, iwVars, cwVars
  <1>15. CASE nilWatcher
    BY <1>15 DEF nilWatcher, End, SeenInv, IwPassing, CwPassing, IwAware,
        CwAware, Starting, Announcing, IwBeforePlan, CwBeforeList, ControlOK,
        shared, iwVars, cwVars
  <1> QED
    BY <1>1, <1>2, <1>3, <1>4, <1>5, <1>6, <1>7, <1>8, <1>9, <1>10,
       <1>11, <1>12, <1>13, <1>14, <1>15
    DEF Main, Startup, Reload, Shutdown

\* What the workers have seen, in a step of the image worker.
LEMMA ImageWorkerSeen == ControlOK /\ SeenInv /\ ImageWorker => SeenInv'
  <1> SUFFICES ASSUME ControlOK, SeenInv, ImageWorker PROVE SeenInv'
    OBVIOUS
  <1>1. CASE iwLoop
    BY <1>1 DEF iwLoop, Go, SeenInv, IwPassing, CwPassing, IwAware, CwAware,
        Starting, Announcing, IwBeforePlan, CwBeforeList, ControlOK, shared,
        iwVars, cwVars
  <1>2. CASE iwKillTimer
    BY <1>2 DEF iwKillTimer, killRecheckTimer, Go, End, SeenInv, IwPassing,
        CwPassing, IwAware, CwAware, Starting, Announcing, IwBeforePlan,
        CwBeforeList, ControlOK, shared, iwVars, cwVars
  <1>3. CASE iwResetUnsolved
    BY <1>3 DEF iwResetUnsolved, Go, SeenInv, IwPassing, CwPassing, IwAware,
        CwAware, Starting, Announcing, IwBeforePlan, CwBeforeList, ControlOK,
        shared, iwVars, cwVars
  <1>4. CASE iwLockConfig
    BY <1>4 DEF iwLockConfig, Go, LockConfig, SeenInv, IwPassing, CwPassing,
        IwAware, CwAware, Starting, Announcing, IwBeforePlan, CwBeforeList,
        ControlOK, shared, iwVars, cwVars
  <1>5. CASE iwLockWorker
    BY <1>5 DEF iwLockWorker, Go, LockWorker, SeenInv, IwPassing, CwPassing,
        IwAware, CwAware, Starting, Announcing, IwBeforePlan, CwBeforeList,
        ControlOK, shared, iwVars, cwVars
  <1>6. CASE iwPlan
    BY <1>6 DEF iwPlan, Go, SeenInv, IwPassing, CwPassing, IwAware, CwAware,
        Starting, Announcing, IwBeforePlan, CwBeforeList, ControlOK, shared,
        iwVars, cwVars
  <1>7. CASE iwRepository
    BY <1>7 DEF iwRepository, DockerChanges, Go, SeenInv, IwPassing,
        CwPassing, IwAware, CwAware, Starting, Announcing, IwBeforePlan,
        CwBeforeList, ControlOK, shared, iwVars, cwVars
  <1>8. CASE iwFlush
    BY <1>8 DEF iwFlush, Go, SeenInv, IwPassing, CwPassing, IwAware, CwAware,
        Starting, Announcing, IwBeforePlan, CwBeforeList, ControlOK, shared,
        iwVars, cwVars
  <1>9. CASE iwSendOnClosed
    BY <1>9 DEF iwSendOnClosed, End, SeenInv, IwPassing, CwPassing, IwAware,
        CwAware, Starting, Announcing, IwBeforePlan, CwBeforeList, ControlOK,
        shared, iwVars, cwVars
  <1>10. CASE iwUnlockWorker
    BY <1>10 DEF iwUnlockWorker, Go, UnlockWorker, SeenInv, IwPassing,
        CwPassing, IwAware, CwAware, Starting, Announcing, IwBeforePlan,
        CwBeforeList, ControlOK, shared, iwVars, cwVars
  <1>11. CASE iwUnlockConfig
    BY <1>11 DEF iwUnlockConfig, Go, UnlockConfig, SeenInv, IwPassing,
        CwPassing, IwAware, CwAware, Starting, Announcing, IwBeforePlan,
        CwBeforeList, ControlOK, shared, iwVars, cwVars
  <1>12. CASE iwKillOldTimer
    BY <1>12 DEF iwKillOldTimer, killRecheckTimer, Go, End, SeenInv,
        IwPassing, CwPassing, IwAware, CwAware, Starting, Announcing,
        IwBeforePlan, CwBeforeList, ControlOK, shared, iwVars, cwVars
  <1>13. CASE iwTimerLock
    BY <1>13 DEF iwTimerLock, Go, LockConfig, SeenInv, IwPassing, CwPassing,
        IwAware, CwAware, Starting, Announcing, IwBeforePlan, CwBeforeList,
        ControlOK, shared, iwVars, cwVars
  <1>14. CASE iwTimerNew
    BY <1>14 DEF iwTimerNew, Go, SeenInv, IwPassing, CwPassing, IwAware,
        CwAware, Starting, Announcing, IwBeforePlan, CwBeforeList, ControlOK,
        shared, iwVars, cwVars
  <1>15. CASE iwTimerSet
    BY <1>15 DEF iwTimerSet, Go, End, SeenInv, IwPassing, CwPassing, IwAware,
        CwAware, Starting, Announcing, IwBeforePlan, CwBeforeList, ControlOK,
        shared, iwVars, cwVars
  <1>16. CASE iwTimerUnlock
    BY <1>16 DEF iwTimerUnlock, Go, UnlockConfig, SeenInv, IwPassing,
        CwPassing, IwAware, CwAware, Starting, Announcing, IwBeforePlan,
        CwBeforeList, ControlOK, shared, iwVars, cwVars
  <1>17. CASE iwEnterSelect
    BY <1>17 DEF iwEnterSelect, Go, End, SeenInv, IwPassing, CwPassing,
        IwAware, CwAware, Starting, Announcing, IwBeforePlan, CwBeforeList,
        ControlOK, shared, iwVars, cwVars
  <1>18. CASE iwQuits
    BY <1>18 DEF iwQuits, Go, SeenInv, IwPassing, CwPassing, IwAware,
        CwAware, Starting, Announcing, IwBeforePlan, CwBeforeList, ControlOK,
        shared, iwVars, cwVars
  <1>19. CASE iwTimerElapses
    BY <1>19 DEF iwTimerElapses, Go, SeenInv, IwPassing, CwPassing, IwAware,
        CwAware, Starting, Announcing, IwBeforePlan, CwBeforeList, ControlOK,
        shared, iwVars, cwVars
  <1>20. CASE iwWoken
    BY <1>20 DEF iwWoken, Go, SeenInv, IwPassing, CwPassing, IwAware,
        CwAware, Starting, Announcing, IwBeforePlan, CwBeforeList, ControlOK,
        shared, iwVars, cwVars
  <1> QED
    BY <1>1, <1>2, <1>3, <1>4, <1>5, <1>6, <1>7, <1>8, <1>9, <1>10,
       <1>11, <1>12, <1>13, <1>14, <1>15, <1>16, <1>17, <1>18, <1>19, <1>20
    DEF ImageWorker, ImagePass, ImageSleep

\* What the workers have seen, in a step of the container worker.
LEMMA ContainerWorkerSeen == ControlOK /\ SeenInv /\ ContainerWorker => SeenInv'
  <1> SUFFICES ASSUME ControlOK, SeenInv, ContainerWorker PROVE SeenInv'
    OBVIOUS
  <1>1. CASE cwLoop
    BY <1>1 DEF cwLoop, Go, SeenInv, IwPassing, CwPassing, IwAware, CwAware,
        Starting, Announcing, IwBeforePlan, CwBeforeList, ControlOK, shared,
        iwVars, cwVars
  <1>2. CASE cwDrain
    BY <1>2 DEF cwDrain, Receive, Offering, AfterSend, Go, SeenInv,
        IwPassing, CwPassing, IwAware, CwAware, Starting, Announcing,
        IwBeforePlan, CwBeforeList, ControlOK, shared, iwVars, cwVars
  <1>3. CASE cwLockConfig
    BY <1>3 DEF cwLockConfig, Go, LockConfig, SeenInv, IwPassing, CwPassing,
        IwAware, CwAware, Starting, Announcing, IwBeforePlan, CwBeforeList,
        ControlOK, shared, iwVars, cwVars
  <1>4. CASE cwLockWorker
    BY <1>4 DEF cwLockWorker, Go, LockWorker, SeenInv, IwPassing, CwPassing,
        IwAware, CwAware, Starting, Announcing, IwBeforePlan, CwBeforeList,
        ControlOK, shared, iwVars, cwVars
  <1>5. CASE cwList
    BY <1>5 DEF cwList, Go, SeenInv, IwPassing, CwPassing, IwAware, CwAware,
        Starting, Announcing, IwBeforePlan, CwBeforeList, ControlOK, shared,
        iwVars, cwVars
  <1>6. CASE cwBackoff
    BY <1>6 DEF cwBackoff, Receive, Offering, AfterSend, Go, SeenInv,
        IwPassing, CwPassing, IwAware, CwAware, Starting, Announcing,
        IwBeforePlan, CwBeforeList, ControlOK, shared, iwVars, cwVars
  <1>7. CASE cwImages
    BY <1>7 DEF cwImages, Go, SeenInv, IwPassing, CwPassing, IwAware,
        CwAware, Starting, Announcing, IwBeforePlan, CwBeforeList, ControlOK,
        shared, iwVars, cwVars
  <1>8. CASE cwWork
    BY <1>8 DEF cwWork, Go, SeenInv, IwPassing, CwPassing, IwAware, CwAware,
        Starting, Announcing, IwBeforePlan, CwBeforeList, ControlOK, shared,
        iwVars, cwVars
  <1>9. CASE cwUnlockWorker
    BY <1>9 DEF cwUnlockWorker, Go, UnlockWorker, SeenInv, IwPassing,
        CwPassing, IwAware, CwAware, Starting, Announcing, IwBeforePlan,
        CwBeforeList, ControlOK, shared, iwVars, cwVars
  <1>10. CASE cwUnlockConfig
    BY <1>10 DEF cwUnlockConfig, Go, UnlockConfig, SeenInv, IwPassing,
        CwPassing, IwAware, CwAware, Starting, Announcing, IwBeforePlan,
        CwBeforeList, ControlOK, shared, iwVars, cwVars
  <1>11. CASE cwFlush
    BY <1>11 DEF cwFlush, Go, SeenInv, IwPassing, CwPassing, IwAware,
        CwAware, Starting, Announcing, IwBeforePlan, CwBeforeList, ControlOK,
        shared, iwVars, cwVars
  <1>12. CASE cwQuits
    BY <1>12 DEF cwQuits, Go, SeenInv, IwPassing, CwPassing, IwAware,
        CwAware, Starting, Announcing, IwBeforePlan, CwBeforeList, ControlOK,
        shared, iwVars, cwVars
  <1>13. CASE cwEvent
    BY <1>13 DEF cwEvent, Go, SeenInv, IwPassing, CwPassing, IwAware,
        CwAware, Starting, Announcing, IwBeforePlan, CwBeforeList, ControlOK,
        shared, iwVars, cwVars
  <1>14. CASE cwWoken
    BY <1>14 DEF cwWoken, Receive, Offering, AfterSend, SeenInv, IwPassing,
        CwPassing, IwAware, CwAware, Starting, Announcing, IwBeforePlan,
        CwBeforeList, ControlOK, shared, iwVars, cwVars
  <1> QED
    BY <1>1, <1>2, <1>3, <1>4, <1>5, <1>6, <1>7, <1>8, <1>9, <1>10,
       <1>11, <1>12, <1>13, <1>14
    DEF ContainerWorker, ContainerPass

(***************************************************************************)
(* The retry timer.                                                        *)
(***************************************************************************)

IwResting == {"timerUnlock", "enterSelect", "select"}

\* From the moment the timer is set, an unsolved requirement is waited for
\* with an armed timer, unless Main has stopped it and has still to wake.
RetryInv ==
    pc["iw"] \in IwResting /\ unsolved = TRUE /\ Rechecks = TRUE =>
        armed = TRUE \/ iwWake = TRUE \/ pc["main"] \in {"confClear", "wakeImage"}

\* The retry timer, in a step of Main.
LEMMA MainRetry == ControlOK /\ RetryInv /\ Main => RetryInv'
  <1> SUFFICES ASSUME ControlOK, RetryInv, Main PROVE RetryInv'
    OBVIOUS
  <1>1. CASE initConfig
    BY <1>1 DEF initConfig, Go, End, RetryInv, IwResting, ControlOK, timing,
        iwVars
  <1>2. CASE initWorkers
    BY <1>2 DEF initWorkers, Go, End, RetryInv, IwResting, ControlOK, timing,
        iwVars
  <1>3. CASE startWatching
    BY <1>3 DEF startWatching, Go, End, RetryInv, IwResting, ControlOK,
        timing, iwVars
  <1>4. CASE takeEvent
    BY <1>4 DEF takeEvent, Go, RetryInv, IwResting, ControlOK, timing, iwVars
  <1>5. CASE lockToRead
    BY <1>5 DEF lockToRead, Go, LockConfig, RetryInv, IwResting, ControlOK,
        timing, iwVars
  <1>6. CASE readFrom
    BY <1>6 DEF readFrom, Go, RetryInv, IwResting, ControlOK, timing, iwVars
  <1>7. CASE unlockRead
    BY <1>7 DEF unlockRead, Go, UnlockConfig, RetryInv, IwResting, ControlOK,
        timing, iwVars
  <1>8. CASE triggerConfRecheck
    BY <1>8 DEF triggerConfRecheck, killRecheckTimer, Go, End, RetryInv,
        IwResting, ControlOK, timing, iwVars
  <1>9. CASE wakeImage
    BY <1>9 DEF wakeImage, Go, RetryInv, IwResting, ControlOK, timing, iwVars
  <1>10. CASE rewatch
    BY <1>10 DEF rewatch, Go, RetryInv, IwResting, ControlOK, timing, iwVars
  <1>11. CASE takeSignal
    BY <1>11 DEF takeSignal, Go, RetryInv, IwResting, ControlOK, timing,
        iwVars
  <1>12. CASE quitContainerWorker
    BY <1>12 DEF quitContainerWorker, Go, RetryInv, IwResting, ControlOK,
        timing, iwVars
  <1>13. CASE quitImageWorker
    BY <1>13 DEF quitImageWorker, Go, RetryInv, IwResting, ControlOK, timing,
        iwVars
  <1>14. CASE mainReturns
    BY <1>14 DEF mainReturns, End, RetryInv, IwResting, ControlOK, timing,
        iwVars
  <1>15. CASE nilWatcher
    BY <1>15 DEF nilWatcher, End, RetryInv, IwResting, ControlOK, timing,
        iwVars
  <1> QED
    BY <1>1, <1>2, <1>3, <1>4, <1>5, <1>6, <1>7, <1>8, <1>9, <1>10,
       <1>11, <1>12, <1>13, <1>14, <1>15
    DEF Main, Startup, Reload, Shutdown

\* The retry timer, in a step of the image worker.
LEMMA ImageWorkerRetry == ControlOK /\ RetryInv /\ ImageWorker => RetryInv'
  <1> SUFFICES ASSUME ControlOK, RetryInv, ImageWorker PROVE RetryInv'
    OBVIOUS
  <1>1. CASE iwLoop
    BY <1>1 DEF iwLoop, Go, RetryInv, IwResting, ControlOK, timing, iwVars
  <1>2. CASE iwKillTimer
    BY <1>2 DEF iwKillTimer, killRecheckTimer, Go, End, RetryInv, IwResting,
        ControlOK, timing, iwVars
  <1>3. CASE iwResetUnsolved
    BY <1>3 DEF iwResetUnsolved, Go, RetryInv, IwResting, ControlOK, timing,
        iwVars
  <1>4. CASE iwLockConfig
    BY <1>4 DEF iwLockConfig, Go, LockConfig, RetryInv, IwResting, ControlOK,
        timing, iwVars
  <1>5. CASE iwLockWorker
    BY <1>5 DEF iwLockWorker, Go, LockWorker, RetryInv, IwResting, ControlOK,
        timing, iwVars
  <1>6. CASE iwPlan
    BY <1>6 DEF iwPlan, Go, RetryInv, IwResting, ControlOK, timing, iwVars
  <1>7. CASE iwRepository
    BY <1>7 DEF iwRepository, DockerChanges, Go, RetryInv, IwResting,
        ControlOK, timing, iwVars
  <1>8. CASE iwFlush
    BY <1>8 DEF iwFlush, Go, RetryInv, IwResting, ControlOK, timing, iwVars
  <1>9. CASE iwSendOnClosed
    BY <1>9 DEF iwSendOnClosed, End, RetryInv, IwResting, ControlOK, timing,
        iwVars
  <1>10. CASE iwUnlockWorker
    BY <1>10 DEF iwUnlockWorker, Go, UnlockWorker, RetryInv, IwResting,
        ControlOK, timing, iwVars
  <1>11. CASE iwUnlockConfig
    BY <1>11 DEF iwUnlockConfig, Go, UnlockConfig, RetryInv, IwResting,
        ControlOK, timing, iwVars
  <1>12. CASE iwKillOldTimer
    BY <1>12 DEF iwKillOldTimer, killRecheckTimer, Go, End, RetryInv,
        IwResting, ControlOK, timing, iwVars
  <1>13. CASE iwTimerLock
    BY <1>13 DEF iwTimerLock, Go, LockConfig, RetryInv, IwResting, ControlOK,
        timing, iwVars
  <1>14. CASE iwTimerNew
    BY <1>14 DEF iwTimerNew, Go, RetryInv, IwResting, ControlOK, timing,
        iwVars
  <1>15. CASE iwTimerSet
    <2>1. pc' # pc => (unsolved = TRUE /\ Rechecks = TRUE => armed' = TRUE)
      BY <1>15, Zenon DEF iwTimerSet, End
    <2>2. pc' = pc => armed' = armed
      BY <1>15 DEF iwTimerSet, End, Go, ControlOK
    <2>3. UNCHANGED <<unsolved, iwWake>>
      BY <1>15 DEF iwTimerSet, iwVars
    <2>4. pc["iw"] = "timerSet" /\ pc'["main"] = pc["main"]
      BY <1>15 DEF iwTimerSet, End, Go, ControlOK
    <2> QED
      BY <2>1, <2>2, <2>3, <2>4 DEF RetryInv
  <1>16. CASE iwTimerUnlock
    BY <1>16 DEF iwTimerUnlock, Go, UnlockConfig, RetryInv, IwResting,
        ControlOK, timing, iwVars
  <1>17. CASE iwEnterSelect
    BY <1>17 DEF iwEnterSelect, Go, End, RetryInv, IwResting, ControlOK,
        timing, iwVars
  <1>18. CASE iwQuits
    BY <1>18 DEF iwQuits, Go, RetryInv, IwResting, ControlOK, timing, iwVars
  <1>19. CASE iwTimerElapses
    BY <1>19 DEF iwTimerElapses, Go, RetryInv, IwResting, ControlOK, timing,
        iwVars
  <1>20. CASE iwWoken
    BY <1>20 DEF iwWoken, Go, RetryInv, IwResting, ControlOK, timing, iwVars
  <1> QED
    BY <1>1, <1>2, <1>3, <1>4, <1>5, <1>6, <1>7, <1>8, <1>9, <1>10,
       <1>11, <1>12, <1>13, <1>14, <1>15, <1>16, <1>17, <1>18, <1>19, <1>20
    DEF ImageWorker, ImagePass, ImageSleep

(***************************************************************************)
(* The inductive invariant and the theorems.                               *)
(***************************************************************************)

Inv == /\ ControlOK
       /\ DataOK
       /\ FlagsOK
       /\ RepoInv
       /\ LockInv
       /\ SeenInv
       /\ RetryInv

LEMMA InitInv == Init => Inv
  <1> SUFFICES ASSUME Init PROVE Inv
    OBVIOUS
  <1>1. ControlOK /\ DataOK /\ FlagsOK
    BY InitType DEF TypeOK
  <1>2. RepoInv
    BY DEF Init, RepoInv
  <1>3. LockInv
    BY DEF Init, LockInv, Starting, MainHoldsConfig, IwHoldsConfig,
           IwHoldsWorker, CwHoldsConfig, CwHoldsWorker
  <1>4. SeenInv
    BY DEF Init, SeenInv, IwPassing, CwPassing, IwAware, CwAware
  <1>5. RetryInv
    BY DEF Init, RetryInv, IwResting
  <1> QED
    BY <1>1, <1>2, <1>3, <1>4, <1>5 DEF Inv

\* Nothing the invariant mentions changes in a step that changes nothing.
LEMMA StutterInv == Inv /\ UNCHANGED vars => Inv'
  <1> SUFFICES ASSUME Inv, UNCHANGED vars PROVE Inv'
    OBVIOUS
  <1> USE DEF vars, ctl, os, shared, timing, iwVars, cwVars, docker
  <1>1. ControlOK' /\ DataOK'
    BY DEF Inv, ControlOK, DataOK
  <1>2. FlagsOK'
    BY Zenon DEF Inv, FlagsOK
  <1>3. RepoInv' /\ LockInv'
    BY DEF Inv, RepoInv, LockInv
  <1>4. SeenInv' /\ RetryInv'
    BY DEF Inv, SeenInv, IwAware, CwAware, RetryInv
  <1> QED
    BY <1>1, <1>2, <1>3, <1>4 DEF Inv

LEMMA NextInv == Inv /\ [Next]_vars => Inv'
  <1> SUFFICES ASSUME Inv, [Next]_vars PROVE Inv'
    OBVIOUS
  <1> USE DEF Inv
  <1>1. CASE Outside
    <2>1. DataOK' /\ FlagsOK'
      BY <1>1, OutsideData, OutsideFlags
    <2>2. UNCHANGED <<ctl, shared, timing, iwVars, cwVars>>
      BY <1>1, OutsideFrame
    <2>3. ControlOK' /\ RepoInv' /\ LockInv' /\ SeenInv' /\ RetryInv'
      BY <2>2 DEF ctl, shared, timing, iwVars, cwVars, ControlOK, RepoInv,
         LockInv, SeenInv, IwAware, CwAware, RetryInv
    <2> QED
      BY <2>1, <2>3
  <1>2. CASE Main
    <2>1. RepoInv'
      <3>1. CASE pc["main"] = "initWatchers"
        BY <1>2, <3>1 DEF Main, Startup, Reload, Shutdown, initConfig,
           initWorkers, startWatching, takeEvent, lockToRead, readFrom,
           unlockRead, triggerConfRecheck, killRecheckTimer, wakeImage, rewatch,
           takeSignal, quitContainerWorker, quitImageWorker, mainReturns,
           nilWatcher, Go, End, RepoInv, iwVars
      <3>2. CASE pc["main"] # "initWatchers"
        BY <1>2, <3>2, MainFrame DEF RepoInv
      <3> QED
        BY <3>1, <3>2
    <2> QED
      BY <1>2, <2>1, MainControl, MainData, MainFlags, MainLock, MainSeen,
         MainRetry
  <1>3. CASE ImageWorker
    BY <1>3, ImageWorkerControl, ImageWorkerData, ImageWorkerFlags,
       ImageWorkerRepo, ImageWorkerLock, ImageWorkerSeen, ImageWorkerRetry
  <1>4. CASE ContainerWorker
    <2>1. RepoInv' /\ RetryInv'
      BY <1>4, ContainerFrame DEF RepoInv, RetryInv, IwResting, timing, iwVars
    <2> QED
      BY <1>4, <2>1, ContainerWorkerControl, ContainerWorkerData,
         ContainerWorkerFlags, ContainerWorkerLock, ContainerWorkerSeen
  <1>5. CASE UNCHANGED vars
    BY <1>5, StutterInv
  <1>6. CASE Rest
    BY <1>6, StutterInv DEF Rest
  <1> QED
    BY <1>1, <1>2, <1>3, <1>4, <1>5, <1>6 DEF Next

\* The invariant holds in every reachable state.
THEOREM Invariance == Spec => []Inv
  <1>1. Init => Inv
    BY InitInv
  <1>2. Inv /\ [Next]_vars => Inv'
    BY NextInv
  <1> QED
    BY <1>1, <1>2, PTL DEF Spec

\* Every variable keeps its type.
THEOREM TypeCorrect == Spec => []TypeOK
  <1>1. Inv => TypeOK
    BY DEF Inv, TypeOK
  <1> QED
    BY <1>1, Invariance, PTL

\* An image pass and a container pass never overlap, whatever happens.
THEOREM Exclusion == Spec => []PassesExclude
  <1>1. Inv => PassesExclude
    BY DEF Inv, LockInv, PassesExclude
  <1> QED
    BY <1>1, Invariance, PTL

\* No worker sleeps on a configuration older than the one in memory unless a
\* wake is on its way, although both workers drop wakes.
THEOREM WakeupsArrive == Spec => []NoLostWakeup
  <1>1. Inv => NoLostWakeup
    <2> SUFFICES ASSUME Inv, config.whole PROVE NoLostWakeup
      BY DEF NoLostWakeup
    <2>1. config.whole = TRUE
      BY DEF Inv, DataOK, Configs
    <2>2. IwAware /\ CwAware
      BY <2>1 DEF Inv, SeenInv
    <2> QED
      BY <2>2 DEF IwAware, CwAware, NoLostWakeup
  <1> QED
    BY <1>1, Invariance, PTL

\* An unsolved requirement is never left without a timer or a wake.
THEOREM RetriesArePending == Spec => []RetryPending
  <1>1. Inv => RetryPending
    <2> SUFFICES ASSUME Inv, pc["iw"] = "select", unsolved, Rechecks
                 PROVE  armed \/ iwWake \/ pc["main"] \in {"confClear", "wakeImage"}
      BY DEF RetryPending
    <2>1. unsolved = TRUE /\ Rechecks = TRUE
      BY DaemonAssumption, Zenon DEF Inv, FlagsOK
    <2> QED
      BY <2>1 DEF Inv, RetryInv, IwResting
  <1> QED
    BY <1>1, Invariance, PTL

\* The image worker does not write the configuration.
LEMMA ImageKeepsConfig == ImageWorker => config' = config
  BY DEF ImageWorker, ImagePass, ImageSleep, iwLoop, iwKillTimer,
      iwResetUnsolved, iwLockConfig, iwLockWorker, iwPlan, iwRepository,
      iwFlush, iwSendOnClosed, iwUnlockWorker, iwUnlockConfig,
      iwKillOldTimer, iwTimerLock, iwTimerNew, iwTimerSet, iwTimerUnlock,
      iwEnterSelect, iwQuits, iwTimerElapses, iwWoken, shared

\* Main writes it while the workers do not run yet or with the lock held.
LEMMA MainChangesConfig ==
  Main /\ config' # config => pc["main"] \in {"initConfig", "readFrom"}
  BY DEF Main, Startup, Reload, Shutdown, initConfig, initWorkers,
      startWatching, takeEvent, lockToRead, readFrom, unlockRead,
      triggerConfRecheck, wakeImage, rewatch, takeSignal,
      quitContainerWorker, quitImageWorker, mainReturns, nilWatcher, Go, End,
      shared

\* The configuration never changes under a worker that holds its lock.
THEOREM ConfigIsStable == Spec => ConfigStable
  <1> DEFINE Step == [ config' # config => /\ pc["iw"] \notin IwHoldsConfig
                                           /\ pc["cw"] \notin CwHoldsConfig ]_vars
  <1>1. Inv /\ [Next]_vars => Step
    <2> SUFFICES ASSUME Inv, Next, config' # config
                 PROVE  pc["iw"] \notin IwHoldsConfig /\ pc["cw"] \notin CwHoldsConfig
      OBVIOUS
    <2>1. pc["main"] \in {"initConfig", "readFrom"}
      BY OutsideFrame, MainChangesConfig, ImageKeepsConfig, ContainerFrame
      DEF Next, Rest, Inv, shared, vars
    <2>2. LockInv
      BY DEF Inv
    <2> QED
      BY <2>1, <2>2 DEF LockInv, Starting, MainHoldsConfig, IwHoldsConfig,
                        IwHoldsWorker, CwHoldsConfig, CwHoldsWorker
  <1> QED
    BY <1>1, Invariance, PTL DEF Spec, ConfigStable

=============================================================================
