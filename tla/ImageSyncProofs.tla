--------------------------- MODULE ImageSyncProofs ---------------------------
(***************************************************************************)
(* Theorems about ImageSync, for every set of hosts, targets, tags and     *)
(* configurations, and every number of changes and faults: its variables   *)
(* keep their types, the worker implements Device, and a pass without a    *)
(* failure or a change fetches the best that there is.                     *)
(***************************************************************************)
EXTENDS ImageSync, SequenceTheorems, WellFoundedInduction, TLAPS

USE ImageSyncAssumption

Wanted      == DOMAIN config.targets
Versions(t) == config.targets[t].versions
Repos       == config.repos

\* What Device asks of a target.
Good(t) ==
    IF Versions(t) # <<>> THEN Versions(t)[1] \in images[t]
    ELSE config.targets[t].useAny => images[t] # {}

\* The worker will look again, or a pull failed and it does not know.
Unsure == unsolved \/ unnoticed

\* A pass is under way, ...
Busy == pc \in {"ask", "pull", "attempt", "tag", "round"}
\* ... and a target is being pulled.
Working == pc \in {"attempt", "tag"}

WorldOK ==
    /\ images \in [Targets -> SUBSET Tags]
    /\ pulled \subseteq Hosts \X Targets \X Tags
    /\ held \in Held
    /\ config \in Configs

ControlOK ==
    /\ pc \in Phases
    /\ todo \subseteq Targets
    /\ changes \in 0 .. MaxChanges /\ faults \in 0 .. MaxFaults

FlagsOK ==
    /\ unsolved \in BOOLEAN /\ wake \in BOOLEAN /\ timer \in BOOLEAN
    /\ judged \in BOOLEAN /\ unnoticed \in BOOLEAN /\ clean \in BOOLEAN

\* What is fetched are versions of targets, the best of them first; targets that
\* are not fetched are good as they are.
PlanOK ==
    Busy =>
        /\ DOMAIN want \subseteq Wanted
        /\ \A t \in Wanted \ DOMAIN want : Good(t)
        /\ \A t \in DOMAIN want : \A i \in DOMAIN want[t] :
              i \in DOMAIN Versions(t) /\ want[t][i] = Versions(t)[i]
        /\ repo \in 0 .. Len(Repos)

\* What is pulled is one of the attempts for the target.
RoundOK ==
    /\ pc \in {"ask", "pull", "attempt", "tag"} => todo \subseteq DOMAIN want
    /\ Working => current[1] \in DOMAIN want /\ left \subseteq Attempts(current[1])
    /\ pc = "tag" => current[2] \in Attempts(current[1])

\* Targets that this round, or an earlier one, is done with are good, unless the
\* worker is to look again, or a pull failed unnoticed.
SolvedOK ==
    /\ pc \in {"pull", "attempt", "tag"} =>
          Unsure \/ \A t \in DOMAIN want \ todo : (Working /\ t = current[1]) \/ Good(t)
    /\ judged /\ Busy => Unsure \/ \A t \in DOMAIN want : Good(t)

ImageInv == WorldOK /\ ControlOK /\ FlagsOK /\ PlanOK /\ RoundOK /\ SolvedOK

-----------------------------------------------------------------------------
(* What the assumptions say of a configuration and of the registries.         *)

LEMMA ConfigFacts ==
    ASSUME config \in Configs
    PROVE  /\ Wanted \subseteq Targets
           /\ \A t \in Wanted : Versions(t) \in Seq(Tags)
           /\ Len(Repos) \in Nat
           /\ \A k \in 1 .. Len(Repos) : Source(Repos[k]) \in Hosts
<1>1. /\ DOMAIN config.targets \subseteq Targets
      /\ \A t \in DOMAIN config.targets :
            config.targets[t] \in [versions : Seq(Tags), useAny : BOOLEAN]
      /\ config.repos \in Seq([host : Hosts, parses : BOOLEAN, insecure : BOOLEAN,
                               prefix : Hosts \cup {NoPrefix}, creds : BOOLEAN])
  BY DEF ImageSyncAssumption
<1>2. \A t \in Wanted : Versions(t) \in Seq(Tags)
  BY <1>1 DEF Wanted, Versions
<1>3. Len(Repos) \in Nat
  BY <1>1, LenProperties DEF Repos
<1>4. ASSUME NEW k \in 1 .. Len(Repos) PROVE Source(Repos[k]) \in Hosts
  <2>1. Repos[k] \in [host : Hosts, parses : BOOLEAN, insecure : BOOLEAN,
                      prefix : Hosts \cup {NoPrefix}, creds : BOOLEAN]
    BY <1>1, ElementOfSeq DEF Repos
  <2>2. Repos[k].prefix \in Hosts \cup {NoPrefix}
    BY <2>1
  <2>3. DefaultV2Registry \in Hosts
    BY EndpointsAssumption DEF EndpointsAssumption, HubHosts
  <2>. QED
    BY <2>2, <2>3 DEF Source
<1>. QED
  BY <1>1, <1>2, <1>3, <1>4 DEF Wanted

\* The least element of a set of positions.
LEMMA LeastPosition ==
    ASSUME NEW S \in SUBSET Nat, S # {}
    PROVE  Min(S) \in S
<1> DEFINE Less == OpToRel(<, Nat)
<1>1. Less = {p \in Nat \X Nat : p[1] < p[2]}
  BY Zenon DEF OpToRel
<1>2. PICK x \in S : \A y \in S : <<y, x>> \notin Less
  BY Zenon, NatLessThanWellFounded, WFMin
<1> HIDE DEF Less
<1>3. ASSUME NEW y \in S PROVE x <= y
  <2>1. y \in Nat /\ x \in Nat
    OBVIOUS
  <2>2. ~(y < x)
    BY <1>1, <1>2, <2>1
  <2>. QED
    BY <2>1, <2>2
<1>. QED
  BY <1>3 DEF Min

\* What is needed are versions, in their places.
LEMMA NeededTagsAreVersions ==
    ASSUME NEW versions \in Seq(Tags), NEW have, NEW i \in DOMAIN NeededTags(versions, have)
    PROVE  i \in DOMAIN versions /\ NeededTags(versions, have)[i] = versions[i]
<1> DEFINE listed == {j \in DOMAIN versions : versions[j] \in have}
<1>1. DOMAIN versions = 1 .. Len(versions) /\ Len(versions) \in Nat
  BY LenProperties
<1>2. CASE listed = {}
  BY <1>2 DEF NeededTags
<1>3. CASE listed # {}
  <2>1. listed \in SUBSET Nat
    BY <1>1
  <2>2. PICK m \in listed : m = Min(listed)
    BY <1>3, <2>1, LeastPosition
  <2>3. m \in 1 .. Len(versions)
    BY <1>1
  <2>4. NeededTags(versions, have) = SubSeq(versions, 1, m - 1)
    BY <1>3, <2>2 DEF NeededTags
  <2>5. SubSeq(versions, 1, m - 1) = [j \in 1 .. m - 1 |-> versions[j]]
    BY <1>1, <2>3
  <2>. QED
    BY <1>1, <2>3, <2>4, <2>5
<1>. QED
  BY <1>2, <1>3

\* What is to be fetched, and why the rest is not.
LEMMA ToFetchIsNeeded ==
    ASSUME WorldOK, NEW plan0, plan0 = ToFetch(config, images)
    PROVE  /\ DOMAIN plan0 \subseteq Wanted
           /\ \A t \in Wanted \ DOMAIN plan0 : Good(t)
           /\ \A t \in DOMAIN plan0 : \A i \in DOMAIN plan0[t] :
                 i \in DOMAIN Versions(t) /\ plan0[t][i] = Versions(t)[i]
<1>1. \A t \in Wanted : Versions(t) \in Seq(Tags)
  BY ConfigFacts DEF WorldOK
<1>2. DOMAIN plan0 \subseteq Wanted
  BY DEF ToFetch, Wanted
<1>3. ASSUME NEW t \in Wanted \ DOMAIN plan0 PROVE Good(t)
  BY DEF ToFetch, Wanted, Good, Versions
<1>4. ASSUME NEW t \in DOMAIN plan0, NEW i \in DOMAIN plan0[t]
      PROVE  i \in DOMAIN Versions(t) /\ plan0[t][i] = Versions(t)[i]
  <2>1. plan0[t] = NeededTags(Versions(t), images[t])
    BY <1>2 DEF ToFetch, Wanted, Versions
  <2>2. Versions(t) \in Seq(Tags)
    BY <1>1, <1>2
  <2>. QED
    BY <2>1, <2>2, NeededTagsAreVersions
<1>. QED
  BY <1>2, <1>3, <1>4

\* What good means does not change while the configuration and the images do not.
LEMMA GoodKept ==
    ASSUME config' = config, images' = images
    PROVE  /\ Wanted' = Wanted /\ Repos' = Repos
           /\ \A t : Versions(t)' = Versions(t) /\ (Good(t)' <=> Good(t))
BY DEF Wanted, Repos, Versions, Good

\* A target that gets an image stays good, and is if it was its first version.
LEMMA GoodGrows ==
    ASSUME WorldOK, config' = config,
           NEW x \in Targets, NEW tag, images' = [images EXCEPT ![x] = @ \cup {tag}]
    PROVE  /\ Wanted' = Wanted /\ Repos' = Repos
           /\ \A t : Versions(t)' = Versions(t)
           /\ \A t \in Targets : Good(t) => Good(t)'
           /\ tag = Versions(x)[1] => Good(x)'
BY DEF WorldOK, Wanted, Repos, Versions, Good

\* The attempts for a target do not change while the plan does not.
LEMMA AttemptsKept ==
    ASSUME UNCHANGED plan
    PROVE  \A t : Attempts(t)' = Attempts(t)
BY DEF plan, Attempts

-----------------------------------------------------------------------------

LEMMA InitImage == Init => ImageInv
<1>1. Init => WorldOK /\ ControlOK /\ PlanOK /\ RoundOK /\ SolvedOK
  BY DEF ImageSyncAssumption, Init, WorldOK, ControlOK, PlanOK, RoundOK, SolvedOK, Unsure, Busy, Working,
     Phases
<1>2. Init => FlagsOK
  BY Zenon DEF Init, FlagsOK
<1>. QED
  BY <1>1, <1>2 DEF ImageInv

LEMMA KeptByRegistryChanges ==
    ASSUME ImageInv, NEW host \in Hosts, NEW x \in Targets, NEW tag \in Tags,
           RegistryChanges(host, x, tag)
    PROVE  ImageInv'
<1>1. /\ UNCHANGED <<images, pulled, config, pc, plan, round, unsolved, sleep, judged, unnoticed,
                     faults>>
      /\ clean' = FALSE /\ changes < MaxChanges /\ changes' = changes + 1
  BY DEF RegistryChanges, Disturb
<1>2. WorldOK'
  <2>1. held' = [held EXCEPT ![host][x] = IF tag \in @ THEN @ \ {tag} ELSE @ \cup {tag}]
    BY DEF RegistryChanges
  <2>. QED
    BY <1>1, <2>1 DEF ImageInv, WorldOK, Held
<1>3. ControlOK'
  BY <1>1 DEF ImageInv, ControlOK, round, ImageSyncAssumption
<1>4. FlagsOK'
  BY Zenon, <1>1 DEF ImageInv, FlagsOK, sleep
<1>5. PlanOK' /\ RoundOK' /\ SolvedOK'
  BY <1>1, GoodKept, AttemptsKept DEF ImageInv, PlanOK, RoundOK, SolvedOK, Unsure, plan, round, Busy, Working
<1>. QED
  BY <1>2, <1>3, <1>4, <1>5 DEF ImageInv

LEMMA KeptByReconfigure ==
    ASSUME ImageInv, NEW cfg \in Configs, Reconfigure(cfg)
    PROVE  ImageInv'
<1>1. /\ UNCHANGED <<images, pulled, held, pc, plan, round, unsolved, judged, unnoticed, faults>>
      /\ pc = "rest" /\ config' = cfg
      /\ clean' = FALSE /\ timer' = FALSE /\ wake' = TRUE
      /\ changes < MaxChanges /\ changes' = changes + 1
  BY DEF Reconfigure, Disturb, Asleep
<1>2. WorldOK' /\ ControlOK'
  BY <1>1 DEF ImageInv, WorldOK, ControlOK, round, ImageSyncAssumption
<1>3. FlagsOK'
  BY Zenon, <1>1 DEF ImageInv, FlagsOK
<1>4. PlanOK' /\ RoundOK' /\ SolvedOK'
  BY <1>1 DEF PlanOK, RoundOK, SolvedOK, Unsure, Busy, Working
<1>. QED
  BY <1>2, <1>3, <1>4 DEF ImageInv

LEMMA KeptByStart ==
    ASSUME ImageInv, Start PROVE ImageInv'
<1>1. /\ UNCHANGED <<world, round, wake, changes>>
      /\ unsolved' = FALSE /\ unnoticed' = FALSE /\ repo' = 0
  BY DEF Start
<1>2. WorldOK'
  BY <1>1 DEF ImageInv, WorldOK, world
<1>3. \/ pc' = "rest"
      \/ pc' = "round" /\ want' = ToFetch(config, images) /\ judged' = FALSE
  BY DEF Start, Rest
<1>4. faults' \in 0 .. MaxFaults
  <2>1. faults' = faults \/ (faults < MaxFaults /\ faults' = faults + 1)
    BY Zenon DEF Start, Fault
  <2>. QED
    BY <2>1 DEF ImageInv, ControlOK, ImageSyncAssumption
<1>5. ControlOK'
  BY <1>1, <1>3, <1>4 DEF ImageInv, ControlOK, round, Phases
<1>6. FlagsOK'
  <2>1. /\ clean' \in BOOLEAN /\ wake' \in BOOLEAN
        /\ unsolved' \in BOOLEAN /\ unnoticed' \in BOOLEAN
    BY Zenon, <1>1 DEF ImageInv, FlagsOK, Start, Fault
  <2>2. judged' \in BOOLEAN
    BY DEF Start
  <2>3. timer' \in BOOLEAN
    BY DEF Start, Rest
  <2>. QED
    BY Zenon, <2>1, <2>2, <2>3 DEF FlagsOK
<1>7. PlanOK' /\ RoundOK' /\ SolvedOK'
  <2>1. CASE pc' = "rest"
    BY <2>1 DEF PlanOK, RoundOK, SolvedOK, Unsure, Busy, Working
  <2>2. CASE pc' = "round" /\ want' = ToFetch(config, images) /\ judged' = FALSE
    <3>1. /\ DOMAIN want' \subseteq Wanted
          /\ \A t \in Wanted \ DOMAIN want' : Good(t)
          /\ \A t \in DOMAIN want' : \A i \in DOMAIN want'[t] :
                i \in DOMAIN Versions(t) /\ want'[t][i] = Versions(t)[i]
      BY <2>2, ToFetchIsNeeded DEF ImageInv
    <3>2. /\ Wanted' = Wanted /\ Repos' = Repos
          /\ \A t : Versions(t)' = Versions(t) /\ (Good(t)' <=> Good(t))
      BY <1>1, GoodKept DEF world
    <3>3. repo' \in 0 .. Len(Repos')
      BY <1>1, <1>2, ConfigFacts, <3>2 DEF WorldOK, ImageInv
    <3>4. PlanOK'
      BY <3>1, <3>2, <3>3 DEF PlanOK
    <3>5. RoundOK' /\ SolvedOK'
      BY <2>2 DEF RoundOK, SolvedOK, Unsure, Working
    <3>. QED
      BY <3>4, <3>5
  <2>. QED
    BY <1>3, <2>1, <2>2
<1>. QED
  BY <1>2, <1>5, <1>6, <1>7 DEF ImageInv

LEMMA KeptByNextRepo ==
    ASSUME ImageInv, NextRepo PROVE ImageInv'
<1>1. /\ UNCHANGED <<world, want, avail, left, current, unsolved, wake, judged, unnoticed, clean,
                     counts>>
      /\ pc = "round"
  BY DEF NextRepo
<1>2. \/ /\ repo = Len(Repos) /\ Rest(unsolved) /\ UNCHANGED <<repo, todo>>
      \/ /\ repo # Len(Repos) /\ repo' = repo + 1 /\ pc' \in {"ask", "round"}
         /\ todo' = DOMAIN want /\ UNCHANGED timer
  BY DEF NextRepo, Repos
<1>3. WorldOK'
  BY <1>1 DEF ImageInv, WorldOK, world
<1>4. DOMAIN want \subseteq Wanted /\ repo \in 0 .. Len(Repos)
  BY <1>1 DEF ImageInv, PlanOK, Busy
<1>5. Wanted \subseteq Targets /\ Len(Repos) \in Nat
  BY ConfigFacts DEF ImageInv, WorldOK
<1>6. ControlOK'
  BY <1>1, <1>2, <1>4, <1>5 DEF ImageInv, ControlOK, counts, Phases, Rest
<1>7. FlagsOK'
  <2>1. timer' \in BOOLEAN
    <3>1. CASE Rest(unsolved)
      BY <3>1 DEF Rest
    <3>2. CASE UNCHANGED timer
      BY Zenon, <3>2 DEF ImageInv, FlagsOK
    <3>. QED
      BY Zenon, <1>2, <3>1, <3>2
  <2>. QED
    BY Zenon, <1>1, <2>1 DEF ImageInv, FlagsOK
<1>8. PlanOK' /\ RoundOK' /\ SolvedOK'
  <2>0. /\ Wanted' = Wanted /\ Repos' = Repos
        /\ \A t : Versions(t)' = Versions(t) /\ (Good(t)' <=> Good(t))
    BY <1>1, GoodKept DEF world
  <2>1. CASE Rest(unsolved)
    BY <2>1 DEF PlanOK, RoundOK, SolvedOK, Unsure, Busy, Working, Rest
  <2>2. CASE /\ repo # Len(Repos) /\ repo' = repo + 1 /\ pc' \in {"ask", "round"}
             /\ todo' = DOMAIN want
    <3>1. PlanOK'
      BY <1>1, <1>4, <1>5, <2>0, <2>2 DEF ImageInv, PlanOK, Busy
    <3>2. RoundOK' /\ SolvedOK'
      BY <1>1, <2>0, <2>2 DEF ImageInv, RoundOK, SolvedOK, Unsure, Busy, Working
    <3>. QED
      BY <3>1, <3>2
  <2>. QED
    BY <1>2, <2>1, <2>2
<1>. QED
  BY <1>3, <1>6, <1>7, <1>8 DEF ImageInv

LEMMA KeptByAsk ==
    ASSUME ImageInv, NEW x \in Targets, Ask(x) PROVE ImageInv'
<1>1. /\ UNCHANGED <<world, want, repo, left, current, unsolved, sleep, judged, unnoticed, changes>>
      /\ pc = "ask" /\ x \in todo
      /\ \/ pc' = "pull" /\ todo' = DOMAIN want
         \/ pc' = "ask" /\ todo' = todo \ {x}
  BY DEF Ask
<1>2. WorldOK'
  BY <1>1 DEF ImageInv, WorldOK, world
<1>3. DOMAIN want \subseteq Wanted /\ Wanted \subseteq Targets
  BY <1>1, ConfigFacts DEF ImageInv, PlanOK, WorldOK, Busy
<1>4. faults' \in 0 .. MaxFaults
  BY DEF ImageInv, ControlOK, Ask, Fault, ImageSyncAssumption
<1>5. ControlOK'
  BY <1>1, <1>3, <1>4 DEF ImageInv, ControlOK, Phases
<1>6. FlagsOK'
  BY Zenon DEF ImageInv, FlagsOK, Ask, Fault, sleep
<1>7. /\ Wanted' = Wanted /\ Repos' = Repos
      /\ \A t : Versions(t)' = Versions(t) /\ (Good(t)' <=> Good(t))
  BY <1>1, GoodKept DEF world
<1>8. PlanOK'
  BY <1>1, <1>7 DEF ImageInv, PlanOK, Busy
<1>9. RoundOK' /\ SolvedOK'
  BY <1>1, <1>7 DEF ImageInv, RoundOK, SolvedOK, Unsure, Busy, Working
<1>. QED
  BY <1>2, <1>5, <1>6, <1>8, <1>9 DEF ImageInv

LEMMA KeptByPull ==
    ASSUME ImageInv, NEW x \in Targets, Pull(x) PROVE ImageInv'
<1>1. /\ UNCHANGED <<world, plan, unsolved, sleep, judged, unnoticed, clean, counts>>
      /\ pc = "pull" /\ x \in todo /\ todo' = todo \ {x}
      /\ left' = Attempts(x) /\ current' = <<x>> /\ pc' = "attempt"
  BY DEF Pull
<1>2. WorldOK' /\ ControlOK'
  BY <1>1 DEF ImageInv, WorldOK, ControlOK, world, counts, Phases
<1>3. FlagsOK'
  BY Zenon, <1>1 DEF ImageInv, FlagsOK, sleep
<1>4. /\ Wanted' = Wanted /\ Repos' = Repos
      /\ \A t : Versions(t)' = Versions(t) /\ (Good(t)' <=> Good(t))
  BY <1>1, GoodKept DEF world
<1>5. \A t : Attempts(t)' = Attempts(t)
  BY <1>1, AttemptsKept
<1>6. current'[1] = x
  BY <1>1
<1>7. PlanOK'
  BY <1>1, <1>4 DEF ImageInv, PlanOK, Busy, plan
<1>8. RoundOK'
  BY <1>1, <1>5, <1>6 DEF ImageInv, RoundOK, Working, plan
<1>9. SolvedOK'
  BY <1>1, <1>4, <1>6 DEF ImageInv, SolvedOK, Unsure, RoundOK, Busy, Working, plan
<1>. QED
  BY <1>2, <1>3, <1>7, <1>8, <1>9 DEF ImageInv

LEMMA KeptByNoneLeft ==
    ASSUME ImageInv, NoneLeft PROVE ImageInv'
<1>1. /\ UNCHANGED <<world, plan, round, sleep, judged, unnoticed, clean, counts>>
      /\ pc = "attempt" /\ pc' = "pull" /\ unsolved' = TRUE
  BY DEF NoneLeft
<1>2. WorldOK' /\ ControlOK'
  BY <1>1 DEF ImageInv, WorldOK, ControlOK, world, round, counts, Phases
<1>3. FlagsOK'
  BY Zenon, <1>1 DEF ImageInv, FlagsOK, sleep
<1>4. PlanOK'
  BY <1>1, GoodKept DEF ImageInv, PlanOK, Busy, world, plan
<1>5. RoundOK' /\ SolvedOK'
  BY <1>1 DEF ImageInv, RoundOK, SolvedOK, Unsure, Working, plan, round
<1>. QED
  BY <1>2, <1>3, <1>4, <1>5 DEF ImageInv

LEMMA KeptByEndRound ==
    ASSUME ImageInv, EndRound PROVE ImageInv'
<1>1. /\ UNCHANGED <<world, plan, round, unsolved, timer, unnoticed, clean, counts>>
      /\ pc = "pull" /\ todo = {} /\ pc' = "round" /\ judged' = TRUE /\ wake' = FALSE
  BY DEF EndRound
<1>2. WorldOK' /\ ControlOK'
  BY <1>1 DEF ImageInv, WorldOK, ControlOK, world, round, counts, Phases
<1>3. FlagsOK'
  BY Zenon, <1>1 DEF ImageInv, FlagsOK
<1>4. PlanOK'
  BY <1>1, GoodKept DEF ImageInv, PlanOK, Busy, world, plan
<1>5. RoundOK' /\ SolvedOK'
  BY <1>1, GoodKept DEF ImageInv, RoundOK, SolvedOK, Unsure, Working, Busy, world, plan, round
<1>. QED
  BY <1>2, <1>3, <1>4, <1>5 DEF ImageInv

LEMMA KeptByWake ==
    ASSUME ImageInv, Wake PROVE ImageInv'
<1>1. /\ UNCHANGED <<world, plan, round, unsolved, judged, unnoticed, clean, counts>>
      /\ pc' = "begin" /\ timer' = FALSE
      /\ wake' = FALSE \/ wake' = wake
  BY Zenon DEF Wake
<1>2. WorldOK' /\ ControlOK'
  BY <1>1 DEF ImageInv, WorldOK, ControlOK, world, round, counts, Phases
<1>3. FlagsOK'
  BY Zenon, <1>1 DEF ImageInv, FlagsOK
<1>4. PlanOK' /\ RoundOK' /\ SolvedOK'
  BY <1>1 DEF PlanOK, RoundOK, SolvedOK, Unsure, Busy, Working
<1>. QED
  BY <1>2, <1>3, <1>4 DEF ImageInv

-----------------------------------------------------------------------------
(* The pull.                                                                  *)

\* An attempt for a target: a version of it, and a repository.
LEMMA AttemptFacts ==
    ASSUME ImageInv, Working, NEW a \in Attempts(current[1])
    PROVE  /\ current[1] \in DOMAIN want /\ current[1] \in Wanted /\ current[1] \in Targets
           /\ a[1] \in DOMAIN want[current[1]]
           /\ a[1] \in DOMAIN Versions(current[1])
           /\ want[current[1]][a[1]] = Versions(current[1])[a[1]]
           /\ a[2] \in 1 .. Len(Repos)
<1>1. current[1] \in DOMAIN want
  BY DEF ImageInv, RoundOK
<1>2. /\ DOMAIN want \subseteq Wanted
      /\ \A i \in DOMAIN want[current[1]] :
            /\ i \in DOMAIN Versions(current[1])
            /\ want[current[1]][i] = Versions(current[1])[i]
      /\ repo \in 0 .. Len(Repos)
  BY <1>1 DEF ImageInv, PlanOK, Busy, Working
<1>3. Wanted \subseteq Targets /\ Len(Repos) \in Nat
  BY ConfigFacts DEF ImageInv, WorldOK
<1>4. a[1] \in DOMAIN want[current[1]] /\ a[2] \in 1 .. repo
  BY DEF Attempts
<1>5. a[2] \in 1 .. Len(Repos)
  BY <1>2, <1>3, <1>4
<1>. QED
  BY <1>1, <1>2, <1>3, <1>4, <1>5

\* A target that gets the version of an attempt is good, or the worker is unsure.
LEMMA Matching ==
    ASSUME ImageInv, Working, NEW a \in Attempts(current[1]), Matched(a),
           config' = config, UNCHANGED plan, current'[1] = current[1],
           UNCHANGED <<todo, judged, unnoticed>>,
           images' = [images EXCEPT ![current[1]] = @ \cup {want[current[1]][a[1]]}]
    PROVE  PlanOK' /\ RoundOK' /\ SolvedOK'
<1>0. PICK x, tag : x = current[1] /\ tag = want[x][a[1]]
  OBVIOUS
<1>1. /\ x \in DOMAIN want /\ x \in Targets
      /\ a[1] = 1 => tag = Versions(x)[1]
  BY <1>0, AttemptFacts
<1>2. /\ Wanted' = Wanted /\ Repos' = Repos
      /\ \A t : Versions(t)' = Versions(t)
      /\ \A t \in Targets : Good(t) => Good(t)'
      /\ tag = Versions(x)[1] => Good(x)'
  <2>1. x \in Targets /\ images' = [images EXCEPT ![x] = @ \cup {tag}]
    BY <1>0, <1>1
  <2>2. WorldOK /\ config' = config
    BY DEF ImageInv
  <2>. QED
    BY <2>1, <2>2, GoodGrows
<1>3. pc' = "pull" /\ (unsolved' <=> unsolved \/ a[1] # 1)
  BY DEF Matched
<1>4. want' = want /\ repo' = repo /\ todo' = todo /\ judged' = judged /\ unnoticed' = unnoticed
  BY DEF plan
<1>5. /\ DOMAIN want \subseteq Wanted /\ Wanted \subseteq Targets
      /\ \A t \in Wanted \ DOMAIN want : Good(t)
      /\ \A t \in DOMAIN want : \A i \in DOMAIN want[t] :
            i \in DOMAIN Versions(t) /\ want[t][i] = Versions(t)[i]
      /\ repo \in 0 .. Len(Repos)
  BY ConfigFacts DEF ImageInv, WorldOK, PlanOK, Busy, Working
<1>6. todo \subseteq DOMAIN want
  BY DEF ImageInv, RoundOK, Working
<1>7. /\ Unsure \/ \A t \in DOMAIN want \ todo : t = x \/ Good(t)
      /\ judged => Unsure \/ \A t \in DOMAIN want : Good(t)
  BY <1>0 DEF ImageInv, SolvedOK, Unsure, Working, Busy
<1>8. PlanOK'
  BY <1>2, <1>4, <1>5 DEF PlanOK
<1>9. RoundOK'
  BY <1>3, <1>4, <1>6 DEF RoundOK, Working
<1>10. Unsure' \/ \A t \in DOMAIN want \ todo : Good(t)'
  <2>1. CASE Unsure \/ a[1] # 1
    BY <1>3, <1>4, <2>1 DEF Unsure
  <2>2. CASE ~Unsure /\ a[1] = 1
    <3>1. Good(x)'
      BY <1>1, <1>2, <2>2
    <3>2. ASSUME NEW t \in DOMAIN want \ todo PROVE Good(t)'
      <4>1. t \in Targets /\ (t = x \/ Good(t))
        BY <1>5, <1>7, <2>2
      <4>. QED
        BY <1>2, <3>1, <4>1
    <3>. QED
      BY Zenon, <3>2
  <2>. QED
    BY <2>1, <2>2
<1>11. judged => Unsure' \/ \A t \in DOMAIN want : Good(t)'
  BY <1>2, <1>3, <1>4, <1>5, <1>7 DEF Unsure
<1>12. SolvedOK'
  BY <1>3, <1>4, <1>10, <1>11 DEF SolvedOK, Unsure
<1>. QED
  BY <1>8, <1>9, <1>12

LEMMA KeptByTryPull ==
    ASSUME ImageInv, TryPull PROVE ImageInv'
<1>1. PICK a \in left :
         /\ left' = left \ {a}
         /\ PullFrom(a, current[1], want[current[1]][a[1]], config.repos[a[2]])
  BY Zenon DEF TryPull
<1> DEFINE x == current[1]
           tag == want[x][a[1]]
<1>2. /\ UNCHANGED <<held, config, plan, todo, sleep, judged, changes>>
      /\ pc = "attempt"
  BY DEF TryPull
<1>3. a \in Attempts(x) /\ Working
  BY <1>2 DEF ImageInv, RoundOK, Working
<1>4. x \in Targets /\ x \in DOMAIN want
  BY <1>3, AttemptFacts
<1>5. \/ /\ images' = [images EXCEPT ![x] = @ \cup {tag}] /\ Matched(a)
         /\ UNCHANGED <<current, unnoticed>>
      \/ pc' = "tag" /\ current' = <<x, a>> /\ UNCHANGED <<images, unsolved, unnoticed>>
      \/ UNCHANGED <<images, current, unsolved, unnoticed, pc>>
      \/ unnoticed' = TRUE /\ Matched(a) /\ UNCHANGED <<images, current>>
  BY <1>1 DEF PullFrom
<1>6. /\ clean' = clean \/ clean' = FALSE
      /\ faults' = faults \/ (faults < MaxFaults /\ faults' = faults + 1)
  BY Zenon, <1>1 DEF PullFrom, Fault
<1>7. tag \in Tags
  <2>1. /\ a[1] \in DOMAIN Versions(x) /\ tag = Versions(x)[a[1]] /\ x \in Wanted
    BY <1>3, AttemptFacts
  <2>2. Versions(x) \in Seq(Tags)
    BY <2>1, ConfigFacts DEF ImageInv, WorldOK
  <2>. HIDE DEF x, tag
  <2>. QED
    BY <2>1, <2>2
<1>8. WorldOK'
  <2>1. images' = images \/ images' = [images EXCEPT ![x] = @ \cup {tag}]
    BY <1>5
  <2>2. Source(config.repos[a[2]]) \in Hosts
    BY <1>3, AttemptFacts, ConfigFacts DEF ImageInv, WorldOK, Repos
  <2>3. pulled' = pulled \/ pulled' = pulled \cup {<<Source(config.repos[a[2]]), x, tag>>}
    BY <1>1 DEF PullFrom
  <2>. HIDE DEF x, tag
  <2>4. pulled' \subseteq Hosts \X Targets \X Tags
    BY <1>4, <1>7, <2>2, <2>3 DEF ImageInv, WorldOK
  <2>. QED
    BY <1>2, <1>4, <1>7, <2>1, <2>4 DEF ImageInv, WorldOK
<1>9. ControlOK'
  <2>1. pc' \in Phases
    BY <1>2, <1>5 DEF Matched, Phases
  <2>. QED
    BY <1>2, <1>6, <2>1 DEF ImageInv, ControlOK, ImageSyncAssumption
<1>10. FlagsOK'
  <2>1. unsolved' = unsolved \/ unsolved' = (unsolved \/ a[1] # 1)
    BY <1>5 DEF Matched
  <2>2. unsolved' \in BOOLEAN
    BY <2>1 DEF ImageInv, FlagsOK
  <2>3. unnoticed' \in BOOLEAN
    BY Zenon, <1>5 DEF ImageInv, FlagsOK
  <2>. QED
    BY Zenon, <1>2, <1>6, <2>2, <2>3 DEF ImageInv, FlagsOK, sleep
<1>11. PlanOK' /\ RoundOK' /\ SolvedOK'
  <2>1. CASE /\ images' = [images EXCEPT ![x] = @ \cup {tag}] /\ Matched(a)
             /\ UNCHANGED <<current, unnoticed>>
    BY <1>2, <1>3, <2>1, Matching
  <2>2. CASE pc' = "tag" /\ current' = <<x, a>> /\ UNCHANGED <<images, unsolved, unnoticed>>
    <3>1. current'[1] = x /\ current'[2] = a
      BY <2>2
    <3>2. /\ Wanted' = Wanted /\ Repos' = Repos
          /\ \A t : Versions(t)' = Versions(t) /\ (Good(t)' <=> Good(t))
      BY <1>2, <2>2, GoodKept
    <3>3. Attempts(x)' = Attempts(x)
      <4>1. \A t : Attempts(t)' = Attempts(t)
        BY <1>2, AttemptsKept
      <4>. QED
        BY Zenon, <4>1, <3>1
    <3>. QED
      BY <1>1, <1>2, <1>3, <1>4, <2>2, <3>1, <3>2, <3>3
      DEF ImageInv, PlanOK, RoundOK, SolvedOK, Unsure, Busy, Working, plan
  <2>3. CASE UNCHANGED <<images, current, unsolved, unnoticed, pc>>
    <3>1. /\ Wanted' = Wanted /\ Repos' = Repos
          /\ \A t : Versions(t)' = Versions(t) /\ (Good(t)' <=> Good(t))
      BY <1>2, <2>3, GoodKept
    <3>2. Attempts(current[1])' = Attempts(current[1])
      BY <1>2, <2>3, AttemptsKept
    <3>. QED
      BY <1>1, <1>2, <2>3, <3>1, <3>2
      DEF ImageInv, PlanOK, RoundOK, SolvedOK, Unsure, Busy, Working, plan
  <2>4. CASE unnoticed' = TRUE /\ Matched(a) /\ UNCHANGED <<images, current>>
    <3>1. /\ Wanted' = Wanted /\ Repos' = Repos
          /\ \A t : Versions(t)' = Versions(t) /\ (Good(t)' <=> Good(t))
      BY <1>2, <2>4, GoodKept
    <3>2. PlanOK'
      BY <1>2, <3>1 DEF ImageInv, PlanOK, Busy, plan
    <3>3. pc' = "pull" /\ Unsure'
      BY <2>4 DEF Matched, Unsure
    <3>4. RoundOK'
      BY <1>2, <3>3 DEF ImageInv, RoundOK, Working, plan
    <3>5. SolvedOK'
      BY <3>3 DEF SolvedOK
    <3>. QED
      BY <3>2, <3>4, <3>5
  <2>. QED
    BY <1>5, <2>1, <2>2, <2>3, <2>4
<1>. QED
  BY <1>8, <1>9, <1>10, <1>11 DEF ImageInv

LEMMA KeptByTagImage ==
    ASSUME ImageInv, TagImage PROVE ImageInv'
<1> DEFINE x == current[1]
           a == current[2]
           tag == want[x][a[1]]
<1>1. /\ UNCHANGED <<pulled, held, config, plan, todo, left, sleep, judged, unnoticed, changes>>
      /\ pc = "tag" /\ current' = <<x>>
  BY DEF TagImage
<1>2. a \in Attempts(x) /\ Working
  BY <1>1 DEF ImageInv, RoundOK, Working
<1>3. x \in Targets /\ x \in DOMAIN want
  BY <1>2, AttemptFacts
<1>4. \/ images' = [images EXCEPT ![x] = @ \cup {tag}] /\ Matched(a)
      \/ pc' = "attempt" /\ UNCHANGED <<images, unsolved>>
  BY DEF TagImage
<1>5. /\ clean' = clean \/ clean' = FALSE
      /\ faults' = faults \/ (faults < MaxFaults /\ faults' = faults + 1)
  BY Zenon DEF TagImage, Fault
<1>6. tag \in Tags
  <2>1. /\ a[1] \in DOMAIN Versions(x) /\ tag = Versions(x)[a[1]] /\ x \in Wanted
    BY <1>2, AttemptFacts
  <2>2. Versions(x) \in Seq(Tags)
    BY <2>1, ConfigFacts DEF ImageInv, WorldOK
  <2>. HIDE DEF x, a, tag
  <2>. QED
    BY <2>1, <2>2
<1>7. current'[1] = x
  BY <1>1
<1>8. WorldOK'
  <2>1. images' = images \/ images' = [images EXCEPT ![x] = @ \cup {tag}]
    BY <1>4
  <2>. HIDE DEF x, a, tag
  <2>. QED
    BY <1>1, <1>3, <1>6, <2>1 DEF ImageInv, WorldOK
<1>9. ControlOK'
  <2>1. pc' \in Phases
    BY <1>4 DEF Matched, Phases
  <2>. QED
    BY <1>1, <1>5, <2>1 DEF ImageInv, ControlOK, ImageSyncAssumption
<1>10. FlagsOK'
  <2>1. unsolved' = unsolved \/ unsolved' = (unsolved \/ a[1] # 1)
    BY <1>4 DEF Matched
  <2>2. unsolved' \in BOOLEAN
    BY <2>1 DEF ImageInv, FlagsOK
  <2>. QED
    BY Zenon, <1>1, <1>5, <2>2 DEF ImageInv, FlagsOK, sleep
<1>11. PlanOK' /\ RoundOK' /\ SolvedOK'
  <2>1. CASE images' = [images EXCEPT ![x] = @ \cup {tag}] /\ Matched(a)
    BY <1>1, <1>2, <1>7, <2>1, Matching
  <2>2. CASE pc' = "attempt" /\ UNCHANGED <<images, unsolved>>
    <3>1. /\ Wanted' = Wanted /\ Repos' = Repos
          /\ \A t : Versions(t)' = Versions(t) /\ (Good(t)' <=> Good(t))
      BY <1>1, <2>2, GoodKept
    <3>2. \A t : Attempts(t)' = Attempts(t)
      BY <1>1, AttemptsKept
    <3>. HIDE DEF a, tag
    <3>. QED
      BY <1>1, <1>2, <1>3, <1>7, <2>2, <3>1, <3>2
      DEF ImageInv, PlanOK, RoundOK, SolvedOK, Unsure, Busy, Working, plan
  <2>. QED
    BY <1>4, <2>1, <2>2
<1>. QED
  BY <1>8, <1>9, <1>10, <1>11 DEF ImageInv

\* ImageInv is inductive.
LEMMA ImageInductive == Spec => []ImageInv
<1>1. ASSUME ImageInv, [Next]_vars PROVE ImageInv'
  <2>1. CASE UNCHANGED vars
    <3>1. UNCHANGED <<world, pc, plan, round, unsolved, judged, unnoticed, counts>>
      BY <2>1 DEF vars
    <3>2. WorldOK' /\ ControlOK'
      BY <1>1, <3>1 DEF ImageInv, WorldOK, ControlOK, world, round, counts
    <3>3. FlagsOK'
      BY Zenon, <1>1, <2>1 DEF ImageInv, FlagsOK, vars, sleep
    <3>4. PlanOK' /\ RoundOK' /\ SolvedOK'
      BY <1>1, <3>1, GoodKept, AttemptsKept
      DEF ImageInv, PlanOK, RoundOK, SolvedOK, Unsure, Busy, Working, world, plan, round
    <3>. QED
      BY <3>2, <3>3, <3>4 DEF ImageInv
  <2>2. CASE Next
    BY <1>1, <2>2, KeptByStart, KeptByNextRepo, KeptByTryPull, KeptByTagImage, KeptByNoneLeft,
       KeptByEndRound, KeptByWake, KeptByAsk, KeptByPull, KeptByRegistryChanges, KeptByReconfigure
    DEF Next, Pass, Outside
  <2>. QED
    BY <1>1, <2>1, <2>2
<1>. QED
  BY <1>1, InitImage, PTL DEF Spec

-----------------------------------------------------------------------------
(* Every step is one of Device's.                                             *)

\* What is coming stays while nothing is pulled under a prefix.
LEMMA ComingKept == pulled' = pulled => Coming' = Coming
BY DEF Coming

\* The worker is only settled where it sleeps.
LEMMA SettledAsleep ==
    /\ Settled \in BOOLEAN /\ Settled' \in BOOLEAN
    /\ pc # "rest" => ~Settled
    /\ pc' # "rest" => ~Settled'
BY DEF Settled, Asleep

\* A version of an attempt that can be pulled is listed, and some registry has it.
LEMMA PulledIsOffered ==
    ASSUME ImageInv, Working, NEW a \in Attempts(current[1]),
           Pullable(Repos[a[2]], current[1], want[current[1]][a[1]], held)
    PROVE  /\ Promise!Listed(current[1], want[current[1]][a[1]])
           /\ Promise!Offered(current[1], want[current[1]][a[1]])
<1>1. /\ current[1] \in Wanted /\ a[1] \in DOMAIN Versions(current[1])
      /\ want[current[1]][a[1]] = Versions(current[1])[a[1]]
      /\ a[2] \in 1 .. Len(Repos)
  BY AttemptFacts
<1>2. Source(Repos[a[2]]) \in Hosts
  BY <1>1, ConfigFacts DEF ImageInv, WorldOK
<1>3. DOMAIN held = Hosts
  BY DEF ImageInv, WorldOK, Held
<1>4. want[current[1]][a[1]] \in held[Source(Repos[a[2]])][current[1]]
  BY DEF Pullable
<1>5. Promise!Listed(current[1], want[current[1]][a[1]])
  BY <1>1 DEF Promise!Listed, Wanted, Versions
<1>6. Promise!Offered(current[1], want[current[1]][a[1]])
  BY <1>2, <1>3, <1>4 DEF Promise!Offered
<1>. QED
  BY <1>5, <1>6

\* A step of Device about the version of an attempt.
LEMMA AboutAnAttempt ==
    ASSUME ImageInv, Working, NEW a \in Attempts(current[1]),
           \/ Promise!Fetch(current[1], want[current[1]][a[1]])
           \/ Promise!Download(current[1], want[current[1]][a[1]])
           \/ Promise!Deliver(current[1], want[current[1]][a[1]])
    PROVE  Promise!Next
<1>1. PICK t, i : /\ t = current[1] /\ i = a[1]
                  /\ t \in Wanted /\ i \in DOMAIN Versions(t)
                  /\ want[t][i] = Versions(t)[i]
  BY AttemptFacts
<1>2. /\ t \in DOMAIN config.targets
      /\ i \in DOMAIN config.targets[t].versions
      /\ want[t][i] = config.targets[t].versions[i]
  BY <1>1 DEF Wanted, Versions
<1>3. \/ Promise!Fetch(t, config.targets[t].versions[i])
      \/ Promise!Download(t, config.targets[t].versions[i])
      \/ Promise!Deliver(t, config.targets[t].versions[i])
  BY Zenon, <1>1, <1>2
<1>. QED
  BY Zenon, <1>2, <1>3 DEF Promise!Next

LEMMA TryPullIsDevice ==
    ASSUME ImageInv, TryPull PROVE Promise!Next
<1>1. PICK a \in left :
         PullFrom(a, current[1], want[current[1]][a[1]], Repos[a[2]])
  BY Zenon DEF TryPull, Repos
<1>2. UNCHANGED <<held, config, plan>> /\ pc = "attempt"
  BY DEF TryPull
<1>3. a \in Attempts(current[1]) /\ Working
  BY <1>2 DEF ImageInv, RoundOK, Working
<1>4. CASE /\ Pullable(Repos[a[2]], current[1], want[current[1]][a[1]], held)
           /\ images' = [images EXCEPT ![current[1]] = @ \cup {want[current[1]][a[1]]}]
           /\ Matched(a) /\ UNCHANGED pulled
  <2>1. /\ Promise!Listed(current[1], want[current[1]][a[1]])
        /\ Promise!Offered(current[1], want[current[1]][a[1]])
    BY <1>3, <1>4, PulledIsOffered
  <2>2. UNCHANGED <<Coming, Settled>>
    BY <1>2, <1>4, ComingKept, SettledAsleep DEF Matched
  <2>3. Promise!Fetch(current[1], want[current[1]][a[1]])
    BY <1>2, <1>4, <2>1, <2>2 DEF Promise!Fetch
  <2>. QED
    BY <1>3, <2>3, AboutAnAttempt
<1>5. CASE /\ Pullable(Repos[a[2]], current[1], want[current[1]][a[1]], held)
           /\ pulled' = pulled \cup {<<Source(Repos[a[2]]), current[1], want[current[1]][a[1]]>>}
           /\ pc' = "tag" /\ UNCHANGED images
  <2>1. /\ Promise!Listed(current[1], want[current[1]][a[1]])
        /\ Promise!Offered(current[1], want[current[1]][a[1]])
    BY <1>3, <1>5, PulledIsOffered
  <2>2. Coming' = Coming \cup {<<current[1], want[current[1]][a[1]]>>}
    <3>1. PICK p : p = <<Source(Repos[a[2]]), current[1], want[current[1]][a[1]]>>
      OBVIOUS
    <3>2. Coming' = {<<q[2], q[3]>> : q \in pulled \cup {p}}
      BY <1>5, <3>1 DEF Coming
    <3>3. Coming' = Coming \cup {<<p[2], p[3]>>}
      BY <3>2 DEF Coming
    <3>4. p[2] = current[1] /\ p[3] = want[current[1]][a[1]]
      BY <3>1
    <3>. QED
      BY <3>3, <3>4
  <2>3. UNCHANGED Settled
    BY <1>2, <1>5, SettledAsleep
  <2>4. Promise!Download(current[1], want[current[1]][a[1]])
    BY <1>2, <1>5, <2>1, <2>2, <2>3 DEF Promise!Download
  <2>. QED
    BY <1>3, <2>4, AboutAnAttempt
<1>6. CASE UNCHANGED <<images, pulled>> /\ pc' # "rest"
  <2>1. UNCHANGED <<Coming, Settled>>
    BY <1>2, <1>6, ComingKept, SettledAsleep
  <2>. QED
    BY <1>2, <1>6, <2>1 DEF Promise!Next, Promise!Registries
<1>. QED
  BY <1>1, <1>2, <1>4, <1>5, <1>6 DEF PullFrom, Matched

LEMMA TagImageIsDevice ==
    ASSUME ImageInv, TagImage PROVE Promise!Next
<1>1. UNCHANGED <<pulled, held, config, plan>> /\ pc = "tag" /\ pc' \in {"pull", "attempt"}
  BY DEF TagImage, Matched
<1>2. current[2] \in Attempts(current[1]) /\ Working
  BY <1>1 DEF ImageInv, RoundOK, Working
<1>3. UNCHANGED <<Coming, Settled>>
  BY <1>1, ComingKept, SettledAsleep
<1>4. CASE /\ images' = [images EXCEPT ![current[1]] = @ \cup {want[current[1]][current[2][1]]}]
           /\ <<Source(Repos[current[2][2]]), current[1], want[current[1]][current[2][1]]>> \in pulled
  <2>1. <<current[1], want[current[1]][current[2][1]]>> \in Coming
    <3>1. PICK p : p = <<Source(Repos[current[2][2]]), current[1], want[current[1]][current[2][1]]>>
      OBVIOUS
    <3>2. /\ p \in pulled
          /\ p[2] = current[1] /\ p[3] = want[current[1]][current[2][1]]
      BY <1>4, <3>1
    <3>. QED
      BY <3>2 DEF Coming
  <2>2. Promise!Deliver(current[1], want[current[1]][current[2][1]])
    BY <1>1, <1>3, <1>4, <2>1 DEF Promise!Deliver
  <2>. QED
    BY <1>2, <2>2, AboutAnAttempt
<1>5. CASE UNCHANGED images
  BY <1>1, <1>3, <1>5 DEF Promise!Next, Promise!Registries
<1>. QED
  BY <1>4, <1>5 DEF TagImage, Repos

\* Where the worker goes to rest with nothing unsolved, all targets are good.
LEMMA RestIsDevice ==
    ASSUME ImageInv, Start \/ NextRepo PROVE Promise!Next
<1>1. /\ UNCHANGED <<images, held, config>> /\ UNCHANGED Coming /\ ~Settled
  <2>1. pc # "rest" /\ UNCHANGED <<images, pulled, held, config>>
    BY DEF Start, NextRepo, world
  <2>. QED
    BY <2>1, ComingKept, SettledAsleep
<1>2. CASE ~Settled'
  BY <1>1, <1>2, SettledAsleep DEF Promise!Next, Promise!Stir
<1>3. CASE Settled'
  <2>1. judged' /\ ~unsolved' /\ ~unnoticed' /\ pc' = "rest"
    BY <1>3 DEF Settled, Asleep
  <2>2. \A t \in Wanted : Good(t)
    <3>1. CASE Start
      <4>1. ToFetch(config, images) = <<>>
        BY <2>1, <3>1 DEF Start
      <4>2. DOMAIN <<>> = {}
        OBVIOUS
      <4>. QED
        BY <4>1, <4>2, ToFetchIsNeeded DEF ImageInv
    <3>2. CASE NextRepo
      <4>1. /\ judged' = judged /\ unsolved' = unsolved /\ unnoticed' = unnoticed
            /\ pc = "round"
        BY <3>2 DEF NextRepo
      <4>2. \A t \in DOMAIN want : Good(t)
        BY <2>1, <4>1 DEF ImageInv, SolvedOK, Unsure, Busy
      <4>3. \A t \in Wanted \ DOMAIN want : Good(t)
        BY <4>1 DEF ImageInv, PlanOK, Busy
      <4>. QED
        BY <4>2, <4>3
    <3>. QED
      BY <3>1, <3>2
  <2>3. Promise!Satisfied
    BY <2>2 DEF Promise!Satisfied, Promise!Has, Wanted, Good, Versions
  <2>4. Settled' = TRUE
    BY <1>3, SettledAsleep
  <2>. QED
    BY <1>1, <2>3, <2>4 DEF Promise!Next, Promise!Settle
<1>. QED
  BY <1>2, <1>3

\* The other steps of the worker leave images alone and do not settle.
LEMMA OtherStepIsDevice ==
    ASSUME ImageInv,
           \/ NoneLeft \/ EndRound \/ Wake
           \/ \E t \in Targets : Ask(t) \/ Pull(t)
    PROVE  Promise!Next
<1>1. UNCHANGED <<images, pulled, held, config>> /\ pc' # "rest"
  BY DEF NoneLeft, EndRound, Wake, Asleep, Ask, Pull, world
<1>2. UNCHANGED Coming /\ Settled' = FALSE
  BY <1>1, ComingKept, SettledAsleep
<1>. QED
  BY <1>1, <1>2 DEF Promise!Next, Promise!Stir

LEMMA OutsideIsDevice ==
    ASSUME ImageInv, Outside PROVE Promise!Next
<1>1. ASSUME NEW host \in Hosts, NEW x \in Targets, NEW tag \in Tags,
             RegistryChanges(host, x, tag)
      PROVE  Promise!Next
  <2>1. UNCHANGED <<images, pulled, config, pc, plan, round, unsolved, sleep, judged, unnoticed>>
    BY <1>1 DEF RegistryChanges
  <2>2. UNCHANGED <<Coming, Settled>>
    BY <2>1 DEF Coming, Settled, Asleep, plan, round, sleep
  <2>. QED
    BY <2>1, <2>2 DEF Promise!Next, Promise!Registries
<1>2. ASSUME NEW cfg \in Configs, Reconfigure(cfg)
      PROVE  Promise!Next
  <2>1. UNCHANGED <<images, pulled, held>> /\ config' = cfg /\ wake' = TRUE
    BY <1>2 DEF Reconfigure
  <2>2. UNCHANGED Coming /\ Settled' = FALSE
    BY <2>1, ComingKept, SettledAsleep DEF Settled
  <2>. QED
    BY <2>1, <2>2 DEF Promise!Next, Promise!Edit
<1>. QED
  BY <1>1, <1>2 DEF Outside

-----------------------------------------------------------------------------
(* What a pass without a failure leaves behind.                               *)

\* A repository lists a version of a target, and Docker can pull it.
GotFrom(t, i, r) ==
    /\ Repos[r].parses
    /\ Versions(t)[i] \in TagsOf(Repos[r], t, held)
    /\ Pullable(Repos[r], t, Versions(t)[i], held)

\* A target has a version as good as the i-th, ...
AsGood(t, i) == \E j \in 1 .. i : Versions(t)[j] \in images[t]

\* ... or as any that the first k repositories could give it.
BestOf(t, k) ==
    \A i \in DOMAIN Versions(t), r \in 1 .. k : GotFrom(t, i, r) => AsGood(t, i)

\* What is not asked for is no better than what is there.
ShortInv ==
    Busy => \A t \in DOMAIN want : \A i \in DOMAIN Versions(t) \ DOMAIN want[t] : AsGood(t, i)

\* What a repository lists is known once it was asked.
AskedInv ==
    Busy /\ clean =>
        \A t \in DOMAIN want, r \in 1 .. repo :
            Repos[r].parses /\ ~(pc = "ask" /\ r = repo /\ t \in todo) =>
                \A tag \in TagsOf(Repos[r], t, held) : <<r, t, tag>> \in avail

\* An attempt that is not left could not succeed, and no better one is left; what
\* is to be tagged is there.
TriedInv ==
    Working /\ clean =>
        /\ pc = "tag" => <<Source(Repos[current[2][2]]), current[1],
                           want[current[1]][current[2][1]]>> \in pulled
        /\ \A a \in Attempts(current[1]) \ left :
              \/ pc = "tag" /\ a = current[2]
              \/ ~Pullable(Repos[a[2]], current[1], want[current[1]][a[1]], held)
        /\ pc = "tag" => \A b \in left : Earlier(current[2], b)

\* The targets this round is done with, and all of them between two rounds, have
\* the best that the repositories so far could give.
DoneInv ==
    clean =>
        /\ pc \in {"pull", "attempt", "tag"} =>
              \A t \in DOMAIN want \ todo : (Working /\ t = current[1]) \/ BestOf(t, repo)
        /\ pc = "round" => \A t \in DOMAIN want : BestOf(t, repo)

BestInv == ShortInv /\ AskedInv /\ TriedInv /\ DoneInv /\ PassFetchesBest

\* A version that is not needed has a better one, or itself, in its place.
LEMMA NotNeeded ==
    ASSUME NEW versions \in Seq(Tags), NEW have,
           NEW i \in DOMAIN versions \ DOMAIN NeededTags(versions, have)
    PROVE  \E j \in 1 .. i : versions[j] \in have
<1> DEFINE listed == {j \in DOMAIN versions : versions[j] \in have}
<1>1. DOMAIN versions = 1 .. Len(versions) /\ Len(versions) \in Nat
  BY LenProperties
<1>2. CASE listed = {}
  BY <1>2 DEF NeededTags
<1>3. CASE listed # {}
  <2>1. listed \in SUBSET Nat
    BY <1>1
  <2>2. PICK m \in listed : m = Min(listed)
    BY <1>3, <2>1, LeastPosition
  <2>3. m \in 1 .. Len(versions) /\ versions[m] \in have
    BY <1>1
  <2>4. NeededTags(versions, have) = SubSeq(versions, 1, m - 1)
    BY <1>3, <2>2 DEF NeededTags
  <2>5. DOMAIN SubSeq(versions, 1, m - 1) = 1 .. m - 1
    BY <1>1, <2>3
  <2>6. m <= i
    BY <1>1, <2>3, <2>4, <2>5
  <2>. QED
    BY <1>1, <2>3, <2>6
<1>. QED
  BY <1>2, <1>3

\* A target that is good, or as good as all repositories could make it, has the
\* best version.
LEMMA BestOfAll ==
    ASSUME WorldOK, NEW t \in Wanted, Good(t) \/ BestOf(t, Len(Repos))
    PROVE  HasBest(t)
<1>1. /\ config.repos \in Seq([host : Hosts, parses : BOOLEAN, insecure : BOOLEAN,
                               prefix : Hosts \cup {NoPrefix}, creds : BOOLEAN])
      /\ Versions(t) \in Seq(Tags)
  BY ConfigFacts DEF ImageSyncAssumption, WorldOK
<1>2. DOMAIN Repos = 1 .. Len(Repos) /\ DOMAIN Versions(t) = 1 .. Len(Versions(t))
      /\ Len(Versions(t)) \in Nat
  BY <1>1, LenProperties DEF Repos
<1> SUFFICES ASSUME NEW i \in DOMAIN Versions(t), NEW r \in DOMAIN Repos, GotFrom(t, i, r)
             PROVE  AsGood(t, i)
  BY DEF HasBest, Obtainable, AsGood, GotFrom, Versions, Repos
<1>3. CASE Good(t)
  <2>1. Versions(t) # <<>> /\ 1 \in 1 .. i
    BY <1>1, <1>2
  <2>. QED
    BY <1>3, <2>1 DEF Good, AsGood
<1>4. CASE BestOf(t, Len(Repos))
  BY <1>2, <1>4 DEF BestOf
<1>. QED
  BY <1>3, <1>4

\* While the registries and the configuration stay, what is good enough stays so.
LEMMA BestKept ==
    ASSUME WorldOK, config' = config, held' = held,
           \/ images' = images
           \/ \E x \in Targets : \E tag : images' = [images EXCEPT ![x] = @ \cup {tag}]
    PROVE  /\ Repos' = Repos /\ Wanted' = Wanted
           /\ \A t : Versions(t)' = Versions(t)
           /\ \A t, i, r : GotFrom(t, i, r)' <=> GotFrom(t, i, r)
           /\ \A t \in Targets : \A i : AsGood(t, i) => AsGood(t, i)'
           /\ \A t \in Targets : \A k : BestOf(t, k) => BestOf(t, k)'
<1>1. Repos' = Repos /\ Wanted' = Wanted /\ \A t : Versions(t)' = Versions(t)
  BY DEF Repos, Wanted, Versions
<1>2. \A t, i, r : GotFrom(t, i, r)' <=> GotFrom(t, i, r)
  BY <1>1 DEF GotFrom
<1>3. \A t \in Targets : images[t] \subseteq images'[t]
  BY DEF WorldOK
<1>4. \A t \in Targets : \A i : AsGood(t, i) => AsGood(t, i)'
  BY <1>1, <1>3 DEF AsGood
<1>5. \A t \in Targets : \A k : BestOf(t, k) => BestOf(t, k)'
  BY Zenon, <1>1, <1>2, <1>4 DEF BestOf
<1>. QED
  BY <1>1, <1>2, <1>4, <1>5

LEMMA InitBest == Init => BestInv
BY DEF Init, BestInv, ShortInv, AskedInv, TriedInv, DoneInv, PassFetchesBest, Busy, Working, Asleep

\* A step that is not clean is judged by nobody.
LEMMA BestUnclean ==
    ASSUME BestInv, UNCHANGED <<images, config, want>>, Busy' => Busy, ~clean'
    PROVE  BestInv'
<1>1. \A t : Versions(t)' = Versions(t)
  BY DEF Versions
<1>2. ShortInv'
  BY <1>1 DEF BestInv, ShortInv, AsGood
<1>. QED
  BY <1>2 DEF BestInv, AskedInv, TriedInv, DoneInv, PassFetchesBest

\* What the first k repositories can give is no more than what was asked for.
LEMMA NoneLeftIsBest ==
    ASSUME ImageInv, BestInv, Working, clean, NEW t, t = current[1],
           NEW i \in DOMAIN Versions(t), NEW r \in 1 .. repo, GotFrom(t, i, r)
    PROVE  \/ AsGood(t, i)
           \/ <<i, r>> \in Attempts(t) /\ want[t][i] = Versions(t)[i]
<1>1. t \in DOMAIN want
  BY DEF ImageInv, RoundOK
<1>2. Busy /\ pc # "ask"
  BY DEF Working, Busy
<1>3. CASE i \notin DOMAIN want[t]
  BY <1>1, <1>2, <1>3 DEF BestInv, ShortInv
<1>4. CASE i \in DOMAIN want[t]
  <2>1. want[t][i] = Versions(t)[i]
    BY <1>1, <1>2, <1>4 DEF ImageInv, PlanOK
  <2>2. <<r, t, Versions(t)[i]>> \in avail
    BY <1>1, <1>2 DEF BestInv, AskedInv, GotFrom
  <2>. QED
    BY <1>4, <2>1, <2>2 DEF Attempts
<1>. QED
  BY <1>3, <1>4

LEMMA BestByStart ==
    ASSUME ImageInv, Start PROVE BestInv'
<1>1. UNCHANGED <<images, held, config>> /\ repo' = 0
  BY DEF Start, world
<1>2. /\ Repos' = Repos /\ Wanted' = Wanted
      /\ \A t : Versions(t)' = Versions(t)
      /\ \A t \in Targets : \A i : AsGood(t, i) => AsGood(t, i)'
      /\ \A t \in Targets : \A k : BestOf(t, k) => BestOf(t, k)'
  BY <1>1, BestKept DEF ImageInv
<1>3. \/ pc' = "rest" /\ ~judged'
      \/ pc' = "rest" /\ ToFetch(config, images) = <<>>
      \/ pc' = "round" /\ want' = ToFetch(config, images)
  BY DEF Start, Rest
<1>4. CASE pc' = "rest" /\ ~judged'
  BY <1>4 DEF BestInv, ShortInv, AskedInv, TriedInv, DoneInv, PassFetchesBest, Busy, Working
<1>5. CASE pc' = "rest" /\ ToFetch(config, images) = <<>>
  <2>1. DOMAIN <<>> = {}
    OBVIOUS
  <2>2. \A t \in Wanted : Good(t)
    BY <1>5, <2>1, ToFetchIsNeeded DEF ImageInv
  <2>3. \A t \in Wanted : HasBest(t)
    BY <2>2, BestOfAll DEF ImageInv
  <2>6. PassFetchesBest'
    BY <1>1, <2>3 DEF PassFetchesBest, Wanted, HasBest, Obtainable
  <2>. QED
    BY <1>5, <2>6 DEF BestInv, ShortInv, AskedInv, TriedInv, DoneInv, Busy, Working
<1>6. CASE pc' = "round" /\ want' = ToFetch(config, images)
  <2>1. ASSUME NEW t \in DOMAIN want', NEW i \in DOMAIN Versions(t) \ DOMAIN want'[t]
        PROVE  AsGood(t, i)'
    <3>1. t \in Wanted /\ want'[t] = NeededTags(Versions(t), images[t])
      BY <1>6 DEF ToFetch, Wanted, Versions
    <3>2. Versions(t) \in Seq(Tags) /\ t \in Targets
      BY <3>1, ConfigFacts DEF ImageInv, WorldOK
    <3>3. \E j \in 1 .. i : Versions(t)[j] \in images[t]
      BY <3>1, <3>2, NotNeeded
    <3>. QED
      BY <1>2, <3>2, <3>3 DEF AsGood
  <2>2. ShortInv'
    BY <1>2, <2>1 DEF ShortInv
  <2>3. AskedInv'
    BY <1>1 DEF AskedInv
  <2>4. DoneInv'
    BY <1>1, <1>6 DEF DoneInv, BestOf
  <2>. QED
    BY <1>6, <2>2, <2>3, <2>4 DEF BestInv, TriedInv, Working, PassFetchesBest, Asleep
<1>. QED
  BY <1>3, <1>4, <1>5, <1>6

LEMMA BestByNextRepo ==
    ASSUME ImageInv, BestInv, NextRepo PROVE BestInv'
<1>1. /\ UNCHANGED <<images, held, config, want, avail, left, current, judged, clean>>
      /\ pc = "round" /\ Busy
  BY DEF NextRepo, world, Busy
<1>2. /\ Repos' = Repos /\ Wanted' = Wanted
      /\ \A t : Versions(t)' = Versions(t)
      /\ \A t, i, r : GotFrom(t, i, r)' <=> GotFrom(t, i, r)
      /\ \A t \in Targets : \A i : AsGood(t, i) => AsGood(t, i)'
      /\ \A t \in Targets : \A k : BestOf(t, k) => BestOf(t, k)'
  BY <1>1, BestKept DEF ImageInv
<1>3. DOMAIN want \subseteq Wanted /\ Wanted \subseteq Targets /\ repo \in 0 .. Len(Repos)
      /\ Len(Repos) \in Nat
  BY <1>1, ConfigFacts DEF ImageInv, WorldOK, PlanOK
<1>4. clean => \A t \in DOMAIN want : BestOf(t, repo)
  BY <1>1 DEF BestInv, DoneInv
<1>5. CASE repo = Len(Repos) /\ pc' = "rest"
  <2>1. ASSUME clean' PROVE \A t \in Wanted : HasBest(t)
    <3>1. \A t \in Wanted : Good(t) \/ BestOf(t, Len(Repos))
      BY <1>1, <1>4, <1>5, <2>1 DEF ImageInv, PlanOK
    <3>. QED
      BY <3>1, BestOfAll DEF ImageInv
  <2>2. PassFetchesBest'
    BY <1>1, <2>1 DEF PassFetchesBest, Wanted, HasBest, Obtainable
  <2>. QED
    BY <1>5, <2>2 DEF BestInv, ShortInv, AskedInv, TriedInv, DoneInv, Busy, Working
<1>6. CASE /\ repo # Len(Repos) /\ repo' = repo + 1 /\ todo' = DOMAIN want
           /\ pc' = IF Repos[repo + 1].parses THEN "ask" ELSE "round"
  <2>1. ShortInv'
    BY <1>1, <1>2, <1>3 DEF BestInv, ShortInv
  <2>2. AskedInv'
    BY <1>1, <1>2, <1>3, <1>6 DEF BestInv, AskedInv
  <2>3. DoneInv'
    <3>0. PICK k : k = repo + 1
      OBVIOUS
    <3> SUFFICES ASSUME clean', pc' = "round", NEW t \in DOMAIN want
                 PROVE  BestOf(t, k)'
      BY <1>1, <1>6, <3>0 DEF DoneInv, BestOf
    <3>1. ~Repos[k].parses /\ BestOf(t, repo) /\ t \in Targets
      BY <1>1, <1>3, <1>4, <1>6, <3>0
    <3>2. BestOf(t, k)
      BY <1>3, <3>0, <3>1 DEF BestOf, GotFrom
    <3>. QED
      BY <1>2, <1>6, <3>1, <3>2
  <2>. QED
    BY <1>6, <2>1, <2>2, <2>3 DEF BestInv, TriedInv, Working, PassFetchesBest, Asleep
<1>. QED
  BY <1>5, <1>6 DEF NextRepo, Rest, Repos

LEMMA BestByAsk ==
    ASSUME ImageInv, BestInv, NEW x \in Targets, Ask(x) PROVE BestInv'
<1>1. /\ UNCHANGED <<images, held, config, want, repo, left, current, judged>>
      /\ pc = "ask" /\ Busy
      /\ \/ pc' = "pull" /\ todo' = DOMAIN want /\ todo = {x}
         \/ pc' = "ask" /\ todo' = todo \ {x}
  BY DEF Ask, world, Busy
<1>2. /\ Repos' = Repos /\ Wanted' = Wanted
      /\ \A t : Versions(t)' = Versions(t)
      /\ \A t \in Targets : \A i : AsGood(t, i) => AsGood(t, i)'
  BY <1>1, BestKept DEF ImageInv
<1>3. \/ /\ avail' = avail \cup {<<repo, x, tag>> : tag \in TagsOf(Repos[repo], x, held)}
         /\ clean' = clean
      \/ ~clean'
  BY DEF Ask, Fault, Repos
<1>4. DOMAIN want \subseteq Targets
  BY <1>1, ConfigFacts DEF ImageInv, WorldOK, PlanOK
<1>5. ShortInv'
  BY <1>1, <1>2, <1>4 DEF BestInv, ShortInv
<1>6. AskedInv'
  <2> SUFFICES ASSUME clean', NEW t \in DOMAIN want, NEW r \in 1 .. repo, Repos[r].parses,
                      ~(pc' = "ask" /\ r = repo /\ t \in todo'),
                      NEW tag \in TagsOf(Repos[r], t, held)
               PROVE  <<r, t, tag>> \in avail'
    BY <1>1, <1>2 DEF AskedInv
  <2>1. CASE r = repo /\ t = x
    BY <1>3, <2>1
  <2>2. CASE ~(r = repo /\ t = x)
    <3>1. ~(r = repo /\ t \in todo)
      BY <1>1, <2>2
    <3>2. <<r, t, tag>> \in avail
      BY <1>1, <1>3, <3>1 DEF BestInv, AskedInv
    <3>. QED
      BY <1>3, <3>2
  <2>. QED
    BY <2>1, <2>2
<1>7. DoneInv'
  BY <1>1 DEF DoneInv
<1>. QED
  BY <1>1, <1>5, <1>6, <1>7 DEF BestInv, TriedInv, Working, PassFetchesBest, Asleep

LEMMA BestByPull ==
    ASSUME ImageInv, BestInv, NEW x \in Targets, Pull(x) PROVE BestInv'
<1>1. /\ UNCHANGED <<images, held, config, want, avail, repo, judged, clean>>
      /\ pc = "pull" /\ x \in todo /\ todo' = todo \ {x} /\ Busy
      /\ left' = Attempts(x) /\ current'[1] = x /\ pc' = "attempt"
  BY DEF Pull, world, plan, Busy
<1>2. /\ Repos' = Repos /\ Wanted' = Wanted
      /\ \A t : Versions(t)' = Versions(t)
      /\ \A t \in Targets : \A i : AsGood(t, i) => AsGood(t, i)'
      /\ \A t \in Targets : \A k : BestOf(t, k) => BestOf(t, k)'
  BY <1>1, BestKept DEF ImageInv
<1>3. DOMAIN want \subseteq Targets
  BY <1>1, ConfigFacts DEF ImageInv, WorldOK, PlanOK
<1>4. ShortInv'
  BY <1>1, <1>2, <1>3 DEF BestInv, ShortInv
<1>5. AskedInv'
  BY <1>1, <1>2 DEF BestInv, AskedInv
<1>6. TriedInv'
  BY <1>1 DEF TriedInv, Attempts
<1>7. DoneInv'
  <2>1. PICK k : k = repo
    OBVIOUS
  <2> SUFFICES ASSUME clean, NEW t \in (DOMAIN want \ todo) \cup {x}, t # x
               PROVE  BestOf(t, k)'
    BY <1>1, <2>1 DEF DoneInv, BestOf, Working
  <2>2. BestOf(t, k) /\ t \in Targets
    BY <1>1, <1>3, <2>1 DEF BestInv, DoneInv, Working
  <2>. QED
    BY <1>2, <2>2
<1>. QED
  BY <1>1, <1>4, <1>5, <1>6, <1>7 DEF BestInv, PassFetchesBest, Asleep

\* The target that got the version of the first attempt that could succeed has
\* the best there was.
LEMMA BestByMatching ==
    ASSUME ImageInv, BestInv, Working, NEW a \in Attempts(current[1]),
           UNCHANGED <<held, config, want, avail, repo, todo>>, clean' = clean, pc' = "pull",
           images' = [images EXCEPT ![current[1]] = @ \cup {want[current[1]][a[1]]}],
           clean => \A b \in Attempts(current[1]) :
                       Pullable(Repos[b[2]], current[1], want[current[1]][b[1]], held)
                          => Earlier(a, b)
    PROVE  BestInv'
<1>0. PICK x, tag : x = current[1] /\ tag = want[x][a[1]]
  OBVIOUS
<1>1. /\ x \in DOMAIN want /\ x \in Targets
      /\ tag = Versions(x)[a[1]] /\ a[1] \in DOMAIN Versions(x) /\ x \in Wanted
  BY <1>0, AttemptFacts
<1>2. images' = [images EXCEPT ![x] = @ \cup {tag}]
  BY <1>0
<1>3. /\ Repos' = Repos /\ Wanted' = Wanted
      /\ \A t : Versions(t)' = Versions(t)
      /\ \A t, i, r : GotFrom(t, i, r)' <=> GotFrom(t, i, r)
      /\ \A t \in Targets : \A i : AsGood(t, i) => AsGood(t, i)'
      /\ \A t \in Targets : \A k : BestOf(t, k) => BestOf(t, k)'
  BY <1>1, <1>2, BestKept DEF ImageInv
<1>4. DOMAIN want \subseteq Targets /\ repo \in Nat /\ pc \in {"attempt", "tag"}
      /\ DOMAIN Versions(x) = 1 .. Len(Versions(x)) /\ Len(Versions(x)) \in Nat
  <2>1. DOMAIN want \subseteq Targets /\ repo \in Nat /\ pc \in {"attempt", "tag"}
    BY ConfigFacts DEF ImageInv, WorldOK, PlanOK, Busy, Working
  <2>2. Versions(x) \in Seq(Tags)
    BY <1>1, ConfigFacts DEF ImageInv, WorldOK
  <2>. QED
    BY <2>1, <2>2, LenProperties
<1>5. ShortInv'
  BY <1>3, <1>4 DEF BestInv, ShortInv, Busy
<1>6. AskedInv'
  BY <1>3, <1>4 DEF BestInv, AskedInv, Busy
<1>7. ASSUME clean, NEW i \in DOMAIN Versions(x), NEW r \in 1 .. repo, GotFrom(x, i, r)
      PROVE  AsGood(x, i)'
  <2>1. CASE AsGood(x, i)
    BY <1>1, <1>3, <2>1
  <2>2. CASE <<i, r>> \in Attempts(x) /\ want[x][i] = Versions(x)[i]
    <3>1. Pullable(Repos[r], x, want[x][i], held)
      BY <1>7, <2>2 DEF GotFrom
    <3>2. Earlier(a, <<i, r>>)
      BY <1>0, <1>7, <2>2, <3>1
    <3>3. a[1] \in 1 .. i
      BY <1>1, <1>4, <3>2 DEF Earlier
    <3>4. Versions(x)[a[1]] \in images'[x]
      BY <1>1, <1>2 DEF ImageInv, WorldOK
    <3>. QED
      BY <1>3, <3>3, <3>4 DEF AsGood
  <2>. QED
    BY <1>0, <1>7, <2>1, <2>2, NoneLeftIsBest
<1>8. DoneInv'
  <2>1. PICK k : k = repo
    OBVIOUS
  <2> SUFFICES ASSUME clean, NEW t \in DOMAIN want \ todo PROVE BestOf(t, k)'
    BY <2>1 DEF DoneInv, BestOf
  <2>2. CASE t = x
    BY <1>3, <1>7, <2>1, <2>2 DEF BestOf
  <2>3. CASE t # x
    <3>1. BestOf(t, k) /\ t \in Targets
      BY <1>0, <1>4, <2>1, <2>3 DEF BestInv, DoneInv
    <3>. QED
      BY <1>3, <3>1
  <2>. QED
    BY <2>2, <2>3
<1>. QED
  BY <1>5, <1>6, <1>8 DEF BestInv, TriedInv, Working, PassFetchesBest, Asleep

\* Nothing is fetched but what was asked for is known or tried.
LEMMA BestByTryPull ==
    ASSUME ImageInv, BestInv, TryPull PROVE BestInv'
<1>1. PICK a \in left :
         /\ \A b \in left : Earlier(a, b)
         /\ left' = left \ {a}
         /\ PullFrom(a, current[1], want[current[1]][a[1]], Repos[a[2]])
  BY Zenon DEF TryPull, Repos
<1> DEFINE x == current[1]
           tag == want[x][a[1]]
<1>2. /\ UNCHANGED <<held, config, want, avail, repo, todo, judged>>
      /\ pc = "attempt" /\ Working /\ Busy
  BY DEF TryPull, plan, Working, Busy
<1>3. a \in Attempts(x)
  BY <1>2 DEF ImageInv, RoundOK
<1>4. clean => \A b \in Attempts(x) \ left :
                  ~Pullable(Repos[b[2]], x, want[x][b[1]], held)
  BY <1>2 DEF BestInv, TriedInv
<1>5. CASE /\ images' = [images EXCEPT ![x] = @ \cup {tag}] /\ Matched(a)
           /\ UNCHANGED clean
  <2>1. pc' = "pull"
    BY <1>5 DEF Matched
  <2>2. clean => \A b \in Attempts(x) :
                    Pullable(Repos[b[2]], x, want[x][b[1]], held) => Earlier(a, b)
    BY <1>1, <1>4
  <2>. QED
    BY <1>2, <1>3, <1>5, <2>1, <2>2, BestByMatching
<1>6. CASE /\ pc' \in {"attempt", "tag"} /\ UNCHANGED <<images, clean>>
           /\ current'[1] = x
           /\ pc' = "tag" => /\ current'[2] = a
                             /\ pulled' = pulled \cup {<<Source(Repos[a[2]]), x, tag>>}
           /\ pc' = "attempt" => ~Pullable(Repos[a[2]], x, tag, held)
  <2>1. /\ Repos' = Repos /\ Wanted' = Wanted
        /\ \A t : Versions(t)' = Versions(t)
        /\ \A t \in Targets : \A i : AsGood(t, i) => AsGood(t, i)'
        /\ \A t \in Targets : \A k : BestOf(t, k) => BestOf(t, k)'
    BY <1>2, <1>6, BestKept DEF ImageInv
  <2>2. DOMAIN want \subseteq Targets
    BY <1>2, ConfigFacts DEF ImageInv, WorldOK, PlanOK
  <2>3. ShortInv'
    BY <1>2, <1>6, <2>1, <2>2 DEF BestInv, ShortInv
  <2>4. AskedInv'
    BY <1>2, <1>6, <2>1 DEF BestInv, AskedInv
  <2>5. TriedInv'
    <3>1. \A t : Attempts(t)' = Attempts(t)
      BY <1>2, AttemptsKept DEF plan
    <3>2. Attempts(current[1])' = Attempts(x)
      BY <1>2, <1>6 DEF Attempts
    <3>3. want' = want /\ held' = held /\ current'[1] = x
      BY <1>2, <1>6
    <3>4. pc' = "tag" => <<Source(Repos[a[2]]), x, tag>> \in pulled'
      BY <1>6
    <3>5. pc' = "tag" => /\ current'[2] = a
                         /\ \A b \in left' : Earlier(a, b)
      BY <1>1, <1>6
    <3>6. clean => \A b \in Attempts(x) \ left' :
                      b = a \/ ~Pullable(Repos[b[2]], x, want[x][b[1]], held)
      BY <1>1, <1>4
    <3> HIDE DEF x
    <3>. QED
      BY <1>6, <2>1, <3>2, <3>3, <3>4, <3>5, <3>6 DEF TriedInv, tag
  <2>6. DoneInv'
    <3>1. PICK k : k = repo
      OBVIOUS
    <3> SUFFICES ASSUME clean, NEW t \in DOMAIN want \ todo, t # x PROVE BestOf(t, k)'
      BY <1>2, <1>6, <3>1 DEF DoneInv, BestOf, Working
    <3>2. BestOf(t, k) /\ t \in Targets
      BY <1>2, <2>2, <3>1 DEF BestInv, DoneInv
    <3>. QED
      BY <2>1, <3>2
  <2>. QED
    BY <1>6, <2>3, <2>4, <2>5, <2>6 DEF BestInv, PassFetchesBest, Asleep
<1>7. CASE ~clean' /\ UNCHANGED images
  BY <1>2, <1>7, BestUnclean DEF plan
<1>. QED
  <2>. HIDE DEF x, tag
  <2>1. \/ images' = [images EXCEPT ![x] = @ \cup {tag}] /\ Matched(a) /\ UNCHANGED clean
        \/ /\ pc' = "tag" /\ UNCHANGED <<images, clean>> /\ current' = <<x, a>>
           /\ pulled' = pulled \cup {<<Source(Repos[a[2]]), x, tag>>}
        \/ /\ UNCHANGED <<images, clean, current, pc>> /\ ~Pullable(Repos[a[2]], x, tag, held)
        \/ ~clean' /\ UNCHANGED images
    BY <1>1 DEF PullFrom, Fault, x, tag
  <2>2. current' = current => current'[1] = x
    BY DEF x
  <2>. QED
    BY <1>2, <1>5, <1>6, <1>7, <2>1, <2>2

LEMMA BestByTagImage ==
    ASSUME ImageInv, BestInv, TagImage PROVE BestInv'
<1> DEFINE x == current[1]
           a == current[2]
<1>1. /\ UNCHANGED <<held, config, want, avail, repo, todo, left, judged>>
      /\ pc = "tag" /\ Working /\ Busy
  BY DEF TagImage, plan, Working, Busy
<1>2. a \in Attempts(x)
  BY <1>1 DEF ImageInv, RoundOK
<1>3. CASE /\ images' = [images EXCEPT ![x] = @ \cup {want[x][a[1]]}] /\ Matched(a)
           /\ UNCHANGED clean
  <2>1. pc' = "pull"
    BY <1>3 DEF Matched
  <2>2. Earlier(a, a)
    <3>1. a[1] \in DOMAIN Versions(x) /\ x \in Wanted /\ a[2] \in 1 .. Len(Repos)
      BY <1>1, <1>2, AttemptFacts
    <3>2. Versions(x) \in Seq(Tags)
      BY <3>1, ConfigFacts DEF ImageInv, WorldOK
    <3>3. a[1] \in Int /\ a[2] \in Int
      BY <3>1, <3>2, LenProperties
    <3>. QED
      BY <3>3 DEF Earlier
  <2>3. clean => \A b \in Attempts(x) :
                    Pullable(Repos[b[2]], x, want[x][b[1]], held) => Earlier(a, b)
    BY <1>1, <2>2 DEF BestInv, TriedInv
  <2>. QED
    BY <1>1, <1>2, <1>3, <2>1, <2>3, BestByMatching
<1>4. CASE ~clean' /\ UNCHANGED images
  BY <1>1, <1>4, BestUnclean
<1>5. clean => <<Source(Repos[a[2]]), x, want[x][a[1]]>> \in pulled
  BY <1>1 DEF BestInv, TriedInv
<1>. QED
  BY <1>3, <1>4, <1>5 DEF TagImage, Fault, Repos

LEMMA BestByNoneLeft ==
    ASSUME ImageInv, BestInv, NoneLeft PROVE BestInv'
<1>1. /\ UNCHANGED <<images, held, config, want, avail, repo, todo, left, judged, clean>>
      /\ pc = "attempt" /\ pc' = "pull" /\ left = {} /\ Working /\ Busy
  BY DEF NoneLeft, world, plan, round, Working, Busy
<1>2. /\ Repos' = Repos /\ Wanted' = Wanted
      /\ \A t : Versions(t)' = Versions(t)
      /\ \A t \in Targets : \A i : AsGood(t, i) => AsGood(t, i)'
      /\ \A t \in Targets : \A k : BestOf(t, k) => BestOf(t, k)'
  BY <1>1, BestKept DEF ImageInv
<1>3. DOMAIN want \subseteq Targets
  BY <1>1, ConfigFacts DEF ImageInv, WorldOK, PlanOK
<1>4. ShortInv'
  BY <1>1, <1>2, <1>3 DEF BestInv, ShortInv
<1>5. AskedInv'
  BY <1>1, <1>2 DEF BestInv, AskedInv
<1>6. DoneInv'
  <2>1. PICK k, x : k = repo /\ x = current[1]
    OBVIOUS
  <2> SUFFICES ASSUME clean, NEW t \in DOMAIN want \ todo PROVE BestOf(t, k)'
    BY <1>1, <2>1 DEF DoneInv, BestOf
  <2>2. CASE t # x
    BY <1>1, <1>2, <1>3, <2>1, <2>2 DEF BestInv, DoneInv
  <2>3. CASE t = x
    <3>1. ASSUME NEW i \in DOMAIN Versions(x), NEW r \in 1 .. repo, GotFrom(x, i, r)
          PROVE  AsGood(x, i)
      <4>1. <<i, r>> \in Attempts(x) /\ want[x][i] = Versions(x)[i]
               => ~Pullable(Repos[r], x, Versions(x)[i], held)
        BY <1>1, <2>1 DEF BestInv, TriedInv
      <4>. QED
        BY <1>1, <2>1, <3>1, <4>1, NoneLeftIsBest DEF GotFrom
    <3>2. BestOf(x, k)
      BY <2>1, <3>1 DEF BestOf
    <3>. QED
      BY <1>2, <1>3, <2>3, <3>2
  <2>. QED
    BY <2>2, <2>3
<1>. QED
  BY <1>1, <1>4, <1>5, <1>6 DEF BestInv, TriedInv, Working, PassFetchesBest, Asleep

LEMMA BestByEndRound ==
    ASSUME ImageInv, BestInv, EndRound PROVE BestInv'
<1>1. /\ UNCHANGED <<images, held, config, want, avail, repo, todo, clean>>
      /\ pc = "pull" /\ pc' = "round" /\ todo = {} /\ Busy /\ ~Working
  BY DEF EndRound, world, plan, round, Working, Busy
<1>2. /\ Repos' = Repos /\ Wanted' = Wanted
      /\ \A t : Versions(t)' = Versions(t)
      /\ \A t \in Targets : \A i : AsGood(t, i) => AsGood(t, i)'
      /\ \A t \in Targets : \A k : BestOf(t, k) => BestOf(t, k)'
  BY <1>1, BestKept DEF ImageInv
<1>3. DOMAIN want \subseteq Targets
  BY <1>1, ConfigFacts DEF ImageInv, WorldOK, PlanOK
<1>4. ShortInv'
  BY <1>1, <1>2, <1>3 DEF BestInv, ShortInv
<1>5. AskedInv'
  BY <1>1, <1>2 DEF BestInv, AskedInv
<1>6. DoneInv'
  <2>1. PICK k : k = repo
    OBVIOUS
  <2> SUFFICES ASSUME clean, NEW t \in DOMAIN want PROVE BestOf(t, k)'
    BY <1>1, <2>1 DEF DoneInv, BestOf
  <2>. QED
    BY <1>1, <1>2, <1>3, <2>1 DEF BestInv, DoneInv
<1>. QED
  BY <1>1, <1>4, <1>5, <1>6 DEF BestInv, TriedInv, Working, PassFetchesBest, Asleep

LEMMA BestByOthers ==
    ASSUME ImageInv, BestInv, Wake \/ Outside PROVE BestInv'
<1>1. CASE Wake \/ \E cfg \in Configs : Reconfigure(cfg)
  <2>1. pc' = "begin" \/ (pc' = "rest" /\ ~clean')
    BY <1>1 DEF Wake, Reconfigure, Asleep, Disturb
  <2>. QED
    BY <2>1 DEF BestInv, ShortInv, AskedInv, TriedInv, DoneInv, PassFetchesBest, Busy, Working,
       Asleep
<1>2. CASE \E host \in Hosts, t \in Targets, tag \in Tags : RegistryChanges(host, t, tag)
  BY <1>2, BestUnclean DEF RegistryChanges, Disturb, plan, Busy
<1>. QED
  BY <1>1, <1>2 DEF Outside

\* BestInv is inductive with ImageInv.
LEMMA BestInductive == Spec => []BestInv
<1>1. ASSUME ImageInv, BestInv, [Next]_vars PROVE BestInv'
  <2>1. CASE UNCHANGED vars
    BY <1>1, <2>1 DEF vars, world, plan, round, BestInv, ShortInv, AskedInv, TriedInv, DoneInv,
       PassFetchesBest, Busy, Working, Asleep, AsGood, BestOf, GotFrom, Versions, Repos,
       Attempts, HasBest, Obtainable
  <2>2. CASE Next
    BY <1>1, <2>2, BestByStart, BestByNextRepo, BestByTryPull, BestByTagImage, BestByNoneLeft,
       BestByEndRound, BestByAsk, BestByPull, BestByOthers
    DEF Next, Pass
  <2>. QED
    BY <1>1, <2>1, <2>2
<1>. QED
  BY <1>1, InitBest, ImageInductive, PTL DEF Spec

-----------------------------------------------------------------------------
(* Theorems.                                                                  *)

\* Type correctness of the image worker's pass (worker.go:81-310).
THEOREM ImageTypeCorrect == Spec => []ImageTypeOK
<1>1. ImageInv => ImageTypeOK
  <2>. SUFFICES ASSUME ImageInv PROVE ImageTypeOK
    OBVIOUS
  <2>1. /\ unsolved \in BOOLEAN /\ wake \in BOOLEAN /\ timer \in BOOLEAN
        /\ judged \in BOOLEAN /\ unnoticed \in BOOLEAN /\ clean \in BOOLEAN
    BY Zenon DEF ImageInv, FlagsOK
  <2>2. pc \notin {"begin", "rest"} =>
           /\ DOMAIN want \subseteq DOMAIN config.targets
           /\ repo \in 0 .. Len(config.repos)
    BY DEF ImageInv, ControlOK, PlanOK, Busy, Phases, Wanted, Repos
  <2>. QED
    BY <2>1, <2>2 DEF ImageInv, WorldOK, ControlOK, ImageTypeOK
<1>. QED
  BY <1>1, ImageInductive, PTL

\* A pass in which no call failed and nothing changed leaves every target with
\* the best version that a repository of the list has and Docker can pull,
\* however many worse ones, other repositories and URLs that do not parse were
\* in the way (worker.go:113-310).
THEOREM PassGetsBest == Spec => []PassFetchesBest
<1>1. BestInv => PassFetchesBest
  BY DEF BestInv
<1>. QED
  BY <1>1, BestInductive, PTL

\* Whatever the registries hold, whichever calls fail, noticed or not, and however
\* the pass is cut short, the worker implements Device: under a target's name
\* come only versions the configuration lists and a registry had, none goes, and
\* unless a pull failed unnoticed the worker sleeps without a reason to wake only
\* when every target has its first version, or any where it lists none and takes
\* any (worker.go:113-310).
THEOREM WorkerImplementsDevice == Spec => ImplementsDevice
<1>1. Init => Promise!Init
  BY SettledAsleep DEF Init, Promise!Init, Coming
<1>2. ASSUME ImageInv, [Next]_vars PROVE [Promise!Next]_(Promise!vars)
  <2>1. CASE UNCHANGED vars
    <3>1. UNCHANGED <<images, held, config>>
      BY <2>1 DEF vars, world
    <3>2. UNCHANGED <<Coming, Settled>>
      BY <2>1 DEF vars, world, Coming, Settled, Asleep, sleep
    <3>. QED
      BY <3>1, <3>2 DEF Promise!vars
  <2>2. CASE Next
    BY <1>2, <2>2, TryPullIsDevice, TagImageIsDevice, RestIsDevice, OtherStepIsDevice,
       OutsideIsDevice
    DEF Next, Pass
  <2>. QED
    BY <1>2, <2>1, <2>2
<1>. QED
  BY <1>1, <1>2, ImageInductive, PTL DEF Spec, ImplementsDevice, Promise!Spec

=============================================================================
