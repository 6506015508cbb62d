------------------------------ MODULE ImageSync ------------------------------
(***************************************************************************)
(* ImageSyncWorker.processOnce (pkg/imagesync/worker.go) and the sleep     *)
(* around it: what is missing, which repositories have it, which tag is    *)
(* pulled from where, and whether the worker will look again.              *)
(*                                                                         *)
(* A repository is asked for its tags at the first of its endpoints that   *)
(* answers (Endpoints).  It is Docker that pulls, from the repository's    *)
(* pull prefix or, without one, from Docker Hub; the URL has no part in    *)
(* that.  A pull has succeeded if Docker answered 200 and the answer could *)
(* be read to its end: an error that Docker reports inside the answer goes *)
(* unnoticed.  Tags carry the architecture suffix.  Images are never       *)
(* removed.                                                                *)
(* The locks, the channels and the timer's pointer are Daemon's subject:   *)
(* here a configuration changes between two passes, with its wake.         *)
(***************************************************************************)
EXTENDS Endpoints, SequencesExt

CONSTANTS
    Targets,        \* image names
    Tags,           \* image tags
    Configs,        \* configurations the user may give
    InitialImages,  \* tags Docker may have of each target at the start
    InitialHeld,    \* tags each registry may have of each target at the start
    Serves,         \* how a host answers: "https", "selfsigned", "http"
    Private,        \* registries that want credentials
    NoPrefix,       \* a repository without PullPrefix
    MaxChanges,     \* bound: edits of config, and changes of registries
    MaxFaults       \* bound: calls that fail though they could succeed, and
                    \* pulls that fail unnoticed

Held == [Hosts -> [Targets -> SUBSET Tags]]

ASSUME ImageSyncAssumption ==
    /\ NoPrefix \notin Hosts
    /\ Serves \in [Hosts -> SUBSET {"https", "selfsigned", "http"}]
    /\ Private \subseteq Hosts
    /\ InitialImages \subseteq [Targets -> SUBSET Tags]
    /\ InitialHeld \subseteq Held
    /\ \A cfg \in Configs :
          /\ DOMAIN cfg.targets \subseteq Targets
          /\ \A t \in DOMAIN cfg.targets :
                cfg.targets[t] \in [versions : Seq(Tags), useAny : BOOLEAN]
          /\ cfg.repos \in Seq([host : Hosts, parses : BOOLEAN, insecure : BOOLEAN,
                                prefix : Hosts \cup {NoPrefix}, creds : BOOLEAN])
          /\ cfg.recheck \in BOOLEAN
    /\ MaxChanges \in Nat /\ MaxFaults \in Nat

VARIABLES
    images,     \* Docker's tags of each target
    pulled,     \* what it has under a prefix: <<host, target, tag>>
    held,       \* the registries' tags of each target
    config,     \* the configuration in memory (recheck: RecheckPeriod >= 1)
    pc,         \* where the worker is
    want,       \* imagesToFetch: NeededTags of some targets
    avail,      \* AvailableAt: <<repository, target, tag>>
    repo,       \* the repository of this round
    todo,       \* targets this round has yet to ask for or to pull
    left,       \* attempts left for the target that is being pulled
    current,    \* the target that is being pulled, and the attempt to tag
    unsolved,   \* UnsolvedReqs
    wake,       \* WakeChannel holds a wake
    timer,      \* RecheckTimer is armed
    judged,     \* history: the last pass got as far as to judge the targets
    unnoticed,  \* history: a pull of this pass failed, and was taken for done
    clean,      \* history: no call failed and nothing changed in this pass
    changes, faults   \* counters for the bounds

world  == <<images, pulled, held, config>>
plan   == <<want, avail, repo>>
round  == <<todo, left, current>>
sleep  == <<wake, timer>>
counts == <<changes, faults>>
vars   == <<world, pc, plan, round, unsolved, sleep, judged, unnoticed, clean, counts>>

Phases == {"begin", "ask", "pull", "attempt", "tag", "round", "rest"}

-----------------------------------------------------------------------------
(* What is needed, and who has it.                                            *)

\* The versions better than the best that is there.  An unlisted tag scores as
\* badly as none.
NeededTags(versions, have) ==
    LET listed == {i \in DOMAIN versions : versions[i] \in have}
    IN  IF listed = {} THEN versions ELSE SubSeq(versions, 1, Min(listed) - 1)

\* Targets that have their best version, or ask for none, are left out.
ToFetch(cfg, have) ==
    [t \in {t \in DOMAIN cfg.targets :
               LET target == cfg.targets[t]
               IN  IF target.versions = <<>> THEN target.useAny
                   ELSE target.versions[1] \notin have[t]}
        |-> NeededTags(cfg.targets[t].versions, have[t])]

ServiceOf(rege) ==
    newServiceConfig([insecure |-> IF rege.insecure THEN {rege.host} ELSE {},
                      mirrors |-> <<>>, v2only |-> FALSE])

\* NewV2Repository pings: whoever answers at all will do.
Reachable(endpoint) ==
    \/ endpoint.scheme \in Serves[endpoint.host]
    \/ endpoint.scheme = "https" /\ endpoint.skipVerify /\ "selfsigned" \in Serves[endpoint.host]

Authorized(host, rege) == host \in Private => rege.creds

\* The tags a repository lists: those of its first endpoint that answers.
TagsOf(rege, t, at) ==
    LET answering == SelectSeq(LookupPullEndpoints(ServiceOf(rege), rege.host), Reachable)
    IN  IF answering # <<>> /\ Authorized(answering[1].host, rege)
        THEN at[answering[1].host][t] ELSE {}

\* Docker pulls with the repository's credentials from somewhere else.
Source(rege) == IF rege.prefix = NoPrefix THEN DefaultV2Registry ELSE rege.prefix

Pullable(rege, t, tag, at) ==
    Authorized(Source(rege), rege) /\ tag \in at[Source(rege)][t]

\* Mutant: one repository after the other, each with all of its versions.
Earlier_ByRepository(a, b) == a[2] < b[2] \/ (a[2] = b[2] /\ a[1] <= b[1])

\* In the order of the versions, and for each in the order of the repositories.
Earlier(a, b) == a[1] < b[1] \/ (a[1] = b[1] /\ a[2] <= b[2])

Attempts(t) ==
    {a \in (DOMAIN want[t]) \X (1 .. repo) : <<a[2], t, want[t][a[1]]>> \in avail}

-----------------------------------------------------------------------------
(* The outside.                                                               *)

Asleep == pc = "rest"

Disturb == clean' = FALSE /\ changes < MaxChanges /\ changes' = changes + 1

\* A registry gets a tag, or loses one.
RegistryChanges(host, t, tag) ==
    /\ Serves[host] # {}
    /\ Disturb
    /\ held' = [held EXCEPT ![host][t] = IF tag \in @ THEN @ \ {tag} ELSE @ \cup {tag}]
    /\ UNCHANGED <<images, pulled, config, pc, plan, round, unsolved, sleep, judged, unnoticed, faults>>

\* Main gets ConfigLock between two passes only.  It stops the timer and wakes
\* the worker.
Reconfigure(cfg) ==
    /\ Asleep
    /\ Disturb
    /\ config' = cfg
    /\ timer' = FALSE
    /\ wake' = TRUE
    /\ UNCHANGED <<images, pulled, held, pc, plan, round, unsolved, judged, unnoticed, faults>>

\* A call may fail; then nothing is said of this pass.
Fault == faults < MaxFaults /\ faults' = faults + 1 /\ clean' = FALSE

-----------------------------------------------------------------------------
(* The pass.                                                                  *)

Rest(unsolvedReqs) == pc' = "rest" /\ timer' = (config.recheck /\ unsolvedReqs)

\* No repositories, no list of images or nothing to fetch: the pass is over.
Start ==
    /\ pc = "begin"
    /\ unsolved' = FALSE /\ unnoticed' = FALSE
    /\ repo' = 0
    /\ avail' = {}
    /\ \/ /\ config.repos = <<>>
          /\ judged' = FALSE
          /\ want' = <<>>
          /\ Rest(FALSE)
          /\ UNCHANGED <<clean, faults>>
       \/ /\ config.repos # <<>>
          /\ Fault
          /\ judged' = FALSE
          /\ want' = <<>>
          /\ Rest(FALSE)
       \/ /\ config.repos # <<>>
          /\ want' = ToFetch(config, images)
          /\ judged' = (want' = <<>>)
          /\ clean' = TRUE
          /\ IF want' = <<>> THEN Rest(FALSE) ELSE pc' = "round" /\ timer' = FALSE
          /\ UNCHANGED faults
    /\ UNCHANGED <<world, round, wake, changes>>

\* Mutant: one repository too many.
NextRepo_Overrun ==
    /\ pc = "round"
    /\ IF repo > Len(config.repos)
       THEN Rest(unsolved) /\ UNCHANGED <<repo, todo>>
       ELSE repo' = repo + 1 /\ pc' = "ask" /\ todo' = DOMAIN want /\ UNCHANGED timer
    /\ UNCHANGED <<world, want, avail, left, current, unsolved, wake, judged, unnoticed, clean,
                   counts>>

\* The next repository.  Where its URL cannot be parsed, even what is known of
\* the others is not pulled.
NextRepo ==
    /\ pc = "round"
    /\ IF repo = Len(config.repos)
       THEN Rest(unsolved) /\ UNCHANGED <<repo, todo>>
       ELSE /\ repo' = repo + 1
            /\ pc' = IF config.repos[repo + 1].parses THEN "ask" ELSE "round"
            /\ todo' = DOMAIN want
            /\ UNCHANGED timer
    /\ UNCHANGED <<world, want, avail, left, current, unsolved, wake, judged, unnoticed, clean,
                   counts>>

\* One target: what its tags are, unless no endpoint connects or the list fails.
Ask(t) ==
    /\ pc = "ask" /\ t \in todo
    /\ \/ /\ avail' = avail \cup {<<repo, t, tag>> : tag \in TagsOf(config.repos[repo], t, held)}
          /\ UNCHANGED <<clean, faults>>
       \/ Fault /\ UNCHANGED avail
    /\ IF todo = {t} THEN pc' = "pull" /\ todo' = DOMAIN want
       ELSE pc' = "ask" /\ todo' = todo \ {t}
    /\ UNCHANGED <<world, want, repo, left, current, unsolved, sleep, judged, unnoticed, changes>>

\* The next target and the attempts there are for it.
Pull(t) ==
    /\ pc = "pull" /\ t \in todo
    /\ todo' = todo \ {t}
    /\ left' = Attempts(t)
    /\ current' = <<t>>
    /\ pc' = "attempt"
    /\ UNCHANGED <<world, plan, unsolved, sleep, judged, unnoticed, clean, counts>>

\* Mutant: a target that got any version at all is solved.
Matched_Any(a) == pc' = "pull" /\ UNCHANGED unsolved

Matched(a) ==
    /\ unsolved' = (unsolved \/ a[1] # 1)
    /\ pc' = "pull"

\* ImagePull of an attempt; without a prefix the image then has its name.  Of a
\* failure the worker learns, or Docker reports it inside its answer, which is
\* read and thrown away.
PullFrom(a, t, tag, rege) ==
    \/ /\ Pullable(rege, t, tag, held)
       /\ IF rege.prefix = NoPrefix
          THEN /\ images' = [images EXCEPT ![t] = @ \cup {tag}]
               /\ Matched(a)
               /\ UNCHANGED <<pulled, current>>
          ELSE /\ pulled' = pulled \cup {<<Source(rege), t, tag>>}
               /\ pc' = "tag"
               /\ current' = <<t, a>>
               /\ UNCHANGED <<images, unsolved>>
       /\ UNCHANGED <<unnoticed, clean, faults>>
    \/ /\ ~Pullable(rege, t, tag, held)
       /\ UNCHANGED <<images, pulled, current, unsolved, unnoticed, pc, clean, faults>>
    \/ /\ Fault
       /\ UNCHANGED <<images, pulled, current, unsolved, unnoticed, pc>>
    \/ /\ Fault
       /\ IF rege.prefix = NoPrefix
          THEN unnoticed' = TRUE /\ Matched(a) /\ UNCHANGED current
          ELSE pc' = "tag" /\ current' = <<t, a>> /\ UNCHANGED <<unnoticed, unsolved>>
       /\ UNCHANGED <<images, pulled>>

\* The first attempt that is left.
TryPull ==
    /\ pc = "attempt"
    /\ \E a \in left :
          /\ \A b \in left : Earlier(a, b)
          /\ left' = left \ {a}
          /\ PullFrom(a, current[1], want[current[1]][a[1]], config.repos[a[2]])
    /\ UNCHANGED <<held, config, plan, todo, sleep, judged, changes>>

\* ImageTag, which fails for an image that is not there; where it fails the next
\* attempt is made.
TagImage ==
    /\ pc = "tag"
    /\ LET t   == current[1]
           a   == current[2]
           tag == want[t][a[1]]
           there == <<Source(config.repos[a[2]]), t, tag>> \in pulled
       IN  \/ /\ there
              /\ images' = [images EXCEPT ![t] = @ \cup {tag}]
              /\ Matched(a)
              /\ UNCHANGED <<clean, faults>>
           \/ /\ ~there
              /\ pc' = "attempt"
              /\ UNCHANGED <<images, unsolved, clean, faults>>
           \/ Fault /\ pc' = "attempt" /\ UNCHANGED <<images, unsolved>>
    /\ current' = <<current[1]>>
    /\ UNCHANGED <<pulled, held, config, plan, todo, left, sleep, judged, unnoticed, changes>>

\* Mutant: a target that got nothing is not unsolved.
NoneLeft_Solved ==
    /\ pc = "attempt" /\ left = {}
    /\ pc' = "pull"
    /\ UNCHANGED <<world, plan, round, unsolved, sleep, judged, unnoticed, clean, counts>>

\* No attempt is left: the target is unsolved.
NoneLeft ==
    /\ pc = "attempt" /\ left = {}
    /\ unsolved' = TRUE
    /\ pc' = "pull"
    /\ UNCHANGED <<world, plan, round, sleep, judged, unnoticed, clean, counts>>

\* Wakes that came meanwhile are thrown away.
EndRound ==
    /\ pc = "pull" /\ todo = {}
    /\ pc' = "round"
    /\ judged' = TRUE
    /\ wake' = FALSE
    /\ UNCHANGED <<world, plan, round, unsolved, timer, unnoticed, clean, counts>>

\* The select of Run: the wake, or the timer.
Wake ==
    /\ Asleep
    /\ wake \/ timer
    /\ pc' = "begin"
    /\ timer' = FALSE
    /\ \/ wake /\ wake' = FALSE
       \/ timer /\ wake' = wake
    /\ UNCHANGED <<world, plan, round, unsolved, judged, unnoticed, clean, counts>>

Init ==
    /\ images \in InitialImages /\ pulled = {}
    /\ held \in InitialHeld
    /\ config \in Configs
    /\ pc = "begin"
    /\ want = <<>> /\ avail = {} /\ repo = 0
    /\ todo = {} /\ left = {} /\ current = <<>>
    /\ unsolved = FALSE /\ wake = FALSE /\ timer = FALSE
    /\ judged = FALSE /\ unnoticed = FALSE /\ clean = FALSE
    /\ changes = 0 /\ faults = 0

Pass ==
    \/ Start \/ NextRepo \/ TryPull \/ TagImage \/ NoneLeft \/ EndRound \/ Wake
    \/ \E t \in Targets : Ask(t) \/ Pull(t)

Outside ==
    \/ \E host \in Hosts, t \in Targets, tag \in Tags : RegistryChanges(host, t, tag)
    \/ \E cfg \in Configs : Reconfigure(cfg)

Next == Pass \/ Outside

\* The worker runs, and every call to Docker and to a registry returns.
Spec == Init /\ [][Next]_vars /\ WF_vars(Pass)

-----------------------------------------------------------------------------
(* Properties.                                                                *)

\* Every variable has its type.
ImageTypeOK ==
    /\ images \in [Targets -> SUBSET Tags]
    /\ pulled \subseteq Hosts \X Targets \X Tags
    /\ held \in Held
    /\ config \in Configs
    /\ pc \in Phases
    /\ pc \notin {"begin", "rest"} => /\ DOMAIN want \subseteq DOMAIN config.targets
                                    /\ repo \in 0 .. Len(config.repos)
    /\ todo \subseteq Targets
    /\ unsolved \in BOOLEAN /\ wake \in BOOLEAN /\ timer \in BOOLEAN
    /\ judged \in BOOLEAN /\ unnoticed \in BOOLEAN /\ clean \in BOOLEAN
    /\ changes \in 0 .. MaxChanges /\ faults \in 0 .. MaxFaults

\* The versions of a target that some repository lists and Docker can pull.
Obtainable(t) ==
    {i \in DOMAIN config.targets[t].versions :
        \E k \in DOMAIN config.repos :
            LET tag == config.targets[t].versions[i]
            IN  /\ config.repos[k].parses
                /\ tag \in TagsOf(config.repos[k], t, held)
                /\ Pullable(config.repos[k], t, tag, held)}

\* A target has a version as good as any it could get.
HasBest(t) ==
    \A i \in Obtainable(t) :
        \E j \in 1 .. i : config.targets[t].versions[j] \in images[t]

\* When a pass ends in which no call failed and nothing changed, every target
\* has the best version that can be got, wherever in the list of repositories
\* it is and however many worse ones were found first.
PassFetchesBest ==
    Asleep /\ clean /\ judged => \A t \in DOMAIN config.targets : HasBest(t)

\* Once the calls stop failing and the registries are quiet, every target gets
\* the best version there is, with three exceptions: RecheckPeriod is negative;
\* the worker sleeps after a pass that could not list the images, which has
\* already reset UnsolvedReqs, so that no timer runs (worker.go:100-120); or it
\* sleeps after a pull of the first version that failed inside Docker's answer,
\* which counts as done (worker.go:253-268).
BestArrives ==
    <>[](\/ ~config.recheck
         \/ Asleep /\ ~judged
         \/ Asleep /\ unnoticed /\ ~unsolved
         \/ \A t \in DOMAIN config.targets : HasBest(t))

\* The device waits for nobody but the user, and not because of a pull that
\* failed unnoticed.
Settled == Asleep /\ ~wake /\ judged /\ ~unsolved /\ ~unnoticed

\* Pulled under a prefix, to be tagged in this pass or never.
Coming == {<<p[2], p[3]>> : p \in pulled}

Promise == INSTANCE Device WITH settled <- Settled, coming <- Coming

\* The worker implements Device: nothing but what the configuration lists and a
\* registry held when it was pulled gets a target's name, nothing is removed,
\* and unless a pull failed unnoticed the worker sleeps without a timer and
\* without unsolved requirements only when every target has its first version,
\* or any where it lists none and takes any (worker.go:141, :290-293).
ImplementsDevice == Promise!Spec

=============================================================================
