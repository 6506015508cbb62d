# A formal model of deviced

deviced is a daemon that keeps the containers of one Docker host as a configuration
file asks for. It has three goroutines, two locks, a handful of channels and one
external system, Docker, which changes while the daemon works. These modules model
that core: how the goroutines wake, exclude and stop each other, what a
reconciliation pass does to Docker call by call, including the case in which deviced
runs in a container that it manages itself, and what an image pass fetches from
which registry. They also model the registry client and the streams that come with
it, which have goroutines, retries and limits of their own.

Paths are those of the repository, without `src/`.

## The system

| Part | State | Operations | Talks to |
|---|---|---|---|
| `System.Main` (`pkg/daemon/system.go`) | `Config`, `ConfigLock`, `WorkerLock`, the watcher, the signal channel | read or create the file, start the workers, reload, quit | wakes both workers; kills the image worker's timer |
| `ImageSyncWorker` (`pkg/imagesync/worker.go`) | `RecheckTimer`, `UnsolvedReqs`, `WakeChannel` and `QuitChannel` (one place each), `Running` | a pass that lists images, asks the repositories and pulls; a sleep with a retry timer | Docker, registries; wakes the container worker |
| `ContainerSyncWorker` (`pkg/containersync/worker.go`) | `WakeChannel` (unbuffered), the event stream, `Running` | a pass that lists, plans, deletes, creates and starts; a sleep until a wake or an event | Docker |
| Configuration (`pkg/config`) | the decoded file | `ReadFrom`, `CreateOrRead`, `ContainerVersionScore`, the watcher | Main, both workers under `ConfigLock` |
| Reflection (`pkg/reflection`) | the container deviced runs in, if it can be found | inspect by host name at start | the container pass |
| Registry service (`pkg/registry`: `config`, `service*`, `auth`, `endpoint_v1`) | insecure registries, mirrors | look up endpoints, `Auth`, `Search` | the image pass asks it for endpoints |
| V2 repository client (`pkg/distribution`) | none that outlives a pass | `NewV2Repository`, list tags | the image pass |
| V1 sessions (`pkg/registry/session.go`) | the requests under way, a token | fourteen calls, redirections, `CancelRequest` | registries |
| Resumable reader (`pkg/httputils`) | the response, an offset, failures | `Read`, `Close` | a session |
| Pipe (`pkg/ioutils/bytespipe.go`) | buffers, a mutex and a condition | `Write`, `Read`, `CloseWithError` | its writers and readers |
| Libraries (`pkg/tarsum`, `pkg/jsonlog`, `pkg/random`, `pkg/stringid`, `pkg/types`) | hashes, encoders | | mostly unused by the daemon |

What is hard, and what must hold:

* **Wakes.** Both workers throw wakes away (the image worker after each repository,
  the container worker before a pass and in its back-off). Still, no change of the
  configuration may be slept through.
* **Locks and channels.** Main and the image worker send on an unbuffered channel
  whose receiver takes locks. A pass must see one configuration.
* **The timer.** Two goroutines set, stop and clear one timer pointer.
* **Docker moves.** Containers stop, images arrive, calls fail, and the daemon may
  crash between any two calls. Passes must come to rest in the wanted state without
  taking a target down on the way.
* **Self-replacement.** Two or more daemons may each believe that the other is
  superfluous. A stop takes up to 30 seconds, and the daemon that is being stopped
  goes on meanwhile.
* **Images.** A repository may have a worse version than a later one, or none; it
  may not be reachable, its URL may be garbled, a pull or a tag may fail, and a pull
  may fail without the worker's notice. A target must not be taken for solved before
  its best version is there.
* **Fallbacks.** Endpoints are tried in turn, over HTTPS and HTTP, in two protocols.
  What an endpoint said of itself must not be forgotten on the way.
* **Requests.** Redirections, cancels and the ends of bodies come in any order, and
  a map shared by all callers says which request was sent for which.
* **Retries.** A layer whose connection drops is read on from an offset; bytes must
  not be lost, repeated or mixed with those of an error page.
* **Limits.** Writers wait for a pipe that is full, readers for one that is empty,
  and both for one that is closed behind their back.

`PROJECT.json` lists every component, every hazard with its line, and which property
is about it.

## The modules

### Daemon

`Daemon` has one program counter per goroutine. A step is one synchronisation: a
lock, an unlock, a send, a receive, or one access to a field that no lock protects.
Names follow the code: `iwTimerNew` is the line that creates the timer, `cwDrain`
the receive loop at the top of `Run`. The unbuffered channel is a rendezvous
(`Offering`, `Receive`); the two channels of capacity one are Booleans. What a pass
does to Docker is reduced to the configuration it read (`iwSeen`, `cwSeen`), the
wake it will send (`iwTrigger`), the events it causes and `UnsolvedReqs`. The
environment edits the file (well-formed, broken, half-decodable, missing), changes
Docker, breaks the event stream and sends a signal. Memory is sequentially
consistent: the unlocked accesses are data races in Go, and the model shows what
their interleavings alone can do.

A process that panics or returns from Main stops all three goroutines (`proc`).
`Rest` is the only stuttering that is part of `Next`: it is allowed when the process
is gone or all three goroutines wait in their select, so TLC's deadlock check
reports every other standstill.

### ContainerSync

`ContainerSync` is `processOnce` of the container worker. The plan is a set of pure
operators (`Candidates`, `KeptAfter`, `Compared`, `Suitable`, `Selected`, `Plan`)
over what was listed, by positions in Docker's lists; neither list is assumed to
have an order. Each Docker call is an action, and each may fail where `Faults` says
so: a set of pairs of a daemon and a kind of call. A container is its target, its
tag and its state; the tags carry the architecture suffix already. The tag of the
container that is kept is read from a name that no longer has one and so counts as
`latest`; the model keeps this, since the choice among several containers of one
target depends on it.

A daemon is named after its container, and the daemon 0 runs outside of any.
Starting a container of `SelfTarget` boots a daemon, stopping one kills its daemon;
each has its own worker, plan and events. `Reflected` says whether a daemon found
its own container. Stop hooks only take time, and networks matter only in that a
target may lack its own.

A stop is two steps, the request (`ContainerStop`) and what Docker makes of it
(`ContainerStopped`), since `pkg/containersync/worker.go:373` waits up to 30
seconds. The daemon in the container lives in between and may have asked Docker for
something itself. If it dies first, its own stop or removal is still carried out
(`orphans`, `OrphanCarriedOut`); the same goes for the daemon 0 when it crashes. A
forced removal is in progress while its daemon is at `removing`, and so is cut off
in the same way. `CarryOut` is the effect of either, whoever asked for it.

Left out of this module: targets whose names differ in case only or that occur twice
in the file, and the end of a pass by `Quit` (see `Daemon`).

`clean`, `stale` and `crossed` are history: whether anything failed or changed
during a pass, whether an image has arrived since the images were listed, and
whether a daemon was killed with a stop or a removal of its own under way.

The two modules meet in `Reconfigured`: Main replaces the configuration only while
no pass holds `ConfigLock`, and the wake that follows arrives. The first is
`ConfigStable` and the second `NoLostWakeup` of `Daemon`.

### Endpoints, ImageSync and Device

`Endpoints` has no state: it computes the list of endpoints of a registry from the
options of a service, as `lookupV2Endpoints` and `lookupV1Endpoints` do, with
mirrors, insecure hosts and networks, and certificate directories in which a
certificate or its key is missing. A name is found in an insecure network if one of
its addresses is (`NetsOf`).

`ImageSync` is `processOnce` of the image worker and the sleep around it, over
`Endpoints`. `ToFetch` is `imagesToFetch`; `Ask` lists the tags of one target at one
repository, `TryPull` and `TagImage` are the two calls to Docker that an attempt
consists of, `Earlier` their order. A repository is asked at the first endpoint of
its URL that answers; Docker then pulls from its prefix or, without one, from Docker
Hub, wherever the URL points. A pull that fails is of two kinds. Of one the worker
learns. Of the other it does not: Docker reports an error inside an answer with
status 200, which `pullImage` reads to its end and throws away
(`pkg/imagesync/worker.go:253-268`). Then the attempt counts as done with nothing
pulled: without a prefix the target is taken for solved (`unnoticed` is the history
of this), with one the tag fails, unless an earlier pass has left the image under
its prefix (`pulled`). The code treats each repository in a round of its own:
attempts of a round include what earlier repositories offered, and a repository
whose URL cannot be parsed skips its round. Calls that could succeed may fail
(`MaxFaults`); registries gain and lose tags at any moment; the configuration
changes between passes only, which is `ConfigStable` of `Daemon`. That the worker
throws wakes away at the end of a round is modelled, that one may then be missed is
`Daemon`'s subject. The field `FetchAny` is set for a target that lists no versions
and is read nowhere (`pkg/imagesync/worker.go:160`), so such a target is never
fetched and unsolved in every pass; the model keeps this.

`Device` is the abstract specification: a device fetches only what is listed and
offered, loses nothing, and calls itself settled only when every target has its
first version, or any image where it names none and takes any; a target that names
none and takes none asks for nothing. `ImageSync` implements it, with `settled` when
the worker sleeps with nothing unsolved and no pull of the pass has failed
unnoticed, and `coming` for the images under a registry's name, which may be tagged.

### Service

`EndpointsInOrder` says of the lists what the code does: V2 before V1, mirrors
before the registry and in the order of the user, HTTPS before HTTP for the registry
itself. The comment at `pkg/registry/service.go:166-168` promises HTTPS over plain
HTTP without an exception for mirrors; the code puts them in as they are given, so a
plain mirror may precede an encrypted one and the registry. The run has such a list
of mirrors.

`Service` is what is done with the endpoints: `Auth` tries them one after another,
with an answer of any kind from each, and `Search` finds out how a V1 index may be
spoken to. `confirmedV2` and `asked` are history.

### Session

`Session` has the fourteen calls of a V1 session. A call is one request or, where it
is redirected or asks several registries, several; each request is made, recorded in
`modReq`, sent and answered (`Hops`), and each response has a body that is open
until it is read or closed. The transport's lines are separate steps, so a cancel
falls between any two of them. One that comes after the copy of a request was
recorded and before the base transport has it (`pkg/registry/session.go:113-132`)
deletes the record and stops nothing: the request goes on, and no later cancel finds
it (`lost`). Neither Go's client, whose `CheckRedirect`
(`pkg/registry/registry.go:140-155`) replaces the limit of ten, nor the loop at
`pkg/registry/session.go:653` counts redirections. `MaxRequests` is a bound of the
model: the last request of a caller is answered with something else. A call is
described by the statuses it accepts, whether it decodes the body, and what it does
with redirections (`Outcome`). A token is kept whether it was asked for or not
(`pkg/registry/session.go:137`), though the comment at line 69 says that it is
ignored when it was not asked for.

### Pull

`Pull` is one layer: `GetRemoteImageJSON` for the size, `GetRemoteImageLayer`, and
the reader behind it, which is resumable when the registry accepts ranges and the
size is known. It retries one time less than
`pkg/httputils/resumablerequestreader.go:23` says: the `MaxFail`-th failure is the
error (`GivesUpInTime`). Before the first byte the resumable reader does not look at
the status of a second answer, so a page that says "busy" is delivered as the layer;
`paged` is the history of this.

### BytesPipe and Stream

`BytesPipe` has a step for each iteration of the loops of `Write` and `Read` with
the mutex held; waiting on the condition gives it away, and `Broadcast` makes all
who sleep try to get it again. `Stream` is its abstract specification: what each
`Write` was given goes into a queue from its front, in parts perhaps and between
those of other writers, until the close. `BytesPipe` implements it, with the unread
bytes of all buffers as the queue and a writer's remaining slice as what it has yet
to put in.

### Composition

`MCClient` puts `Service`, `Session`, `Pull` and `BytesPipe` side by side: one of
them moves in a behaviour while the others rest, since they share no state.
`ImageSync` uses `Endpoints` directly, as the code does. `MCDaemon`,
`MCContainerSync`, `MCImageSync` and `MCClient` define the instances; modules whose
names end in `Proofs` extend the specifications and hold the theorems.

## The runs

| Run | Checks | Shows |
|---|---|---|
| `daemon_safety` | `TypeOK`, `PassesExclude`, `NoLostWakeup`, `RetryPending`, `ConfigStable` | every fault at once, two repositories, a pull prefix, one edit, a signal |
| `daemon_live` | `WorkersCatchUp`, `SignalEnds`, deadlock | without a pull prefix the daemon neither blocks nor forgets |
| `daemon_deadlock` | `WakeDelivered` | violated: see below |
| `daemon_timer` | `TimerPresent` | violated: see below |
| `container_passes` | `TypeOK`, `PassReconciles`, `NoOutage`, `NoDowngrade`, `DiesOutOnlyCrossed` | any call may fail in any pass; a pass in which none does reconciles. Daemons that replace each other die out only if one is killed with a request under way |
| `container_converges` | `Convergence`, `OneAtATime` | exits, arrivals, edits and a crash between any two calls |
| `container_best` | `SelectsBest` | violated: see below |
| `container_events` | `EventsNotLost` | violated: see below |
| `self_dies_out` | `AlwaysADaemon` | violated: see below |
| `self_order` | `NewDeletesOld` | violated: see below |
| `images` | `ImageTypeOK`, `PassFetchesBest`, `BestArrives`, `ImplementsDevice` | an undisturbed pass fetches the best there is; the best arrives in the end, and the worker implements `Device`, but for pulls that fail unnoticed |
| `client` | of `Service`: `ServiceTypeOK`, `NoV1AfterV2`, `PlainOnlyInsecure`, `EndpointsInOrder` | every host, with and without mirrors, insecure registries and a missing key |
| | of `Session`: `SessionTypeOK`, `Cancellable`, `NothingKept`, `CallsEnd` | two callers, redirected, cancelled and failed in every order |
| | of `Pull`: `PullTypeOK`, `LayerInOrder`, `GivesUpInTime`, `PullEnds` | drops at every byte, requests that fail, wrong statuses |
| | of `BytesPipe`: `PipeTypeOK`, `BufLenExact`, `Bounded`, `NoSleepAfterClose`, `PipeIsStream`, `WritesReturn` | two writers and a reader of a pipe at its limit, closed at any moment |

### Bounds

`MaxEdits = 1` gives the configuration read at the start and a later one, of any
form, at any moment: enough for a stale pass, a wake for the new configuration and
the flush of that wake. `MaxRepos = 2` lets the image worker flush and send twice in
one pass. One signal suffices, since Main takes one.

`MaxIds = 3` holds two containers of a target and the replacement of both; numbers
are used again once nothing refers to them, so there is no bound on the number of
passes. `container_passes` has two kinds of initial states (`PassSpec`): a daemon
outside that manages an application, any of whose calls may fail in any pass, and a
daemon in a container that is to replace itself and its successors, whose stops and
creations may fail (`PassFaults`). With all the faults for both, the daemons in
containers have more states than the run can visit in its time; a stop that fails is
what leaves both daemons alive, and the theorem has no such limit. The run has 1.8
million states, `container_converges` 0.13 million. `MaxExits`, `MaxChanges` and
`MaxCrashes` bound what the environment does; with one of each the change falls
before, during (where the run allows it) or after any pass. The configurations ask
for two versions in either order, for any version, for restarted containers and for
nothing; the initial containers are none, one, or two of one target in every mixture
of listed and unlisted tags, running and stopped.

`images` has two targets, two versions, and six configurations: the best version
first or last among the repositories, an insecure registry with a self-signed
certificate that is declared so or not, a private one, Docker Hub alone, a URL that
cannot be parsed, a target that settles for any version, a negative `RecheckPeriod`,
and no repositories. `MaxChanges = 2` lets a registry gain and lose a tag within a
pass, or change once and the user once; `MaxFaults = 1` fails any one call, or a
pull unnoticed. Passes are not bounded.

`client` has the names of Docker Hub, an insecure registry with a port, one that is
insecure by its network and whose certificate lacks its key, a mirror with all its
certificates, and four sets of options; of two mirrors the first is plain. In
`Session` one caller makes up to two requests and the other one: enough for one to
come in between two steps, or two requests, of the other. Of the calls, the run
takes one that asks several registries, one that forgets a body and one that follows
redirections itself. A layer of 4 bytes with 3 drops and `MaxFail = 3` lets the last
failure come at any offset; the code says 5, which changes the number of steps only.
The pipe's capacities go 1, 2, 3 so that the cap on doubling applies; `Threshold =
3` is reached by one write, and 7 bytes let both writers wait at the limit at once.

### Fairness

`Daemon` assumes strong fairness of each goroutine, of the image worker's receive of
a wake and of the container worker's. The Go scheduler runs every goroutine; a mutex
in starvation mode is handed to its oldest waiter, so a goroutine that waits for a
lock that is freed again and again gets it; a select chooses at random among the
ready cases, so a wake that waits is not passed over for ever. All this rests on
every call to Docker and to a registry returning. `ContainerSync` assumes weak
fairness of each daemon's pass, and `ImageSync` of the worker's pass (`Pass`, with
the wake of the select in it), for the same reason. `Session` assumes that each
caller's next step is taken: every request is answered or fails and every body is
read, for each caller by itself. `Pull` assumes that its one reader reads on.
`BytesPipe` assumes strong fairness of each goroutine: the mutex is free and taken
in turns, and as above it is not withheld from one goroutine for ever; readers call
`Read` again. The environment is never obliged to do anything.

What else a liveness property needs is a hypothesis of it, or a bound of the model
that is named here. Fairness does not end redirections, so `CallsEnd` is about a
caller that from some time on is not redirected. Nor does it bring a writer in that
is woken at the limit and finds the pipe filled again by others, for ever:
`sync.Cond` keeps no queue of those it woke. `WritesReturn` is about behaviours in
which from some time on no `Write` begins. `PullEnds` needs that connections stop
dropping (`MaxDrops`), since the reader counts requests that fail and not
connections that drop; `Convergence` and `BestArrives` need that failures and
changes stop (`MaxFaults`, `MaxChanges`, `MaxExits`, `MaxCrashes`). In TLC's
instances `MaxRequests` and `MaxBytes` make the two hypotheses true of every
behaviour: a run shows the properties for what goes on within these bounds.

`Convergence` is checked with `QuietPasses`: Docker changes by itself between
passes, or before a pass has listed it, but not behind its back. Without that the
flush of events (`EventsNotLost`) may leave the worker asleep in an old state, which
is the subject of a run of its own.

`BestArrives` excludes three states by name: a negative `RecheckPeriod`, which asks
for no retries; the sleep after a pass that could not list the images, which has
reset `UnsolvedReqs` before it asked Docker, so that no timer runs until an outside
event; and the sleep after a pull of the first version that failed unnoticed
(`unnoticed`), which has the same effect. `ImplementsDevice` excludes the last by
what it calls settled. `DiesOutOnlyCrossed` excludes a daemon killed with a request
under way (`crossed`), and `Cancellable` a cancel that is lost (`lost`) and a
request that is passed on as it is. `WritesReturn` is about writes of at most
`Threshold` bytes (the instance's `Sizes`): a longer one fills the pipe, waits, and
has told no reader of what it put in (`pkg/ioutils/bytespipe.go:88-89`), so that a
reader that went to sleep on the empty pipe and the writer wait for each other. No
text of the repository says that a reader may sleep then, and the pipe has no caller
here. `LayerInOrder` excludes `paged`, and `NothingKept` a session that always sets
basic authentication and the response that `PushImageLayerRegistry` forgets when it
cannot close the layer (`pkg/registry/session.go:576`).

### What the violations show

* **`WakeDelivered`** (`pkg/imagesync/worker.go:298`). The image worker sends "a
  wake" while `processOnce` holds both locks. If the container worker has begun a
  pass it waits for `ConfigLock` at `pkg/containersync/worker.go:157` and never
  receives. Both are stuck, and Main with them at its next reload. `daemon_live`
  therefore has no pull prefix: then nothing is tagged and nothing is sent.
* **`TimerPresent`** (`pkg/imagesync/worker.go:331`). Main's `RecheckConfig` clears
  the pointer without the lock, between the creation of the timer and its use: the
  select reads a field of nil.
* **`SelectsBest`** (`pkg/containersync/worker.go:274`). The last suitable tag in
  Docker's list is selected, not the best. A later pass may repair it
  (`Convergence`), at the price of another replacement.
* **`EventsNotLost`** (`pkg/containersync/worker.go:427`). Events that arrive during
  a pass are flushed, also when they tell of an image that the pass did not see.
* **`NewDeletesOld`** (`pkg/containersync/worker.go:229`). The old daemon is woken
  by the events of its own replacement. It lists both containers, scores the one it
  met first as `latest` whatever its tag, so it may keep its own container and stop
  the better one. Docker lists the newest container first, which is the order in
  which this happens.
* **`AlwaysADaemon`** (`pkg/containersync/worker.go:373`). The same two daemons may
  each ask Docker to stop the other. If both list the newest container first, both
  keep the older one, find the better image for it once more and so delete both;
  each passes over itself (lines 313-319) and stops the other one. The first to be
  stopped dies while its request is with Docker, which carries it out. No daemon is
  left, and nothing in this program starts one. `DiesOutOnlyCrossed` is what
  remains: without such a request one daemon lives on, whatever fails.

## What is proved

TLAPS checks the following for every value of the constants that satisfies the
modules' assumptions.

`DaemonProofs`: `Spec => []TypeOK`, `[]PassesExclude`, `[]NoLostWakeup`,
`[]RetryPending` and `ConfigStable`. None of the last four is inductive. The
invariant `Inv` adds to the types: which locks a goroutine holds at each point of
its code (`LockInv`, which yields exclusion and stability), that the repository
counter is positive inside the loop (`RepoInv`), that a worker past its plan has
seen the configuration it can no longer lose without Main announcing another
(`SeenInv`), and where an unsolved requirement is on its way to an armed timer
(`RetryInv`). Each is shown to be kept by each group of actions; the theorems follow
by temporal logic.

`ContainerSyncProofs`: `Spec => []TypeOK`, which includes that what a pass stops and
removes is among what it has listed; and `DaemonSurvives`: if daemons know their
containers (`Reflected`) and may not delete themselves, `[]DiesOutOnlyCrossed`, for
every number of daemons and every set of faults. Its invariant `SurvivalInv` adds
that a daemon at a stop or a removal aims at a container (`Aimed`), which is not its
own (`NotItself`), and that, unless the daemon outside lives or one was killed with
a request under way, there are no orphans and someone is alive (`SomeoneLives`).
`orphans = {}` is what makes it inductive: only a live daemon can then have another
stopped, and it lives on, since it is not its own victim.

`ContainerPassProofs` is about a daemon that manages other containers than its own
(`SelfTarget = NoTarget`), for every number of containers, every configuration,
every order of Docker's lists and every set of faults: `[]PassReconciles`,
`[]NoOutage` and `[]NoDowngrade`; and `OneAtATime` if the listing and the removals
of the daemon outside do not fail (`~MayFail(0, "list")`, `~MayFail(0, "remove")`).
What the plan computes is shown first: the container kept is a candidate and the
only one of its target that is not deleted (`NotDeleted`), one container at most is
created for a target and it is suitable (`CreateFacts`), a target that ran keeps a
container that runs or is started, or gets one (`StaysUp`), and a single container
is not replaced by a worse one (`NoWorse`). The maximum of a set of positions exists
because the least of its bounds does. The invariant `PassInv` then follows the plan
through the calls: `Staying`, the containers that are neither to be deleted nor
being removed, are at most one for a target, and none for a target that gets another
(`OneInv`); in a clean pass they run or will be started unless they may be restarted
(`RunInv`), leave no target down that ran (`UpInv`) and are no worse (`ScoreInv`).
At the end of a clean pass everything present is staying. For `OneAtATime` the
hypotheses are needed: TLC finds a second running container when the list fails,
since the pass then goes on with an empty one, when a removal fails, since the
replacement is started all the same, and for a daemon that starts its own
replacement, where this is the intention. For the others, `SelfTarget = NoTarget`
says that no other daemon acts on the same containers: `clean` is about failures and
the outside, not about a second daemon.

`ImageSyncProofs`: `Spec => []ImageTypeOK` and the refinement
`WorkerImplementsDevice`: `Spec => ImplementsDevice`, for every set of hosts,
targets, versions and repositories. That the worker settles only when it may is not
visible from one step: `UnsolvedReqs` is set target by target and round by round.
The invariant `ImageInv` says that targets the pass does not fetch already have
their first version (`PlanOK`), that what is fetched are listed versions, the first
of them first, that attempts are among those on offer (`RoundOK`), and that the
targets this round is done with have their first version unless something is
unsolved (`SolvedOK`). Each action is then shown to be a step of `Device` or a
stutter. `NeededTags` starts at the first version because that version is missing;
the least listed position exists by well-founded induction on the numbers.

`PassGetsBest`, in the same module, is `[]PassFetchesBest`: after a pass without a
failure or a change every target has a version as good as the best that a repository
listed and Docker could pull. The invariant `BestInv` says what is not asked for is
no better than what is there (`ShortInv`), what a repository lists is on offer once
it was asked (`AskedInv`), an attempt that was made and did not end the pull could
not succeed, and the one that is being tagged is no later than those that are left
(`TriedInv`), and the targets that a round is done with have the best that the
repositories so far could give (`DoneInv`).

`ServiceProofs`: `[]ServiceTypeOK`, `[]NoV1AfterV2`, `[]PlainOnlyInsecure` and
`[]EndpointsInOrder`, for every set of hosts, certificates, mirrors and insecure
registries. The lists come first: a list of one version has its mirrors in front, in
the order of the options whatever their schemes, and plain HTTP only behind HTTPS
and for an insecure registry (`Ordered`); two of them joined are in the order of
preference (`Sorted`), and stay so when the mirrors are left out, by induction along
the list. The invariant `ServiceInv` says that the endpoints that are left are the
end of that list and those before them were asked (`LeftInv`), so that while a V2
endpoint is tried no V1 one was (`NewestInv`).

`SessionProofs`: `[]SessionTypeOK`, in which a caller without a call has no request
under way, `[]Cancellable`, but for lost cancels, and `[]NothingKept`, for every
number of callers and requests. The last two need each other and `OneBody`: a body
that is open belongs to the request its caller is at, unless the call asks several
registries.

`PullProofs`: `[]PullTypeOK`, `GivesUpInTime` and `[]LayerInOrder`, for every size
and limit and any number of drops. `GivesUpInTime` is about steps and in both
directions: a request that fails ends the pull with an error if it is the
`MaxFail`-th, and goes on otherwise. The invariant states the order byte by byte, of
what was delivered and of what the open body still holds (`InOrder`), and that every
request without a response is counted but for the last (`FailuresOK`).

`BytesPipeProofs`: `[]PipeTypeOK`, `[]Bounded`, `[]NoSleepAfterClose`,
`[]BufLenExact` and the refinement `PipeImplementsStream`: `PipeSpec =>
PipeIsStream`, for every number of goroutines, all capacities and limits. The bound
is about the sum over all buffers. Instead of a recursive sum the invariant asserts
that partial sums exist (`Sums`) whose last is `bufLen`, and that without the last
buffer the pipe is below its limit; `Write`, `Grow` and `Read` each give the new
partial sums. Nobody sleeps on a closed pipe because whoever is about to sleep holds
the mutex and has seen it open (`PlaceOK`). The bytes of all buffers are treated
like their number: partial concatenations exist for them (`Joins`), one for the
content (`JoinsContents`) and no two different ones (`JoinsSame`), and each
operation gives those of the content after it. So a `Write` appends to the content
(`WriteAppends`), which is a step `Put` of `Stream` of as many bytes as fitted, from
the front of what the writer has left, unless nothing fitted; a `Write` that begins
is its `Offer`; a `Read` moves its front to `got` (`ReadTakes`), which is `Take`;
`Grow` leaves it alone; and a reader that is told of the end has found `bufLen`, and
with it the content, empty.

The modules' assumptions are the named `ASSUME`s: bounds are natural numbers, sets
of tags are finite, configurations are well-formed records, capacities are positive.
TLC evaluates them in the runs.

## Only model-checked

Liveness (`WorkersCatchUp`, `SignalEnds`, `Convergence`, `BestArrives`, `CallsEnd`,
`PullEnds`, `WritesReturn`) needs fairness, which this prover does not handle. Every
other property of a passing run is the statement of a theorem. `PassReconciles`,
`NoOutage`, `NoDowngrade` and `OneAtATime` are proved, and run, for a daemon outside
of the containers it manages; for daemons that manage each other the theorem is
`DaemonSurvives`, and `container_passes` checks their passes too.

## Not modelled

* Images the user removes while a pass runs. Image names are well-formed.
* Names, URLs and certificates as text; `pkg/distribution`'s dialer and tokens, of
  which only the outcome is modelled.
* A daemon that dies while Docker creates or starts a container for it: these two
  calls are one step each. Stops and removals, which take their time, outlive their
  daemon.
* HTTP redirects of the requests that `Service` makes, and errors of loading
  certificates or parsing a mirror's URL, with which a lookup of endpoints fails as
  a whole. Where Go's client follows a redirection by itself in `Session`, the new
  request goes through the transport as any other; what Go makes of methods, bodies
  and cookies on the way is left out.
* HTTP that does not state its length: a body that ends early is then not an error,
  and the resumable reader would not know.
* The data race on `modReq` in `pkg/registry/session.go:134`: the deletion without
  the lock is one step here, whereas Go may end the process.
* Times: back-offs, time-outs of stop hooks, the waits of the resumable reader.
* Tar checksums, JSON logs, random names, the API types, the command line: data or
  plumbing without interleavings. The other helpers of `pkg/ioutils` and
  `pkg/httputils` keep no state between goroutines or have no caller.
* Weak memory. Unlocked accesses are interleaved, not torn or reordered.

## Plan

1. `Daemon`, `ContainerSync`: modelled, checked, first theorems proved.
2. `Endpoints`, `ImageSync` with `Device`: modelled, checked, the refinement proved.
3. `Service`, `Session`, `Pull`, `BytesPipe` with `Stream`: modelled, checked, all
   safety and the refinement of `Stream` proved.
4. The passes of both workers: what they compute and leave behind is proved.
5. Open: `Device` for both workers together, with the container that runs as part of
   the promise; the passes of daemons that manage each other.
