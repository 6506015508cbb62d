------------------------- MODULE ContainerPassProofs -------------------------
(***************************************************************************)
(* Theorems about the passes of one daemon that manages other containers   *)
(* than its own (SelfTarget = NoTarget), for every number of containers,   *)
(* every configuration and every order of Docker's lists: what a pass      *)
(* without a failure leaves behind, and that no pass runs two containers   *)
(* of a target at once.                                                    *)
(***************************************************************************)
EXTENDS ContainerSyncProofs, FiniteSetTheorems, SequenceTheorems, WellFoundedInduction

USE ContainerSyncAssumption

\* There is only the daemon that runs outside of any container.
Sole == pc[0] # "dead" /\ \A v \in Ids : pc[v] = "dead"

\* What was listed was there, and what was removed is gone.
Trusted == clean[0] \/ ~(MayFail(0, "list") \/ MayFail(0, "remove"))

\* The pass carries its plan out, or has done so.
Firm ==
    \/ pc[0] \in {"deleting", "stopping", "removing", "creating", "starting"} /\ Trusted
    \/ pc[0] = "flush" /\ clean[0]

\* Containers that are to stay.
Staying ==
    Present \ (toDelete[0] \cup IF pc[0] \in Deleting THEN {victim[0]} ELSE {})

\* The list tells what Docker holds, but for what it removes meanwhile.
ListedInv ==
    pc[0] = "images" /\ Trusted =>
        /\ Present \subseteq DOMAIN listed[0]
        /\ clean[0] => DOMAIN listed[0] = Present
        /\ \A id \in Present : /\ listed[0][id].target = ctrs[id].target
                               /\ clean[0] => listed[0][id] = ctrs[id]

\* One part of the plan is done after the other.
PhaseInv ==
    /\ pc[0] \in {"creating", "starting"} => toDelete[0] = {}
    /\ pc[0] = "starting" => toCreate[0] = {}
    /\ pc[0] = "flush" /\ clean[0] =>
          toDelete[0] = {} /\ toCreate[0] = {} /\ toStart[0] = {}

\* What stays and what will be created is wanted, and there is one for a target.
OneInv ==
    Firm =>
        /\ \A id \in Staying : ctrs[id].target \in DOMAIN config
        /\ \A id, other \in Staying : ctrs[id].target = ctrs[other].target => id = other
        /\ \A id \in Staying, p \in toCreate[0] : p[1] # ctrs[id].target
        /\ \A p \in toCreate[0] : p[1] \in DOMAIN config
        /\ \A p, q \in toCreate[0] : p[1] = q[1] => p = q

\* What stays runs, will be started, or may be restarted.
RunInv ==
    Firm /\ clean[0] =>
        \A id \in Staying :
            \/ id \in toStart[0]
            \/ ctrs[id].state = "running"
            \/ config[ctrs[id].target].restartExited

\* The listed containers of a target.
Had(t) == {id \in DOMAIN listed[0] : listed[0][id].target = t}
Ran(t) == {id \in Had(t) : listed[0][id].state = "running"}

\* A target that ran keeps a container that runs or will, or gets one.
UpInv ==
    Firm /\ clean[0] =>
        \A t \in DOMAIN config : Ran(t) # {} =>
            \/ \E p \in toCreate[0] : p[1] = t
            \/ \E id \in Staying : /\ ctrs[id].target = t
                                   /\ ctrs[id].state = "running" \/ id \in toStart[0]

\* A target that had one container gets none of a worse version.
ScoreInv ==
    Firm /\ clean[0] =>
        \A t \in DOMAIN config : \A old \in Ran(t) : Had(t) = {old} =>
            /\ \A p \in toCreate[0] :
                  p[1] = t => Score(t, p[2]) <= Score(t, listed[0][old].tag)
            /\ \A id \in Staying :
                  ctrs[id].target = t => Score(t, ctrs[id].tag) <= Score(t, listed[0][old].tag)

PassInv == Sole /\ ListedInv /\ PhaseInv /\ OneInv /\ RunInv /\ UpInv /\ ScoreInv

-----------------------------------------------------------------------------

\* The least element of a set of positions.
LEMMA LeastPosition ==
    ASSUME NEW S \in SUBSET Nat, S # {}
    PROVE  Min(S) \in S /\ \A y \in S : Min(S) <= y
<1> DEFINE Less == OpToRel(<, Nat)
<1>1. Less = {p \in Nat \X Nat : p[1] < p[2]}
  BY Zenon DEF OpToRel
<1>2. PICK x \in S : \A y \in S : <<y, x>> \notin Less
  BY Zenon, NatLessThanWellFounded, WFMin
<1> HIDE DEF Less
<1>3. ASSUME NEW y \in S PROVE x <= y
  <2>1. y \in Nat /\ x \in Nat
    OBVIOUS
  <2>2. ~(y < x)
    BY <1>1, <1>2, <2>1
  <2>. QED
    BY <2>1, <2>2
<1>. QED
  BY <1>3 DEF Min

\* The greatest: the least bound of a bounded set is in it.
LEMMA GreatestPosition ==
    ASSUME NEW n \in Nat, NEW S \in SUBSET (1 .. n), S # {}
    PROVE  Max(S) \in S /\ \A y \in S : y <= Max(S)
<1> DEFINE Bounds == {u \in Nat : \A x \in S : x <= u}
           b == Min(Bounds)
<1>1. n \in Bounds
  OBVIOUS
<1>2. b \in Bounds /\ \A u \in Bounds : b <= u
  BY <1>1, LeastPosition
<1> HIDE DEF b
<1>3. b \in S
  <2> SUFFICES ASSUME b \notin S PROVE FALSE
    OBVIOUS
  <2>1. PICK y \in S : TRUE
    OBVIOUS
  <2>2. b \in Nat /\ y \in 1 .. n /\ y <= b
    BY <1>2
  <2>3. b - 1 \in Nat
    BY <2>2
  <2>4. ASSUME NEW x \in S PROVE x <= b - 1
    <3>1. x <= b /\ x # b /\ x \in 1 .. n
      BY <1>2
    <3>. QED
      BY <2>2, <3>1
  <2>5. b <= b - 1
    BY <1>2, <2>3, <2>4
  <2>. QED
    BY <2>2, <2>5
<1>4. \A y \in S : b >= y
  BY <1>2
<1>5. \E x \in S : \A y \in S : x >= y
  BY <1>3, <1>4
<1>. QED
  BY <1>5 DEF Max

\* A score is a number, whatever the versions.
LEMMA ScoreIsInt ==
    ASSUME NEW target, target.versions \in Seq(Tags), NEW tag
    PROVE  ContainerVersionScore(target, tag) \in Int
<1> DEFINE at == {i \in DOMAIN target.versions : target.versions[i] = tag}
<1>1. CASE at = {}
  BY <1>1 DEF ContainerVersionScore, Unlisted
<1>2. CASE at # {}
  <2>1. DOMAIN target.versions = 1 .. Len(target.versions) /\ Len(target.versions) \in Nat
    BY LenProperties
  <2>0. at \in SUBSET Nat
    BY <2>1
  <2>2. PICK m \in at : \A j \in at : m <= j
    <3> HIDE DEF at
    <3>. QED
      BY <1>2, <2>0, LeastPosition
  <2>3. \A j \in 1 .. m - 1 : target.versions[j] # tag
    BY <2>1, <2>2
  <2>4. \E i \in DOMAIN target.versions :
           /\ target.versions[i] = tag
           /\ \A j \in 1 .. i - 1 : target.versions[j] # tag
    BY <2>2, <2>3
  <2>. QED
    BY <2>1, <2>4 DEF ContainerVersionScore
<1>. QED
  BY <1>1, <1>2

\* A list of what was seen has each container once.
LEMMA ListFacts ==
    ASSUME NEW S \in SUBSET Ids, NEW list \in SetToSeqs(S)
    PROVE  /\ list \in Seq(S)
           /\ DOMAIN list = 1 .. Len(list) /\ Len(list) \in Nat
           /\ \A i \in DOMAIN list : list[i] \in S
           /\ \A id \in S : \E i \in DOMAIN list : list[i] = id
<1> DEFINE D == 1 .. Cardinality(S)
<1>1. IsFiniteSet(S) /\ Cardinality(S) \in Nat
  <2>1. IsFiniteSet(Ids)
    BY FS_Interval DEF Ids, ContainerSyncAssumption
  <2>2. IsFiniteSet(S)
    BY <2>1, FS_Subset
  <2>. QED
    BY <2>2, FS_CardinalityType
<1>2. list \in [D -> S] /\ \A i, j \in D : i # j => list[i] # list[j]
  BY Zenon DEF SetToSeqs
<1>3. list \in Injection(D, S)
  BY <1>2 DEF Injection, IsInjective
<1>4. IsFiniteSet(D) /\ Cardinality(D) = Cardinality(S)
  BY <1>1, FS_Interval
<1>5. list \in Surjection(D, S)
  BY <1>1, <1>3, <1>4, FS_Injection
<1>6. \A id \in S : \E i \in D : list[i] = id
  BY <1>5 DEF Surjection
<1>7. list \in Seq(S)
  BY <1>1, <1>2, IsASeq
<1>. QED
  BY <1>2, <1>6, <1>7, LenProperties

\* What a pass plans from: a configuration, what was seen, and its list.
Planned(cfg, seen, list) ==
    /\ cfg \in Configs
    /\ DOMAIN seen \subseteq Ids
    /\ list \in SetToSeqs(DOMAIN seen)

\* The candidates are positions of the list.
LEMMA CandidatesFacts ==
    ASSUME NEW cfg, NEW seen, NEW list, Planned(cfg, seen, list), NEW t
    PROVE  /\ Len(list) \in Nat
           /\ Candidates(cfg, seen, list, t) \in SUBSET (1 .. Len(list))
           /\ \A i \in Candidates(cfg, seen, list, t) :
                 /\ list[i] \in DOMAIN seen
                 /\ list[i] \in Ids /\ list[i] # 0
                 /\ seen[list[i]].target = t
                 /\ seen[list[i]].state = "running" \/ cfg[t].restartExited
           /\ \A id \in DOMAIN seen :
                 seen[id].target = t /\ seen[id].state = "running"
                    => \E i \in Candidates(cfg, seen, list, t) : list[i] = id
<1>1. /\ DOMAIN list = 1 .. Len(list) /\ Len(list) \in Nat
      /\ \A i \in DOMAIN list : list[i] \in DOMAIN seen
      /\ \A id \in DOMAIN seen : \E i \in DOMAIN list : list[i] = id
  BY ListFacts DEF Planned
<1>2. \A id \in DOMAIN seen : id \in Ids /\ id # 0
  BY DEF Planned, Ids
<1>. QED
  BY <1>1, <1>2 DEF Candidates

\* Once all are met, the container kept is one of the candidates, ...
LEMMA KeptIsCandidate ==
    ASSUME NEW target, NEW seen, NEW list, NEW n \in Nat,
           NEW cands \in SUBSET (1 .. n)
    PROVE  /\ cands = {} => KeptAfter(target, seen, list, cands, n) = 0
           /\ cands # {} =>
                 \E j \in cands : KeptAfter(target, seen, list, cands, n) = list[j]
<1> DEFINE met     == {j \in cands : j <= n}
           winners == {j \in met \ {Min(met)} :
                          ContainerVersionScore(target, seen[list[j]].tag)
                             < ContainerVersionScore(target, "latest")}
<1>1. met = cands /\ met \in SUBSET Nat
  <2>1. cands \in SUBSET Nat /\ \A j \in cands : j <= n
    OBVIOUS
  <2>2. met = cands
    BY Zenon, <2>1
  <2>. QED
    BY Zenon, <2>1, <2>2
<1>2. winners \in SUBSET (1 .. n) /\ winners \subseteq met
  OBVIOUS
<1>3. KeptAfter(target, seen, list, cands, n) =
         IF met = {} THEN 0 ELSE IF winners = {} THEN list[Min(met)] ELSE list[Max(winners)]
  BY Zenon DEF KeptAfter
<1> HIDE DEF met, winners
<1>4. met # {} => Min(met) \in met
  BY <1>1, LeastPosition
<1>5. winners # {} => Max(winners) \in winners
  BY <1>2, GreatestPosition
<1>. QED
  BY <1>1, <1>2, <1>3, <1>4, <1>5

\* ... none without a candidate, and a comparison has settled which if there
\* are two.
LEMMA KeptFacts ==
    ASSUME NEW cfg, NEW seen, NEW list, Planned(cfg, seen, list), NEW t \in DOMAIN cfg
    PROVE  LET cands == Candidates(cfg, seen, list, t)
               kept  == Kept(cfg, seen, list)[t]
           IN  /\ cands = {} => kept = 0
               /\ cands # {} => \E j \in cands : kept = list[j]
               /\ \A j, k \in cands : j # k => Compared(cfg, seen, list, kept)
<1> DEFINE cands == Candidates(cfg, seen, list, t)
           n     == Len(list)
           last  == Max(cands)
<1>1. n \in Nat /\ cands \in SUBSET (1 .. n)
  BY CandidatesFacts
<1>2. Kept(cfg, seen, list)[t] = KeptAfter(cfg[t], seen, list, cands, n)
  BY DEF Kept
<1> HIDE DEF cands, n
<1>3. \A j \in cands : j <= n
  BY <1>1
<1>4. /\ cands = {} => KeptAfter(cfg[t], seen, list, cands, n) = 0
      /\ cands # {} => \E j \in cands : KeptAfter(cfg[t], seen, list, cands, n) = list[j]
  BY <1>1, KeptIsCandidate
<1>5. ASSUME NEW j \in cands, NEW k \in cands, j # k
      PROVE  Compared(cfg, seen, list, Kept(cfg, seen, list)[t])
  <2>1. last \in cands /\ \A x \in cands : x <= last
    BY <1>1, GreatestPosition
  <2>2. Min(cands) \in cands /\ \A x \in cands : Min(cands) <= x
    <3>1. cands \in SUBSET Nat /\ cands # {}
      BY <1>1
    <3>. QED
      BY <3>1, LeastPosition
  <2>3. last # Min(cands)
    <3> HIDE DEF last
    <3>1. j \in Int /\ k \in Int
      BY <1>1
    <3>2. j <= last /\ k <= last /\ Min(cands) <= j /\ Min(cands) <= k
      BY <2>1, <2>2
    <3>3. last \in Int
      BY <1>1, <2>1
    <3>. QED
      BY <1>5, <3>1, <3>2, <3>3
  <2>4. {x \in cands : x <= last} = {x \in cands : x <= n}
    BY <1>3, <2>1
  <2>5. KeptAfter(cfg[t], seen, list, cands, last) = KeptAfter(cfg[t], seen, list, cands, n)
    BY Zenon, <2>4 DEF KeptAfter
  <2> HIDE DEF last
  <2>. QED
    BY Zenon, <1>2, <2>1, <2>3, <2>5 DEF Compared, cands
<1>. QED
  BY Zenon, <1>2, <1>4, <1>5 DEF cands

\* What a plan does not delete was kept for its target, which gets no other.
LEMMA NotDeleted ==
    ASSUME NEW cfg, NEW seen, NEW list, NEW tags, Planned(cfg, seen, list),
           NEW id \in DOMAIN seen \ Plan(cfg, seen, list, tags).delete
    PROVE  LET t == seen[id].target
           IN  /\ t \in DOMAIN cfg
               /\ id = Kept(cfg, seen, list)[t]
               /\ seen[id].state = "running" \/ cfg[t].restartExited
               /\ \A p \in Plan(cfg, seen, list, tags).create : p[1] # t
<1>1. PICK t \in DOMAIN cfg : /\ id = Kept(cfg, seen, list)[t]
                              /\ \A p \in Plan(cfg, seen, list, tags).create : p[1] # t
  BY DEF Plan
<1>2. id # 0
  BY DEF Planned, Ids
<1> DEFINE cands == Candidates(cfg, seen, list, t)
<1>3. PICK j \in cands : id = list[j]
  BY <1>1, <1>2, KeptFacts
<1>4. seen[id].target = t /\ (seen[id].state = "running" \/ cfg[t].restartExited)
  BY <1>3, CandidatesFacts
<1>. QED
  BY <1>1, <1>4

\* The image selected is suitable, and there is one at most.
LEMMA SelectedFacts ==
    ASSUME NEW target, NEW seen, NEW kept, NEW tags \in Seq(Tags),
           NEW tag \in Selected(target, seen, kept, tags)
    PROVE  /\ Suitable(target, seen, kept, tag)
           /\ \A other \in Selected(target, seen, kept, tags) : other = tag
<1> DEFINE found == {i \in DOMAIN tags : Suitable(target, seen, kept, tags[i])}
<1>1. found \in SUBSET (1 .. Len(tags)) /\ Len(tags) \in Nat
  BY LenProperties
<1>2. found # {} /\ Selected(target, seen, kept, tags) = {tags[Max(found)]}
  BY Zenon DEF Selected
<1>3. \A i \in found : Suitable(target, seen, kept, tags[i])
  OBVIOUS
<1> HIDE DEF found
<1>4. Max(found) \in found
  BY <1>1, <1>2, GreatestPosition
<1>. QED
  BY Zenon, <1>2, <1>3, <1>4

\* A plan creates one container at most for a target, of a suitable tag.
LEMMA CreateFacts ==
    ASSUME NEW cfg \in Configs, NEW seen, NEW list, NEW tags \in [Targets -> Seq(Tags)],
           NEW p \in Plan(cfg, seen, list, tags).create
    PROVE  LET t == p[1]
           IN  /\ t \in DOMAIN cfg
               /\ \A q \in Plan(cfg, seen, list, tags).create : q[1] = t => q = p
               /\ Suitable(cfg[t], seen, Kept(cfg, seen, list)[t], p[2])
<1> DEFINE kept == Kept(cfg, seen, list)
           new  == {q \in (DOMAIN cfg) \X Tags :
                       q[2] \in Selected(cfg[q[1]], seen, kept[q[1]], tags[q[1]])}
<1>1. Plan(cfg, seen, list, tags).create = new
  BY DEF Plan
<1>2. /\ p[1] \in DOMAIN cfg /\ p = <<p[1], p[2]>>
      /\ p[2] \in Selected(cfg[p[1]], seen, kept[p[1]], tags[p[1]])
  BY <1>1
<1>3. tags[p[1]] \in Seq(Tags)
  BY <1>2
<1>4. /\ Suitable(cfg[p[1]], seen, kept[p[1]], p[2])
      /\ \A other \in Selected(cfg[p[1]], seen, kept[p[1]], tags[p[1]]) : other = p[2]
  BY <1>2, <1>3, SelectedFacts
<1>5. ASSUME NEW q \in new, q[1] = p[1] PROVE q = p
  <2>1. q = <<q[1], q[2]>> /\ q[2] \in Selected(cfg[p[1]], seen, kept[p[1]], tags[p[1]])
    BY <1>5
  <2>2. q[2] = p[2]
    BY <1>4, <2>1
  <2>. QED
    BY <1>2, <1>5, <2>1, <2>2
<1>. QED
  BY <1>1, <1>2, <1>4, <1>5

\* A target that ran keeps a container that runs or is started, or gets one.
LEMMA StaysUp ==
    ASSUME NEW cfg, NEW seen, NEW list, NEW tags, Planned(cfg, seen, list),
           NEW t \in DOMAIN cfg, NEW ran \in DOMAIN seen,
           seen[ran].target = t, seen[ran].state = "running",
           \A p \in Plan(cfg, seen, list, tags).create : p[1] # t
    PROVE  \E id \in DOMAIN seen \ Plan(cfg, seen, list, tags).delete :
              /\ seen[id].target = t
              /\ seen[id].state = "running" \/ id \in Plan(cfg, seen, list, tags).start
<1> DEFINE cands == Candidates(cfg, seen, list, t)
           kept  == Kept(cfg, seen, list)[t]
<1>1. PICK i \in cands : list[i] = ran
  BY CandidatesFacts
<1>2. PICK j \in cands : kept = list[j]
  BY <1>1, KeptFacts
<1>3. kept \in DOMAIN seen /\ seen[kept].target = t
  BY <1>2, CandidatesFacts
<1>4. kept \notin Plan(cfg, seen, list, tags).delete
  BY DEF Plan
<1>5. CASE i = j
  BY <1>1, <1>2, <1>3, <1>4, <1>5
<1>6. CASE i # j
  <2>1. Compared(cfg, seen, list, kept)
    BY <1>6, KeptFacts
  <2>2. kept \in Plan(cfg, seen, list, tags).start
    BY <1>3, <2>1 DEF Plan
  <2>. QED
    BY <1>3, <1>4, <2>2
<1>. QED
  BY <1>5, <1>6

\* A target that had one container, which ran, is given no worse version.
LEMMA NoWorse ==
    ASSUME NEW cfg, NEW seen, NEW list, NEW tags \in [Targets -> Seq(Tags)],
           Planned(cfg, seen, list), NEW t \in DOMAIN cfg, NEW old \in DOMAIN seen,
           seen[old].target = t, seen[old].state = "running",
           \A id \in DOMAIN seen : seen[id].target = t => id = old,
           NEW p \in Plan(cfg, seen, list, tags).create, p[1] = t
    PROVE  ContainerVersionScore(cfg[t], p[2]) <= ContainerVersionScore(cfg[t], seen[old].tag)
<1> DEFINE cands == Candidates(cfg, seen, list, t)
           kept  == Kept(cfg, seen, list)[t]
<1>1. PICK i \in cands : list[i] = old
  BY CandidatesFacts
<1>2. PICK j \in cands : kept = list[j]
  BY <1>1, KeptFacts
<1>3. kept = old /\ kept # 0
  BY <1>2, CandidatesFacts
<1>4. Suitable(cfg[t], seen, kept, p[2])
  BY CreateFacts DEF Planned
<1>. QED
  BY <1>3, <1>4 DEF Suitable

\* Docker's lists of tags are sequences of tags.
LEMMA TagListType ==
    ASSUME WorldOK, NEW tags \in TagLists PROVE tags \in [Targets -> Seq(Tags)]
<1>1. /\ tags \in [Targets -> UNION {SetToSeqs(images[t]) : t \in Targets}]
  BY DEF TagLists
<1>2. ASSUME NEW t \in Targets PROVE tags[t] \in Seq(Tags)
  <2>1. PICK u \in Targets : tags[t] \in SetToSeqs(images[u])
    BY <1>1
  <2>2. images[u] \subseteq Tags
    BY DEF WorldOK
  <2>3. Cardinality(images[u]) \in Nat
    BY <2>2, FS_Subset, FS_CardinalityType, ConfigAssumption
  <2>4. tags[t] \in [1 .. Cardinality(images[u]) -> images[u]]
    BY Zenon, <2>1 DEF SetToSeqs
  <2>5. tags[t] \in [1 .. Cardinality(images[u]) -> Tags]
    BY <2>2, <2>4
  <2>. QED
    BY <2>3, <2>5, IsASeq
<1>. QED
  BY <1>1, <1>2

-----------------------------------------------------------------------------

\* What PassInv says of a pass says nothing of a worker that does not plan.
LEMMA NoPlan ==
    ASSUME pc[0] \in {"idle", "networks", "listing"} \/ (pc[0] = "flush" /\ ~clean[0])
    PROVE  ListedInv /\ PhaseInv /\ OneInv /\ RunInv /\ UpInv /\ ScoreInv
BY DEF ListedInv, PhaseInv, OneInv, RunInv, UpInv, ScoreInv, Firm

LEMMA NoPlanNext ==
    ASSUME pc'[0] \in {"idle", "networks", "listing"} \/ (pc'[0] = "flush" /\ ~clean'[0])
    PROVE  ListedInv' /\ PhaseInv' /\ OneInv' /\ RunInv' /\ UpInv' /\ ScoreInv'
BY DEF ListedInv, PhaseInv, OneInv, RunInv, UpInv, ScoreInv, Firm

\* The daemon that runs outside of any container begins with a pass.
LEMMA InitPass ==
    ASSUME SelfTarget = NoTarget, Init PROVE PassInv
<1>1. PICK w \in Workers :
         /\ pc = [v \in Workers |-> IF v = w THEN "networks" ELSE "dead"]
         /\ w # 0 => ctrs[w].state = "running" /\ ctrs[w].target = SelfTarget
  BY DEF Init
<1>2. w = 0
  <2> SUFFICES ASSUME w # 0 PROVE FALSE
    OBVIOUS
  <2>1. w \in Ids
    BY DEF Workers, Ids, ContainerSyncAssumption
  <2>2. ctrs[w] \in Ctrs
    BY <2>1, InitType DEF TypeOK, WorldOK
  <2>. QED
    BY <1>1, <2>2 DEF Ctrs, Absent, ContainerSyncAssumption
<1>3. pc[0] = "networks"
  BY <1>1, <1>2
<1>4. Sole
  BY <1>1, <1>2 DEF Sole, Workers, Ids
<1>. QED
  BY <1>3, <1>4, NoPlan DEF PassInv

\* What Docker does to the container that it is asked to stop or remove.
LEMMA CarryOutCtrs ==
    ASSUME WorldOK, NEW request, NEW id \in Ids, NEW next, CarryOut(request, id, next)
    PROVE  /\ \A other \in Ids \ {id} : ctrs'[other] = ctrs[other]
           /\ ctrs'[id].state # "running"
           /\ ctrs'[id].state # "gone" =>
                 ctrs[id].state # "gone" /\ ctrs'[id].target = ctrs[id].target
           /\ request = "stopping" =>
                 (ctrs'[id].state = "gone" <=> ctrs[id].state = "gone")
           /\ request = "removing" => ctrs'[id].state = "gone"
<1>1. DOMAIN ctrs = Ids /\ ctrs[id] \in Ctrs
  BY DEF WorldOK
<1>2. CASE request = "removing" /\ ctrs' = [ctrs EXCEPT ![id] = Absent]
  BY <1>1, <1>2 DEF Absent
<1>3. CASE /\ request = "stopping"
           /\ ctrs' = [ctrs EXCEPT ![id].state = IF @ = "running" THEN "exited" ELSE @]
  <2>1. ctrs' = [ctrs EXCEPT ![id] = [ctrs[id] EXCEPT !.state =
                    IF ctrs[id].state = "running" THEN "exited" ELSE ctrs[id].state]]
    BY <1>1, <1>3
  <2>2. LET new == [ctrs[id] EXCEPT !.state =
                       IF ctrs[id].state = "running" THEN "exited" ELSE ctrs[id].state]
        IN  /\ new.state = IF ctrs[id].state = "running" THEN "exited" ELSE ctrs[id].state
            /\ new.target = ctrs[id].target
    BY <1>1 DEF Ctrs, Absent
  <2>. QED
    BY <1>1, <1>3, <2>1, <2>2
<1>. QED
  BY <1>2, <1>3 DEF CarryOut

\* What the daemon 0 does to Docker leaves its own pass clean.
LEMMA OwnMeddling ==
    ASSUME FlagsOK, clean' = Meddled(0) PROVE clean'[0] = clean[0]
<1>1. 0 \in Workers
  BY DEF Workers, ContainerSyncAssumption
<1>2. clean[0] \in BOOLEAN
  BY Zenon, <1>1 DEF FlagsOK
<1>3. clean'[0] = (clean[0] /\ (0 = 0 \/ ~Behind(0)))
  BY Zenon, <1>1 DEF Meddled
<1>. QED
  BY Zenon, <1>2, <1>3

\* What the outside does in a pass makes it unclean, and adds no container.
LEMMA OutsidePass ==
    ASSUME TypeOK, PassInv, Outside PROVE PassInv'
<1> USE DEF TypeOK, PassInv
<1>0. 0 \in Workers /\ Ids \subseteq Workers
  BY DEF Workers, Ids, ContainerSyncAssumption
<1>1. CASE Restarted
  <2>1. pc' = [pc EXCEPT ![0] = "networks"]
    BY <1>1 DEF Restarted
  <2>2. pc'[0] = "networks"
    BY <1>0, <2>1 DEF ControlOK
  <2>3. Sole'
    BY <1>0, <2>1 DEF Sole, ControlOK, Ids
  <2>. QED
    BY <2>2, <2>3, NoPlanNext
<1>2. CASE Reconfigured
  <2>1. /\ pc' = pc /\ pc[0] \in {"idle", "networks", "flush", "dead"}
        /\ clean'[0] = (clean[0] /\ ~Behind(0))
    BY <1>0, <1>2 DEF Reconfigured, Disturbed
  <2>2. pc[0] = "flush" => ~clean'[0]
    BY <2>1 DEF Behind
  <2>3. Sole'
    BY <2>1 DEF Sole
  <2>4. pc[0] # "dead"
    BY DEF Sole
  <2>. QED
    BY <2>1, <2>2, <2>3, <2>4, NoPlanNext
<1>3. CASE \/ \E id \in Ids : ContainerExits(id)
           \/ \E t \in Targets, tag \in Tags : ImageArrives(t, tag)
           \/ OrphanCarriedOut
  <2>1. /\ config' = config /\ UNCHANGED plans
        /\ clean'[0] = (clean[0] /\ ~Behind(0))
    BY <1>0, <1>3 DEF ContainerExits, ImageArrives, OrphanCarriedOut, Disturbed
  <2>2. /\ pc' = pc
        /\ Present' \subseteq Present
        /\ \A id \in Present' : ctrs'[id].target = ctrs[id].target
    <3>1. CASE \E t \in Targets, tag \in Tags : ImageArrives(t, tag)
      BY <3>1 DEF ImageArrives, Present
    <3>2. CASE \E id \in Ids : ContainerExits(id)
      <4>1. PICK id \in Ids : ctrs[id].state = "running"
                           /\ ctrs' = [ctrs EXCEPT ![id].state = "exited"]
        BY <3>2 DEF ContainerExits
      <4>2. /\ ctrs' = [ctrs EXCEPT ![id] = [ctrs[id] EXCEPT !.state = "exited"]]
        BY <4>1
      <4>3. DOMAIN ctrs = Ids /\ ctrs[id] \in Ctrs
        BY DEF WorldOK
      <4>4. [ctrs[id] EXCEPT !.state = "exited"].target = ctrs[id].target
         /\ [ctrs[id] EXCEPT !.state = "exited"].state = "exited"
        BY <4>3 DEF Ctrs, Absent
      <4>5. \A other \in Ids : /\ ctrs'[other].target = ctrs[other].target
                               /\ ctrs'[other].state = "gone" <=> ctrs[other].state = "gone"
        BY <4>1, <4>2, <4>3, <4>4
      <4>. QED
        BY <3>2, <4>5 DEF ContainerExits, Present
    <3>3. CASE OrphanCarriedOut
      <4>1. PICK r \in orphans : CarryOut(r[1], r[2], pc)
        BY <3>3 DEF OrphanCarriedOut
      <4>2. r[2] \in Ids
        BY DEF ControlOK
      <4>3. pc' = pc
        BY <1>0, <4>1, <4>2 DEF CarryOut, Sole, ControlOK
      <4>. QED
        BY <4>1, <4>2, <4>3, CarryOutCtrs DEF Present
    <3>. QED
      BY <1>3, <3>1, <3>2, <3>3
  <2>3. CASE Behind(0)
    <3>1. ~clean'[0] /\ (Trusted' => Trusted) /\ (Firm' => Firm)
      BY <2>2, <2>1, <2>3 DEF Trusted, Firm
    <3>2. Staying' \subseteq Staying
      BY <2>2, <2>1 DEF Staying, plans
    <3>3. Staying' \subseteq Present'
      BY DEF Staying
    <3>4. Sole'
      BY <2>2 DEF Sole
    <3>5. ListedInv'
      BY <2>2, <2>1, <3>1 DEF ListedInv, plans
    <3>6. PhaseInv'
      BY <2>2, <2>1, <3>1 DEF PhaseInv, plans
    <3>7. OneInv'
      BY <2>2, <2>1, <3>1, <3>2, <3>3 DEF OneInv, plans
    <3>8. RunInv' /\ UpInv' /\ ScoreInv'
      BY <3>1 DEF RunInv, UpInv, ScoreInv
    <3>. QED
      BY <3>4, <3>5, <3>6, <3>7, <3>8
  <2>4. CASE ~Behind(0)
    <3>1. pc'[0] \in {"idle", "networks", "listing"}
      BY <2>2, <2>4 DEF Behind, Sole
    <3>. QED
      BY <2>2, <3>1, NoPlanNext DEF Sole
  <2>. QED
    BY <2>3, <2>4
<1>. QED
  BY <1>1, <1>2, <1>3 DEF Outside

\* The plan starts from what Docker holds: what it leaves alone and what it
\* creates is one container for each target, and so on.
LEMMA PlanPass ==
    ASSUME TypeOK, PassInv, ImageList(0) PROVE PassInv'
<1> USE DEF TypeOK, PassInv
<1>0. 0 \in Workers /\ 0 \notin Ids
  BY DEF Workers, Ids, ContainerSyncAssumption
<1>1. CASE Goto(0, "images", "flush") /\ clean' = [clean EXCEPT ![0] = FALSE]
  <2>1. pc' = [pc EXCEPT ![0] = "flush"]
    BY <1>1 DEF Goto
  <2>2. pc'[0] = "flush" /\ ~clean'[0]
    BY <1>0, <1>1, <2>1 DEF ControlOK, FlagsOK
  <2>3. Sole'
    BY <1>0, <2>1 DEF Sole, ControlOK
  <2>. QED
    BY <2>2, <2>3, NoPlanNext
<1>2. CASE /\ Goto(0, "images", "deleting")
           /\ \E list \in SetToSeqs(DOMAIN listed[0]), tags \in TagLists :
                 LET plan == Plan(config, listed[0], list, tags)
                 IN  /\ toDelete' = [toDelete EXCEPT ![0] = plan.delete]
                     /\ toCreate' = [toCreate EXCEPT ![0] = plan.create]
                     /\ toStart' = [toStart EXCEPT ![0] = plan.start]
           /\ UNCHANGED <<world, config, listed, clean>>
  <2>1. PICK list \in SetToSeqs(DOMAIN listed[0]), tags \in TagLists :
           LET plan == Plan(config, listed[0], list, tags)
           IN  /\ toDelete' = [toDelete EXCEPT ![0] = plan.delete]
               /\ toCreate' = [toCreate EXCEPT ![0] = plan.create]
               /\ toStart' = [toStart EXCEPT ![0] = plan.start]
    BY <1>2
  <2> DEFINE plan == Plan(config, listed[0], list, tags)
  <2>2. /\ toDelete'[0] = plan.delete
        /\ toCreate'[0] = plan.create
        /\ toStart'[0] = plan.start
    BY <1>0, <2>1 DEF ListedOK
  <2>3. /\ pc[0] = "images" /\ pc' = [pc EXCEPT ![0] = "deleting"] /\ pc'[0] = "deleting"
        /\ ctrs' = ctrs /\ config' = config /\ listed' = listed /\ clean' = clean
    BY <1>0, <1>2 DEF Goto, ControlOK, world
  <2>4. Planned(config, listed[0], list)
    BY <1>0 DEF Planned, ListedOK, WorldOK
  <2>5. tags \in [Targets -> Seq(Tags)] /\ config \in Configs
    BY TagListType DEF WorldOK
  <2> HIDE DEF plan
  <2>6. Sole'
    BY <1>0, <2>3 DEF Sole, ControlOK
  <2>7. ListedInv' /\ PhaseInv'
    BY <2>3 DEF ListedInv, PhaseInv
  <2>8. Firm' => Trusted
    BY <2>3 DEF Firm, Trusted
  <2>9. Firm' => /\ Present \subseteq DOMAIN listed[0]
                 /\ clean[0] => DOMAIN listed[0] = Present
                 /\ \A id \in Present : listed[0][id].target = ctrs[id].target
                 /\ clean[0] => \A id \in Present : listed[0][id] = ctrs[id]
    BY <2>3, <2>8 DEF ListedInv
  <2>10. Staying' = Present \ plan.delete
    BY <2>2, <2>3 DEF Staying, Present, Deleting
  <2>11. OneInv'
    <3> SUFFICES ASSUME Firm' PROVE OneInv'
      BY DEF OneInv
    <3>1. ASSUME NEW id \in Staying'
          PROVE  /\ ctrs[id].target \in DOMAIN config
                 /\ id = Kept(config, listed[0], list)[ctrs[id].target]
                 /\ \A p \in plan.create : p[1] # ctrs[id].target
      BY <2>4, <2>9, <2>10, NotDeleted DEF plan
    <3>2. \A p \in plan.create : /\ p[1] \in DOMAIN config
                                 /\ \A q \in plan.create : q[1] = p[1] => q = p
      BY <2>5, CreateFacts DEF plan
    <3>3. \A id, other \in Staying' : ctrs[id].target = ctrs[other].target => id = other
      BY <3>1
    <3>. QED
      BY <2>2, <2>3, <3>1, <3>2, <3>3 DEF OneInv
  <2>12. RunInv'
    <3> SUFFICES ASSUME Firm', clean[0] PROVE RunInv'
      BY <2>3 DEF RunInv
    <3>1. ASSUME NEW id \in Staying'
          PROVE  ctrs[id].state = "running" \/ config[ctrs[id].target].restartExited
      BY <2>4, <2>9, <2>10, NotDeleted DEF plan
    <3>. QED
      BY <2>3, <3>1 DEF RunInv
  <2>13. UpInv'
    <3> SUFFICES ASSUME Firm', clean[0], NEW t \in DOMAIN config, NEW ran \in Ran(t),
                        \A p \in plan.create : p[1] # t
                 PROVE  \E id \in Staying' : /\ ctrs[id].target = t
                                             /\ ctrs[id].state = "running" \/ id \in plan.start
      BY <2>2, <2>3 DEF UpInv, Ran, Had
    <3>1. /\ ran \in DOMAIN listed[0]
          /\ listed[0][ran].target = t /\ listed[0][ran].state = "running"
      BY DEF Ran, Had
    <3>2. \E id \in DOMAIN listed[0] \ plan.delete :
             /\ listed[0][id].target = t
             /\ listed[0][id].state = "running" \/ id \in plan.start
      BY <2>4, <3>1, StaysUp DEF plan
    <3>. QED
      BY <2>9, <2>10, <3>2
  <2>14. ScoreInv'
    <3> SUFFICES ASSUME Firm', clean[0], NEW t \in DOMAIN config, NEW old \in Ran(t),
                        Had(t) = {old}
                 PROVE  /\ \A p \in plan.create :
                              p[1] = t => Score(t, p[2]) <= Score(t, listed[0][old].tag)
                        /\ \A id \in Staying' :
                              ctrs[id].target = t
                                 => Score(t, ctrs[id].tag) <= Score(t, listed[0][old].tag)
      BY <2>2, <2>3 DEF ScoreInv, Ran, Had, Score
    <3>1. /\ old \in DOMAIN listed[0]
          /\ listed[0][old].target = t /\ listed[0][old].state = "running"
          /\ \A id \in DOMAIN listed[0] : listed[0][id].target = t => id = old
      BY DEF Ran, Had
    <3>2. \A p \in plan.create :
             p[1] = t => Score(t, p[2]) <= Score(t, listed[0][old].tag)
      BY <2>4, <2>5, <3>1, NoWorse DEF plan, Score
    <3>3. Score(t, listed[0][old].tag) \in Int
      <4>1. config[t].versions \in Seq(Tags)
        BY <2>5, ConfigAssumption
      <4>. QED
        BY <4>1, ScoreIsInt DEF Score
    <3>4. ASSUME NEW id \in Staying', ctrs[id].target = t
          PROVE  ctrs[id].tag = listed[0][old].tag
      BY <2>9, <2>10, <3>1, <3>4
    <3>5. \A id \in Staying' : ctrs[id].target = t
             => Score(t, ctrs[id].tag) <= Score(t, listed[0][old].tag)
      BY <3>3, <3>4
    <3>. QED
      BY <3>2, <3>5
  <2>. QED
    BY <2>6, <2>7, <2>11, <2>12, <2>13, <2>14
<1>. QED
  BY <1>1, <1>2 DEF ImageList, world, counts

\* A step that leaves alone what stays, or starts some of it, keeps the plan.
LEMMA CarriedOn ==
    ASSUME PassInv, Firm' => Firm, clean'[0] => clean[0],
           Staying' = Staying, config' = config, listed' = listed,
           toCreate'[0] = toCreate[0],
           \A id \in Staying :
              /\ ctrs'[id].target = ctrs[id].target
              /\ ctrs'[id].tag = ctrs[id].tag
              /\ ctrs[id].state = "running" => ctrs'[id].state = "running"
              /\ clean'[0] /\ id \in toStart[0]
                    => id \in toStart'[0] \/ ctrs'[id].state = "running"
    PROVE  OneInv' /\ RunInv' /\ UpInv' /\ ScoreInv'
<1> USE DEF PassInv
<1>1. OneInv'
  BY DEF OneInv
<1>2. RunInv'
  BY DEF RunInv
<1>3. UpInv'
  BY DEF UpInv, Ran, Had
<1>4. ScoreInv'
  BY DEF ScoreInv, Ran, Had, Score
<1>. QED
  BY <1>1, <1>2, <1>3, <1>4

LEMMA ListPass ==
    ASSUME TypeOK, PassInv, ContainerList(0) PROVE PassInv'
<1> USE DEF TypeOK, PassInv
<1>0. 0 \in Workers /\ 0 \notin Ids
  BY DEF Workers, Ids, ContainerSyncAssumption
<1>1. pc' = [pc EXCEPT ![0] = "images"] /\ pc'[0] = "images" /\ ctrs' = ctrs
  BY <1>0 DEF ContainerList, Goto, ControlOK, world
<1>2. Sole'
  BY <1>0, <1>1 DEF Sole, ControlOK
<1>3. \/ MayFail(0, "list") /\ ~clean'[0]
      \/ listed'[0] = [id \in Present |-> ctrs[id]]
  BY <1>0 DEF ContainerList, FlagsOK, ListedOK, Present
<1>4. Present' = Present
  BY <1>1 DEF Present
<1>5. ListedInv'
  BY <1>1, <1>3, <1>4 DEF ListedInv, Trusted
<1>6. ~Firm'
  BY <1>1 DEF Firm
<1>7. PhaseInv'
  BY <1>1 DEF PhaseInv
<1>. QED
  BY <1>2, <1>5, <1>6, <1>7 DEF OneInv, RunInv, UpInv, ScoreInv

\* A stop concerns what is to go, ...
LEMMA StopPass ==
    ASSUME TypeOK, PassInv, NEW id \in Ids, ContainerStop(0, id) PROVE PassInv'
<1> USE DEF TypeOK, PassInv, Deleting
<1>0. 0 \in Workers /\ 0 \notin Ids /\ Ids \subseteq Workers
  BY DEF Workers, Ids, ContainerSyncAssumption
<1>1. /\ pc[0] = "deleting" /\ id \in toDelete[0]
      /\ pc' = [pc EXCEPT ![0] = "stopping"]
      /\ toDelete'[0] = toDelete[0] \ {id} /\ victim'[0] = id
      /\ UNCHANGED <<ctrs, config, listed, toCreate, toStart, clean>>
  BY <1>0 DEF ContainerStop, world, ControlOK, ListedOK
<1>2. pc'[0] = "stopping" /\ \A v \in Ids : pc'[v] = "dead"
  BY <1>0, <1>1 DEF Sole, ControlOK
<1>3. Present' = Present
  BY <1>1 DEF Present
<1>4. Staying' = Staying
  BY <1>1, <1>2, <1>3 DEF Staying
<1>5. (Firm' => Firm) /\ Sole' /\ ListedInv' /\ PhaseInv'
  BY <1>1, <1>2 DEF Firm, Trusted, Sole, ListedInv, PhaseInv
<1>6. OneInv' /\ RunInv' /\ UpInv' /\ ScoreInv'
  BY <1>1, <1>4, <1>5, CarriedOn
<1>. QED
  BY <1>5, <1>6

\* ... whether it succeeds or not, ...
LEMMA StoppedPass ==
    ASSUME TypeOK, PassInv, ContainerStopped(0) PROVE PassInv'
<1> USE DEF TypeOK, PassInv, Deleting
<1>0. 0 \in Workers /\ 0 \notin Ids /\ Ids \subseteq Workers
  BY DEF Workers, Ids, ContainerSyncAssumption
<1>1. /\ pc[0] = "stopping"
      /\ config' = config /\ UNCHANGED plans
  BY DEF ContainerStopped
<1>2. victim[0] \in Ids
  BY <1>0, <1>1, ListedAimed DEF Aimed
<1>3. clean'[0] = clean[0]
  BY OwnMeddling DEF ContainerStopped
<1>4. pc'[0] = "removing" /\ \A v \in Ids : pc'[v] = "dead"
  BY <1>0, <1>2 DEF ContainerStopped, CarryOut, Sole, ControlOK
<1>5. /\ \A other \in Ids \ {victim[0]} : ctrs'[other] = ctrs[other]
      /\ ctrs'[victim[0]].state = "gone" <=> ctrs[victim[0]].state = "gone"
  BY <1>2, CarryOutCtrs DEF ContainerStopped
<1>6. Present' = Present
  BY <1>5 DEF Present
<1>7. Staying' = Staying /\ Staying \subseteq Ids \ {victim[0]}
  BY <1>1, <1>4, <1>6 DEF Staying, Present, plans
<1>8. (Firm' => Firm) /\ Sole' /\ ListedInv' /\ PhaseInv'
  BY <1>1, <1>3, <1>4 DEF Firm, Trusted, Sole, ListedInv, PhaseInv, plans
<1>9. OneInv' /\ RunInv' /\ UpInv' /\ ScoreInv'
  BY <1>1, <1>3, <1>5, <1>7, <1>8, CarriedOn DEF plans
<1>. QED
  BY <1>8, <1>9

\* ... and so does a removal, which ends the trust in the plan when it fails.
LEMMA RemovePass ==
    ASSUME TypeOK, PassInv, ContainerRemove(0) PROVE PassInv'
<1> USE DEF TypeOK, PassInv, Deleting
<1>0. 0 \in Workers /\ 0 \notin Ids /\ Ids \subseteq Workers
  BY DEF Workers, Ids, ContainerSyncAssumption
<1>1. /\ pc[0] = "removing"
      /\ config' = config /\ listed' = listed /\ toCreate' = toCreate
      /\ toStart' = toStart /\ toDelete' = toDelete
  BY DEF ContainerRemove
<1>2. victim[0] \in Ids
  BY <1>0, <1>1, ListedAimed DEF Aimed
<1>3. pc'[0] = "deleting" /\ \A v \in Ids : pc'[v] = "dead"
  BY <1>0, <1>2 DEF ContainerRemove, CarryOut, Sole, ControlOK
<1>4. CASE /\ CarryOut("removing", victim[0], [pc EXCEPT ![0] = "deleting"])
           /\ clean' = Meddled(0)
  <2>1. clean'[0] = clean[0]
    BY <1>4, OwnMeddling
  <2>2. /\ \A id \in Ids \ {victim[0]} : ctrs'[id] = ctrs[id]
        /\ ctrs'[victim[0]].state = "gone"
    <3>1. CarryOut("removing", victim[0], [pc EXCEPT ![0] = "deleting"])
      BY <1>4
    <3>. QED
      BY <1>2, <3>1, CarryOutCtrs
  <2>3. Present' = Present \ {victim[0]}
    BY <2>2 DEF Present
  <2>4. Staying' = Staying /\ Staying \subseteq Ids \ {victim[0]}
    BY <1>1, <1>3, <2>3 DEF Staying, Present
  <2>5. (Firm' => Firm) /\ Sole' /\ ListedInv' /\ PhaseInv'
    BY <1>1, <1>3, <2>1 DEF Firm, Trusted, Sole, ListedInv, PhaseInv
  <2>6. OneInv' /\ RunInv' /\ UpInv' /\ ScoreInv'
    BY <1>1, <2>1, <2>2, <2>4, <2>5, CarriedOn
  <2>. QED
    BY <2>5, <2>6
<1>5. CASE MayFail(0, "remove") /\ clean' = [clean EXCEPT ![0] = FALSE]
  <2>1. ~clean'[0]
    BY <1>0, <1>5 DEF FlagsOK
  <2>2. ~Firm' /\ Sole' /\ ListedInv' /\ PhaseInv'
    BY <1>3, <1>5, <2>1 DEF Firm, Trusted, Sole, ListedInv, PhaseInv
  <2>. QED
    BY <2>2 DEF OneInv, RunInv, UpInv, ScoreInv
<1>. QED
  BY <1>4, <1>5 DEF ContainerRemove

\* The end of a loop is the beginning of the next.
LEMMA DonePass ==
    ASSUME TypeOK, PassInv, DeleteDone(0) \/ CreateDone(0) \/ StartDone(0)
    PROVE  PassInv'
<1> USE DEF TypeOK, PassInv
<1>0. 0 \in Workers /\ 0 \notin Ids
  BY DEF Workers, Ids, ContainerSyncAssumption
<1>1. /\ UNCHANGED <<ctrs, config, toDelete, toCreate, toStart, listed, clean>>
      /\ \/ /\ pc[0] = "deleting" /\ toDelete[0] = {}
            /\ pc' = [pc EXCEPT ![0] = "creating"]
         \/ /\ pc[0] = "creating" /\ toCreate[0] = {}
            /\ pc' = [pc EXCEPT ![0] = "starting"]
         \/ /\ pc[0] = "starting" /\ toStart[0] = {}
            /\ pc' = [pc EXCEPT ![0] = "flush"]
  BY DEF DeleteDone, CreateDone, StartDone, Goto, world, plans
<1>2. /\ \/ pc[0] = "deleting" /\ toDelete[0] = {} /\ pc'[0] = "creating"
         \/ pc[0] = "creating" /\ toCreate[0] = {} /\ pc'[0] = "starting"
         \/ pc[0] = "starting" /\ toStart[0] = {} /\ pc'[0] = "flush"
      /\ \A v \in Ids : pc'[v] = "dead"
  BY <1>0, <1>1 DEF Sole, ControlOK, Ids, Workers
<1>3. Present' = Present
  BY <1>1 DEF Present
<1>4. Staying' = Staying
  BY <1>1, <1>2, <1>3 DEF Staying, Deleting
<1>5. (Firm' => Firm) /\ Sole' /\ ListedInv' /\ PhaseInv'
  BY <1>0, <1>1, <1>2 DEF Firm, Trusted, Sole, ListedInv, PhaseInv
<1>6. OneInv' /\ RunInv' /\ UpInv' /\ ScoreInv'
  BY <1>1, <1>4, <1>5, CarriedOn
<1>. QED
  BY <1>5, <1>6

\* A container that is created is the one its target was to get, and will start.
LEMMA CreatePass ==
    ASSUME TypeOK, PassInv, NEW p \in Targets \X Tags, ContainerCreate(0, p)
    PROVE  PassInv'
<1> USE DEF TypeOK, PassInv
<1>0. 0 \in Workers /\ 0 \notin Ids
  BY DEF Workers, Ids, ContainerSyncAssumption
<1>1. /\ pc[0] = "creating" /\ p \in toCreate[0]
      /\ toCreate'[0] = toCreate[0] \ {p}
      /\ config' = config /\ listed' = listed /\ toDelete' = toDelete /\ pc' = pc
  BY <1>0 DEF ContainerCreate, ListedOK
<1>2. Sole' /\ ListedInv' /\ PhaseInv'
  BY <1>1 DEF Sole, ListedInv, PhaseInv
<1>3. toDelete[0] = {} /\ Staying = Present
  BY <1>1 DEF PhaseInv, Staying, Deleting
<1>4. Staying' = Present'
  BY <1>1, <1>3 DEF Staying, Deleting
<1>5. CASE clean' = [clean EXCEPT ![0] = FALSE] /\ UNCHANGED ctrs
  <2>1. ~clean'[0] /\ (Firm' => Firm)
    BY <1>0, <1>1, <1>5 DEF FlagsOK, Firm, Trusted
  <2>2. Staying' = Staying
    BY <1>3, <1>4, <1>5 DEF Present
  <2>3. OneInv'
    BY <1>1, <1>5, <2>1, <2>2 DEF OneInv
  <2>. QED
    BY <1>2, <2>1, <2>3 DEF RunInv, UpInv, ScoreInv
<1>6. CASE \E id \in Ids :
             /\ Fresh(id)
             /\ ctrs' = [ctrs EXCEPT ![id] =
                            [target |-> p[1], tag |-> p[2], state |-> "created"]]
             /\ toStart' = [toStart EXCEPT ![0] = @ \cup {id}]
             /\ clean' = Meddled(0)
  <2>0. PICK id \in Ids :
           /\ ctrs[id] = Absent
           /\ ctrs' = [ctrs EXCEPT ![id] =
                          [target |-> p[1], tag |-> p[2], state |-> "created"]]
           /\ toStart' = [toStart EXCEPT ![0] = @ \cup {id}]
           /\ clean' = Meddled(0)
    BY <1>6 DEF Fresh
  <2>8. clean'[0] = clean[0]
    BY <2>0, OwnMeddling
  <2>1. /\ ctrs'[id].target = p[1] /\ ctrs'[id].tag = p[2] /\ ctrs'[id].state = "created"
        /\ \A other \in Ids \ {id} : ctrs'[other] = ctrs[other]
        /\ toStart'[0] = toStart[0] \cup {id}
    BY <1>0, <2>0 DEF WorldOK, ListedOK
  <2>2. id \notin Staying /\ Staying \subseteq Ids /\ Staying' = Staying \cup {id}
    BY <1>3, <1>4, <2>0, <2>1 DEF Present, Absent
  <2>3. Firm' => Firm
    BY <1>1, <2>8 DEF Firm, Trusted
  <2>4. OneInv'
    BY <1>1, <2>1, <2>2, <2>3 DEF OneInv
  <2>5. RunInv'
    BY <1>1, <2>1, <2>2, <2>3, <2>8 DEF RunInv
  <2>6. UpInv'
    <3> SUFFICES ASSUME Firm', clean[0], NEW t \in DOMAIN config, Ran(t) # {},
                        \A q \in toCreate'[0] : q[1] # t
                 PROVE  \E k \in Staying' : /\ ctrs'[k].target = t
                                            /\ ctrs'[k].state = "running" \/ k \in toStart'[0]
      BY <1>1, <2>8 DEF UpInv, Ran, Had
    <3>1. CASE t = p[1]
      BY <2>1, <2>2, <3>1
    <3>2. CASE t # p[1]
      <4>1. PICK k \in Staying : /\ ctrs[k].target = t
                                 /\ ctrs[k].state = "running" \/ k \in toStart[0]
        BY <1>1, <2>3, <3>2 DEF UpInv
      <4>. QED
        BY <2>1, <2>2, <4>1
    <3>. QED
      BY <3>1, <3>2
  <2>7. ScoreInv'
    <3> SUFFICES ASSUME Firm', clean[0], NEW t \in DOMAIN config, NEW old \in Ran(t),
                        Had(t) = {old}
                 PROVE  /\ \A q \in toCreate'[0] :
                              q[1] = t => Score(t, q[2]) <= Score(t, listed[0][old].tag)
                        /\ \A k \in Staying' : ctrs'[k].target = t
                              => Score(t, ctrs'[k].tag) <= Score(t, listed[0][old].tag)
      BY <1>1, <2>8 DEF ScoreInv, Ran, Had, Score
    <3>1. /\ \A q \in toCreate[0] :
                q[1] = t => Score(t, q[2]) <= Score(t, listed[0][old].tag)
          /\ \A k \in Staying : ctrs[k].target = t
                => Score(t, ctrs[k].tag) <= Score(t, listed[0][old].tag)
      BY <2>3 DEF ScoreInv
    <3>. QED
      BY <1>1, <2>1, <2>2, <3>1
  <2>. QED
    BY <1>2, <2>4, <2>5, <2>6, <2>7
<1>. QED
  BY <1>5, <1>6 DEF ContainerCreate

\* A start makes a container run, or finds it gone, or is not clean.
LEMMA StartPass ==
    ASSUME SelfTarget = NoTarget, TypeOK, PassInv, NEW id \in Ids, ContainerStart(0, id)
    PROVE  PassInv'
<1> USE DEF TypeOK, PassInv
<1>0. 0 \in Workers /\ 0 \notin Ids
  BY DEF Workers, Ids, ContainerSyncAssumption
<1>1. /\ pc[0] = "starting" /\ id \in toStart[0]
      /\ toStart'[0] = toStart[0] \ {id}
      /\ config' = config /\ listed' = listed /\ toDelete' = toDelete
      /\ toCreate' = toCreate
  BY <1>0 DEF ContainerStart, ListedOK
<1>2. pc' = pc
  <2>1. ctrs[id].state # "gone" => ctrs[id].target # SelfTarget
    BY DEF WorldOK, Ctrs, Absent, ContainerSyncAssumption
  <2>2. pc = [pc EXCEPT ![id] = pc[id]]
    BY DEF ControlOK
  <2>. QED
    BY <2>1, <2>2 DEF ContainerStart
<1>3. Sole' /\ ListedInv' /\ PhaseInv'
  BY <1>1, <1>2 DEF Sole, ListedInv, PhaseInv
<1>4. CASE /\ ctrs[id].state # "gone"
           /\ ctrs' = [ctrs EXCEPT ![id].state = "running"]
           /\ clean' = Meddled(0)
  <2>1. /\ DOMAIN ctrs = Ids /\ ctrs[id] \in Ctrs
        /\ ctrs' = [ctrs EXCEPT ![id] = [ctrs[id] EXCEPT !.state = "running"]]
    BY <1>4 DEF WorldOK
  <2>2. /\ [ctrs[id] EXCEPT !.state = "running"].state = "running"
        /\ [ctrs[id] EXCEPT !.state = "running"].target = ctrs[id].target
        /\ [ctrs[id] EXCEPT !.state = "running"].tag = ctrs[id].tag
    BY <2>1 DEF Ctrs, Absent
  <2>3. /\ \A other \in Ids \ {id} : ctrs'[other] = ctrs[other]
        /\ ctrs'[id].state = "running"
        /\ ctrs'[id].target = ctrs[id].target /\ ctrs'[id].tag = ctrs[id].tag
    BY <2>1, <2>2
  <2>4. Present' = Present
    BY <1>4, <2>3 DEF Present
  <2>5. clean'[0] = clean[0]
    BY <1>4, OwnMeddling
  <2>6. Staying' = Staying /\ Staying \subseteq Ids /\ (Firm' => Firm)
    BY <1>1, <1>2, <1>4, <2>4, <2>5 DEF Staying, Deleting, Firm, Trusted, Present
  <2>7. OneInv' /\ RunInv' /\ UpInv' /\ ScoreInv'
    BY <1>1, <2>3, <2>6, <2>5, CarriedOn
  <2>. QED
    BY <1>3, <2>7
<1>5. CASE clean' = [clean EXCEPT ![0] = @ /\ ctrs[id].state = "gone"] /\ ctrs' = ctrs
  <2>1. clean'[0] = (clean[0] /\ ctrs[id].state = "gone")
    BY Zenon, <1>0, <1>5 DEF FlagsOK
  <2>2. Present' = Present /\ (clean'[0] => id \notin Present)
    BY <1>5, <2>1 DEF Present
  <2>3. Staying' = Staying /\ Staying \subseteq Present /\ (Firm' => Firm)
    BY <1>1, <1>2, <2>1, <2>2 DEF Staying, Deleting, Firm, Trusted
  <2>4. OneInv' /\ RunInv' /\ UpInv' /\ ScoreInv'
    BY <1>1, <1>5, <2>1, <2>2, <2>3, CarriedOn
  <2>. QED
    BY <1>3, <2>4
<1>. QED
  BY <1>4, <1>5 DEF ContainerStart

\* The daemons in containers do not exist, so a pass is one of the daemon 0.
LEMMA PassStep ==
    ASSUME SelfTarget = NoTarget, TypeOK, PassInv, NEW w \in Workers, Pass(w)
    PROVE  PassInv'
<1>0. 0 \in Workers /\ 0 \notin Ids /\ Workers = Ids \cup {0}
  BY DEF Workers, Ids, ContainerSyncAssumption
<1>1. w = 0
  <2>1. pc[w] # "dead"
    BY DEF Pass, Woken, ProcessNetworks, ContainerList, ImageList, Prevent, ContainerRemove,
           DeleteDone, CreateDone, StartDone, Flush, ContainerStop, ContainerStopped,
           ContainerStart, ContainerCreate, Goto
  <2>. QED
    BY <1>0, <2>1 DEF PassInv, Sole
<1>2. CASE Woken(0) \/ ProcessNetworks(0) \/ Flush(0)
  <2>1. PICK to \in {"networks", "listing", "idle"} : pc' = [pc EXCEPT ![0] = to]
    BY <1>2 DEF Woken, ProcessNetworks, Flush, Goto
  <2>2. pc'[0] = to
    BY <1>0, <2>1 DEF TypeOK, ControlOK
  <2>3. Sole'
    BY <1>0, <2>1, <2>2 DEF PassInv, Sole, TypeOK, ControlOK
  <2>. QED
    BY <2>2, <2>3, NoPlanNext DEF PassInv
<1>3. CASE ContainerList(0)
  BY <1>3, ListPass
<1>4. CASE ImageList(0)
  BY <1>4, PlanPass
<1>5. CASE Prevent(0)
  BY <1>0, <1>5 DEF Prevent, Protected, TypeOK, ListedOK
<1>6. CASE ContainerRemove(0)
  BY <1>6, RemovePass
<1>7. CASE DeleteDone(0) \/ CreateDone(0) \/ StartDone(0)
  BY <1>7, DonePass
<1>8. CASE \E id \in Ids : ContainerStop(0, id)
  BY <1>8, StopPass
<1>9. CASE \E id \in Ids : ContainerStart(0, id)
  BY <1>9, StartPass
<1>10. CASE \E p \in Targets \X Tags : ContainerCreate(0, p)
  BY <1>10, CreatePass
<1>11. CASE ContainerStopped(0)
  BY <1>11, StoppedPass
<1>. QED
  BY <1>1, <1>2, <1>3, <1>4, <1>5, <1>6, <1>7, <1>8, <1>9, <1>10, <1>11 DEF Pass

\* PassInv holds throughout.
LEMMA PassInvariant ==
    ASSUME SelfTarget = NoTarget PROVE Spec => []PassInv
<1>1. TypeOK /\ PassInv /\ [Next]_vars => PassInv'
  <2> SUFFICES ASSUME TypeOK, PassInv, [Next]_vars PROVE PassInv'
    OBVIOUS
  <2>1. CASE UNCHANGED vars
    <3>1. /\ UNCHANGED <<ctrs, config, pc, listed, toDelete, victim, toCreate, toStart, clean>>
      BY <2>1 DEF vars, world, plans
    <3>2. Staying' = Staying /\ Present' = Present /\ Firm' = Firm /\ Trusted' = Trusted
      BY <3>1 DEF Staying, Present, Firm, Trusted
    <3>3. Sole' /\ ListedInv' /\ PhaseInv'
      BY <3>1, <3>2 DEF PassInv, Sole, ListedInv, PhaseInv
    <3>4. OneInv' /\ RunInv' /\ UpInv' /\ ScoreInv'
      BY <3>1, <3>2, CarriedOn
    <3>. QED
      BY <3>3, <3>4 DEF PassInv
  <2>2. CASE Outside
    BY <2>2, OutsidePass
  <2>3. CASE \E w \in Workers : Pass(w)
    BY <2>3, PassStep
  <2>. QED
    BY <2>1, <2>2, <2>3 DEF Next
<1>2. Init => PassInv
  BY InitPass
<1>. QED
  BY <1>1, <1>2, TypeCorrect, PTL DEF Spec

-----------------------------------------------------------------------------

\* At the end of a clean pass all that is there stays, and it was for the
\* daemon 0 to say.
LEMMA SettledFacts ==
    ASSUME PassInv, NEW w \in Workers, Settled(w)
    PROVE  w = 0 /\ Firm /\ Staying = Present /\ toCreate[0] = {} /\ toStart[0] = {}
<1>1. Workers = Ids \cup {0}
  BY DEF Workers, Ids, ContainerSyncAssumption
<1>2. w = 0
  BY <1>1 DEF PassInv, Sole, Settled
<1>. QED
  BY <1>2 DEF PassInv, PhaseInv, Firm, Settled, Staying, Deleting

\* "attempts to reconcile" (README.md:22): processOnce (containersync/worker.go),
\* when nothing fails or changes meanwhile, leaves one container at most for
\* every target, none for others, and all of them running that have to.
THEOREM PassesReconcile ==
    ASSUME SelfTarget = NoTarget PROVE Spec => []PassReconciles
<1>1. PassInv => PassReconciles
  <2> SUFFICES ASSUME PassInv, NEW w \in Workers, Settled(w), NEW id \in Present \ {w}
               PROVE  /\ ctrs[id].target \in DOMAIN config
                      /\ Of(ctrs[id].target) \ {w, id} = {}
                      /\ \/ ctrs[id].state = "running"
                         \/ config[ctrs[id].target].restartExited
    BY DEF PassReconciles
  <2>1. Firm /\ clean[0] /\ Staying = Present /\ toStart[0] = {}
    BY SettledFacts DEF Settled
  <2>2. /\ ctrs[id].target \in DOMAIN config
        /\ \A other \in Present : ctrs[id].target = ctrs[other].target => id = other
    BY <2>1 DEF PassInv, OneInv
  <2>3. ctrs[id].state = "running" \/ config[ctrs[id].target].restartExited
    BY <2>1 DEF PassInv, RunInv
  <2>. QED
    BY <2>2, <2>3 DEF Of
<1>. QED
  BY <1>1, PassInvariant, PTL

\* "uptime management" (README.md:4): the same pass leaves no target without a
\* running container that had one, replaced or not.
THEOREM NoPassTakesDown ==
    ASSUME SelfTarget = NoTarget PROVE Spec => []NoOutage
<1>1. PassInv => NoOutage
  <2> SUFFICES ASSUME PassInv, NEW w \in Workers, Settled(w), NEW t \in DOMAIN config,
                      NEW ran \in DOMAIN listed[w],
                      listed[w][ran].target = t, listed[w][ran].state = "running"
               PROVE  Running(t) # {}
    BY DEF NoOutage
  <2>1. /\ Firm /\ clean[0] /\ Staying = Present /\ w = 0
        /\ toStart[0] = {} /\ toCreate[0] = {}
    BY SettledFacts DEF Settled
  <2>2. Ran(t) # {}
    BY <2>1 DEF Ran, Had
  <2>. QED
    BY <2>1, <2>2 DEF PassInv, UpInv, Running, Of
<1>. QED
  BY <1>1, PassInvariant, PTL

\* selectContainerImage's comparison (containersync/worker.go:271): the same
\* pass moves no target that had one container to a worse version.
THEOREM NoPassDowngrades ==
    ASSUME SelfTarget = NoTarget PROVE Spec => []NoDowngrade
<1>1. PassInv => NoDowngrade
  <2> SUFFICES ASSUME PassInv, NEW w \in Workers, Settled(w), NEW t \in DOMAIN config,
                      NEW old \in DOMAIN listed[w], NEW id \in Running(t),
                      {k \in DOMAIN listed[w] : listed[w][k].target = t} = {old},
                      listed[w][old].state = "running"
               PROVE  Score(t, ctrs[id].tag) <= Score(t, listed[w][old].tag)
    BY DEF NoDowngrade
  <2>1. Firm /\ clean[0] /\ Staying = Present /\ w = 0
    BY SettledFacts DEF Settled
  <2>2. old \in Ran(t) /\ Had(t) = {old}
    BY <2>1 DEF Ran, Had
  <2>3. id \in Staying /\ ctrs[id].target = t
    BY <2>1 DEF Running, Of
  <2>. QED
    BY <2>1, <2>2, <2>3 DEF PassInv, ScoreInv
<1>. QED
  BY <1>1, PassInvariant, PTL

\* Only a start makes a container run.
LEMMA OnlyStartRuns ==
    ASSUME TypeOK, PassInv, Next, \A id \in Ids : ~ContainerStart(0, id)
    PROVE  \A id \in Ids : ctrs'[id].state = "running" => ctrs'[id] = ctrs[id]
<1>0. 0 \in Workers /\ Workers = Ids \cup {0}
  BY DEF Workers, Ids, ContainerSyncAssumption
<1>1. \/ UNCHANGED ctrs
      \/ \E id \in Ids : \E new : ctrs' = [ctrs EXCEPT ![id] = new] /\ new.state # "running"
      \/ \E id \in Ids, request \in {"stopping", "removing"} :
            \E next : CarryOut(request, id, next)
      \/ \E id \in Ids : /\ ctrs[id].state = "running"
                         /\ ctrs' = [ctrs EXCEPT ![id].state = "exited"]
  <2>1. CASE Outside
    <3>1. CASE OrphanCarriedOut
      BY <3>1 DEF OrphanCarriedOut, TypeOK, ControlOK
    <3>. QED
      BY <2>1, <3>1 DEF Outside, ContainerExits, ImageArrives, Reconfigured, Restarted, world
  <2>2. CASE \E w \in Workers : Pass(w)
    <3>1. PICK w \in Workers : Pass(w)
      BY <2>2
    <3>2. pc[w] # "dead"
      BY <3>1 DEF Pass, Woken, ProcessNetworks, ContainerList, ImageList, Prevent,
             ContainerRemove, DeleteDone, CreateDone, StartDone, Flush, ContainerStop,
             ContainerStopped, ContainerStart, ContainerCreate, Goto
    <3>3. w = 0
      BY <1>0, <3>2 DEF PassInv, Sole
    <3>4. CASE ContainerRemove(0) \/ ContainerStopped(0)
      <4>1. victim[0] \in Ids
        BY <1>0, <3>4, ListedAimed
           DEF ContainerRemove, ContainerStopped, TypeOK, Aimed, Deleting
      <4>. QED
        BY <3>4, <4>1 DEF ContainerRemove, ContainerStopped
    <3>5. CASE \E p \in Targets \X Tags : ContainerCreate(0, p)
      BY <3>5 DEF ContainerCreate
    <3>6. CASE \E id \in Ids : ContainerStop(0, id)
      BY <3>6 DEF ContainerStop, world
    <3>. QED
      BY <3>1, <3>3, <3>4, <3>5, <3>6 DEF Pass, Woken, ProcessNetworks, ContainerList,
         ImageList, Prevent, DeleteDone, CreateDone, StartDone, Flush, world
  <2>. QED
    BY <2>1, <2>2 DEF Next
<1>2. DOMAIN ctrs = Ids /\ \A id \in Ids : ctrs[id] \in Ctrs
  BY DEF TypeOK, WorldOK
<1>3. ASSUME NEW id \in Ids, ctrs' = [ctrs EXCEPT ![id].state = "exited"]
      PROVE  \A k \in Ids : ctrs'[k].state = "running" => ctrs'[k] = ctrs[k]
  <2>1. ctrs' = [ctrs EXCEPT ![id] = [ctrs[id] EXCEPT !.state = "exited"]]
    BY <1>3
  <2>2. [ctrs[id] EXCEPT !.state = "exited"].state # "running"
    BY <1>2 DEF Ctrs, Absent
  <2>. QED
    BY <1>2, <2>1, <2>2
<1>4. ASSUME NEW id \in Ids, NEW request, NEW next, CarryOut(request, id, next)
      PROVE  \A k \in Ids : ctrs'[k].state = "running" => ctrs'[k] = ctrs[k]
  BY <1>4, CarryOutCtrs DEF TypeOK
<1>5. CASE \E id \in Ids : \E new : ctrs' = [ctrs EXCEPT ![id] = new] /\ new.state # "running"
  BY <1>2, <1>5
<1>. QED
  BY <1>1, <1>3, <1>4, <1>5

\* "old containers ... deleted" before the new start (the order of the loops of
\* containersync/worker.go:processOnce): when the calls that a pass trusts do
\* not fail, no step of anybody makes a second container of a target run.
THEOREM NoSecondContainer ==
    ASSUME SelfTarget = NoTarget, ~MayFail(0, "list"), ~MayFail(0, "remove")
    PROVE  Spec => OneAtATime
<1> DEFINE Alone == \A t \in Targets :
              Cardinality(Running(t)') > Cardinality(Running(t)) => Running(t) = {}
<1>1. TypeOK /\ PassInv /\ [Next]_vars => [Alone]_vars
  <2> SUFFICES ASSUME TypeOK, PassInv, Next, NEW t \in Targets,
                      Cardinality(Running(t)') > Cardinality(Running(t))
               PROVE  Running(t) = {}
    OBVIOUS
  <2>1. ~(Running(t)' \subseteq Running(t))
    <3> SUFFICES ASSUME Running(t)' \subseteq Running(t) PROVE FALSE
      OBVIOUS
    <3>1. IsFiniteSet(Running(t))
      <4>1. IsFiniteSet(Ids) /\ Running(t) \in SUBSET Ids
        BY FS_Interval DEF Ids, ContainerSyncAssumption, Running, Of, Present
      <4>. QED
        BY <4>1, FS_Subset
    <3>2. /\ Cardinality(Running(t)') <= Cardinality(Running(t))
          /\ IsFiniteSet(Running(t)')
      BY <3>1, FS_Subset
    <3>3. Cardinality(Running(t)) \in Nat /\ Cardinality(Running(t)') \in Nat
      BY <3>1, <3>2, FS_CardinalityType
    <3>. QED
      BY <3>2, <3>3
  <2>2. PICK id \in Ids : ContainerStart(0, id)
    <3> SUFFICES ASSUME \A id \in Ids : ~ContainerStart(0, id) PROVE FALSE
      OBVIOUS
    <3>1. \A id \in Ids : ctrs'[id].state = "running" => ctrs'[id] = ctrs[id]
      BY OnlyStartRuns
    <3>2. Running(t)' \subseteq Running(t)
      BY <3>1 DEF Running, Of, Present
    <3>. QED
      BY <2>1, <3>2
  <2>3. /\ ctrs[id].state # "gone"
        /\ \A other \in Ids \ {id} : ctrs'[other] = ctrs[other]
        /\ ctrs'[id].target = ctrs[id].target
    <3>1. ctrs' # ctrs
      BY <2>1 DEF Running, Of, Present
    <3>2. /\ ctrs[id].state # "gone" /\ ctrs[id] \in Ctrs /\ DOMAIN ctrs = Ids
          /\ ctrs' = [ctrs EXCEPT ![id] = [ctrs[id] EXCEPT !.state = "running"]]
      BY <2>2, <3>1 DEF ContainerStart, TypeOK, WorldOK
    <3>3. [ctrs[id] EXCEPT !.state = "running"].target = ctrs[id].target
      BY <3>2 DEF Ctrs, Absent
    <3>. QED
      BY <3>2, <3>3
  <2>4. Firm /\ Staying = Present
    BY <2>2 DEF ContainerStart, PassInv, PhaseInv, Firm, Trusted, Staying, Deleting
  <2>5. \A other \in Present : ctrs[other].target = ctrs[id].target => other = id
    BY <2>3, <2>4 DEF PassInv, OneInv, Present
  <2> SUFFICES ASSUME NEW other \in Running(t) PROVE FALSE
    OBVIOUS
  <2>6. \A k \in Running(t)' : k \in Running(t) \/ (k = id /\ ctrs[id].target = t)
    BY <2>3 DEF Running, Of, Present
  <2>7. ctrs[id].target = t => other = id
    BY <2>5 DEF Running, Of
  <2>. QED
    BY <2>1, <2>6, <2>7
<1>. QED
  BY <1>1, PassInvariant, TypeCorrect, PTL DEF OneAtATime, Spec

=============================================================================
