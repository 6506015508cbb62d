---------------------------- MODULE ServiceProofs ----------------------------
(***************************************************************************)
(* Theorems about Service, for every set of hosts, every configuration and *)
(* every mirror: the endpoints come in the order of preference, a login    *)
(* never falls back to V1 behind a registry that said it speaks V2, and    *)
(* plain HTTP is only used after HTTPS with an insecure registry.          *)
(***************************************************************************)
EXTENDS Service, SequenceTheorems, WellFoundedInduction, TLAPS

Endpoint ==
    [scheme : Schemes, host : Hosts, version : {1, 2}, mirror : BOOLEAN, skipVerify : BOOLEAN]

\* A list of one version: the mirrors, then the registry over HTTPS, and over
\* plain HTTP if it is insecure.
Ordered(list, version, secure) ==
    /\ list \in Seq(Endpoint)
    /\ \A i \in 1 .. Len(list) : list[i].version = version
    /\ \A i, j \in 1 .. Len(list) : i < j =>
          (list[j].mirror => list[i].mirror) /\ (list[i].mirror \/ list[i].scheme = "https")
    /\ \A j \in 1 .. Len(list) : ~list[j].mirror /\ list[j].scheme = "http" =>
          ~secure /\ \E i \in 1 .. Len(list) :
                        i < j /\ ~list[i].mirror /\ list[i].scheme = "https"

\* A list of both: what is preferred comes first.
Sorted(list, secure) ==
    /\ list \in Seq(Endpoint)
    /\ Preferred(list)
    /\ \A j \in 1 .. Len(list) : ~list[j].mirror /\ list[j].scheme = "http" =>
          ~secure /\ \E i \in 1 .. Len(list) :
                        /\ i < j /\ ~list[i].mirror /\ list[i].scheme = "https"
                        /\ list[i].version = list[j].version

\* What a login walks over.
Registries == LookupPushEndpoints(service, server)

RequestTo(endpoint) == <<endpoint.scheme, endpoint.version>>

-----------------------------------------------------------------------------
(* The inductive invariant.                                                   *)

PlacesOK ==
    /\ service \in {newServiceConfig(options) : options \in ServiceOptions}
    /\ server \in Hosts
    /\ phase \in ServicePhases
    /\ scheme \in Schemes
    /\ asked \subseteq Schemes \X {1, 2}

FlagsOK == foundV2 \in BOOLEAN /\ confirmedV2 \in BOOLEAN

\* The endpoints that are left are the end of the list: those before them have
\* been asked.
LeftInv ==
    \E k \in 0 .. Len(Registries) :
        /\ endpoints \in Seq(Endpoint)
        /\ Len(endpoints) = Len(Registries) - k
        /\ \A i \in 1 .. Len(endpoints) : endpoints[i] = Registries[k + i]
        /\ \A i \in 1 .. k : RequestTo(Registries[i]) \in asked

LoginInv ==
    /\ phase \in {"auth", "login"} => endpoints # <<>>
    /\ phase = "login" => Current.version = 2

\* While a V2 endpoint is tried, V1 was not: and so it stays where one spoke V2.
NewestInv ==
    /\ phase \in {"auth", "login"} /\ Current.version = 2
          => \A request \in asked : request[2] = 2
    /\ confirmedV2 => /\ phase \in {"login", "ok", "error"}
                      /\ phase = "login" => foundV2
                      /\ \A request \in asked : request[2] = 2

\* A search speaks plain HTTP after HTTPS.
SearchInv ==
    phase = "http" \/ scheme = "http" => ~IndexSecure /\ <<"https", 1>> \in asked

ServiceInv ==
    PlacesOK /\ FlagsOK /\ LeftInv /\ LoginInv /\ NewestInv /\ SearchInv /\ PlainOnlyInsecure

-----------------------------------------------------------------------------

LEMMA LeastOne ==
    ASSUME NEW S \in SUBSET Nat, S # {}
    PROVE  \E x \in S : \A y \in S : x <= y
<1> DEFINE Less == OpToRel(<, Nat)
<1>1. Less = {p \in Nat \X Nat : p[1] < p[2]}
  BY Zenon DEF OpToRel
<1>2. PICK x \in S : \A y \in S : <<y, x>> \notin Less
  BY Zenon, NatLessThanWellFounded, WFMin
<1> HIDE DEF Less
<1>3. ASSUME NEW y \in S PROVE x <= y
  <2>1. y \in Nat /\ x \in Nat
    OBVIOUS
  <2>2. ~(y < x)
    BY <1>1, <1>2, <2>1
  <2>. QED
    BY <2>1, <2>2
<1>. QED
  BY <1>3

-----------------------------------------------------------------------------
(* The lists.                                                                 *)

LEMMA DirectOrdered ==
    ASSUME NEW s, NEW host \in Hosts, NEW version \in {1, 2}
    PROVE  /\ Ordered(Direct(s, host, version), version, isSecureIndex(s, host))
           /\ \A i \in 1 .. Len(Direct(s, host, version)) : ~Direct(s, host, version)[i].mirror
<1> DEFINE list == Direct(s, host, version)
           skip == ~isSecureIndex(s, host)
           Over(how) == [scheme |-> how, host |-> host, version |-> version,
                         mirror |-> FALSE, skipVerify |-> skip]
<1>1. Over("https") \in Endpoint /\ Over("http") \in Endpoint
  BY DEF Endpoint, Schemes
<1>2. \/ list = <<>>
      \/ skip /\ list = <<Over("https"), Over("http")>>
      \/ list = <<Over("https")>>
  BY Zenon DEF Direct, TLSConfig, newTLSConfig, APIEndpoint
<1>3. CASE list = <<>>
  BY <1>3 DEF Ordered
<1>4. CASE skip /\ list = <<Over("https"), Over("http")>>
  BY <1>1, <1>4 DEF Ordered
<1>5. CASE list = <<Over("https")>>
  BY <1>1, <1>5 DEF Ordered
<1>. QED
  BY <1>2, <1>3, <1>4, <1>5

LEMMA V1Ordered ==
    ASSUME NEW s, NEW host \in Hosts
    PROVE  /\ Ordered(lookupV1Endpoints(s, host), 1, isSecureIndex(s, host))
           /\ \A i \in 1 .. Len(lookupV1Endpoints(s, host)) : ~lookupV1Endpoints(s, host)[i].mirror
<1>1. CASE host = DefaultNamespace
  <2> DEFINE one == [scheme |-> "https", host |-> DefaultV1Registry, version |-> 1,
                     mirror |-> FALSE, skipVerify |-> FALSE]
  <2>1. one \in Endpoint /\ lookupV1Endpoints(s, host) = <<one>>
    BY <1>1, EndpointsAssumption DEF lookupV1Endpoints, APIEndpoint, Endpoint, Schemes, HubHosts
  <2>. QED
    BY <2>1 DEF Ordered
<1>2. CASE host # DefaultNamespace
  BY <1>2, DirectOrdered DEF lookupV1Endpoints
<1>. QED
  BY <1>1, <1>2

LEMMA V2Ordered ==
    ASSUME NEW options \in ServiceOptions, NEW s, s = newServiceConfig(options),
           NEW host \in Hosts
    PROVE  Ordered(lookupV2Endpoints(s, host), 2, isSecureIndex(s, host))
<1>1. CASE host \in {DefaultNamespace, DefaultV1Registry}
  <2> DEFINE own   == [scheme |-> "https", host |-> DefaultV2Registry, version |-> 2,
                       mirror |-> FALSE, skipVerify |-> FALSE]
             front == [i \in DOMAIN s.mirrors |-> MirrorEndpoint(s, s.mirrors[i])]
             n     == Len(s.mirrors)
  <2>1. \/ lookupV2Endpoints(s, host) = <<>>
        \/ lookupV2Endpoints(s, host) = front \o <<own>>
    BY Zenon, <1>1 DEF lookupV2Endpoints, APIEndpoint
  <2>2. s.mirrors \in Seq([scheme : Schemes, host : Hosts])
    BY ServiceAssumption DEF newServiceConfig
  <2>3. n \in Nat /\ DOMAIN s.mirrors = 1 .. n
        /\ \A i \in 1 .. n : s.mirrors[i] \in [scheme : Schemes, host : Hosts]
    BY <2>2, LenProperties
  <2>4. ASSUME NEW mirror \in [scheme : Schemes, host : Hosts]
        PROVE  /\ MirrorEndpoint(s, mirror) \in Endpoint
               /\ MirrorEndpoint(s, mirror).version = 2
               /\ MirrorEndpoint(s, mirror).mirror
    BY DEF MirrorEndpoint, APIEndpoint, TLSConfig, newTLSConfig, Endpoint
  <2>5. own \in Endpoint
    BY EndpointsAssumption DEF Endpoint, Schemes, HubHosts
  <2>6. /\ front \in Seq(Endpoint) /\ Len(front) = n
        /\ \A i \in 1 .. n : front[i].version = 2 /\ front[i].mirror
    <3>1. front \in [1 .. n -> Endpoint]
      BY <2>3, <2>4
    <3>2. front \in Seq(Endpoint) /\ Len(front) = n
      BY <2>3, <3>1
    <3>3. \A i \in 1 .. n : front[i] = MirrorEndpoint(s, s.mirrors[i])
      BY <2>3
    <3>. QED
      BY <2>3, <2>4, <3>2, <3>3
  <2> HIDE DEF front, own
  <2>7. PICK list : list = front \o <<own>>
    OBVIOUS
  <2>8. own.version = 2 /\ own.scheme = "https"
    BY DEF own
  <2>9. /\ list \in Seq(Endpoint) /\ Len(list) = n + 1
        /\ \A i \in 1 .. n : list[i] = front[i]
        /\ list[n + 1] = own
    <3>1. <<own>> \in Seq(Endpoint) /\ Len(<<own>>) = 1 /\ <<own>>[1] = own
      BY <2>5
    <3>. QED
      BY <2>3, <2>6, <2>7, <3>1, ConcatProperties
  <2>10. Ordered(list, 2, isSecureIndex(s, host))
    <3>1. \A i \in 1 .. Len(list) : list[i].version = 2 /\ (i <= n => list[i].mirror)
                                     /\ (i = n + 1 => list[i].scheme = "https")
      BY <2>3, <2>6, <2>8, <2>9
    <3>. QED
      BY <2>3, <2>9, <3>1 DEF Ordered
  <2>11. Ordered(<<>>, 2, isSecureIndex(s, host))
    BY DEF Ordered
  <2>. QED
    BY <2>1, <2>7, <2>10, <2>11
<1>2. CASE host \notin {DefaultNamespace, DefaultV1Registry}
  BY <1>2, DirectOrdered DEF lookupV2Endpoints
<1>. QED
  BY <1>1, <1>2

LEMMA AllSorted ==
    ASSUME NEW options \in ServiceOptions, NEW s, s = newServiceConfig(options),
           NEW host \in Hosts
    PROVE  Sorted(lookupEndpoints(s, host), isSecureIndex(s, host))
<1>1. PICK current, legacy, secure :
        /\ current = lookupV2Endpoints(s, host) /\ legacy = lookupV1Endpoints(s, host)
        /\ secure = isSecureIndex(s, host)
  OBVIOUS
<1>2. Ordered(current, 2, secure)
  BY <1>1, V2Ordered
<1>3. Ordered(legacy, 1, secure) /\ \A i \in 1 .. Len(legacy) : ~legacy[i].mirror
  BY <1>1, V1Ordered
<1>4. ASSUME NEW list, NEW version, Ordered(list, version, secure), version \in {1, 2}
      PROVE  Sorted(list, secure)
  <2>1. list \in Seq(Endpoint) /\ Len(list) \in Nat /\ DOMAIN list = 1 .. Len(list)
    BY <1>4, LenProperties DEF Ordered
  <2>2. Preferred(list)
    BY <1>4, <2>1 DEF Ordered, Preferred
  <2>. QED
    BY <1>4, <2>1, <2>2 DEF Ordered, Sorted
<1>5. Sorted(<<>>, secure)
  BY DEF Sorted, Preferred
<1>6. Sorted(current \o legacy, secure)
  <2>1. PICK n, m : n = Len(current) /\ m = Len(legacy)
    OBVIOUS
  <2>2. PICK list : list = current \o legacy
    OBVIOUS
  <2>3. /\ n \in Nat /\ m \in Nat /\ Len(list) = n + m /\ DOMAIN list = 1 .. n + m
        /\ list \in Seq(Endpoint)
        /\ \A i \in 1 .. n : list[i] = current[i]
        /\ \A i \in n + 1 .. n + m : i - n \in 1 .. m /\ list[i] = legacy[i - n]
    BY <1>2, <1>3, <2>1, <2>2, ConcatProperties, LenProperties DEF Ordered
  <2>4. \A i \in 1 .. n + m : i \in 1 .. n \/ i \in n + 1 .. n + m
    BY <2>3
  <2>5. Preferred(list)
    <3>1. SUFFICES ASSUME NEW i \in 1 .. n + m, NEW j \in 1 .. n + m, i < j
                   PROVE  /\ list[i].version >= list[j].version
                          /\ list[j].mirror => list[i].mirror
                          /\ list[i].version = list[j].version /\ ~list[i].mirror
                                => <<list[i].scheme, list[j].scheme>> # <<"http", "https">>
      BY <2>3 DEF Preferred
    <3>2. CASE i \in 1 .. n /\ j \in 1 .. n
      BY <1>2, <2>1, <2>3, <3>1, <3>2 DEF Ordered
    <3>3. CASE i \in 1 .. n /\ j \in n + 1 .. n + m
      BY <1>2, <1>3, <2>1, <2>3, <3>1, <3>3 DEF Ordered
    <3>4. CASE i \in n + 1 .. n + m /\ j \in n + 1 .. n + m
      <4>1. PICK k, l : k = i - n /\ l = j - n
        OBVIOUS
      <4>2. k \in 1 .. m /\ l \in 1 .. m /\ k < l /\ list[i] = legacy[k] /\ list[j] = legacy[l]
        BY <2>3, <3>1, <3>4, <4>1
      <4>3. /\ legacy[k].version = 1 /\ legacy[l].version = 1
            /\ ~legacy[k].mirror /\ ~legacy[l].mirror /\ legacy[k].scheme = "https"
        BY <1>3, <2>1, <4>2 DEF Ordered
      <4>. QED
        BY <4>2, <4>3
    <3>. QED
      BY <2>3, <2>4, <3>1, <3>2, <3>3, <3>4
  <2>6. ASSUME NEW j \in 1 .. n + m, ~list[j].mirror, list[j].scheme = "http"
        PROVE  ~secure /\ \E i \in 1 .. n + m : /\ i < j /\ ~list[i].mirror /\ list[i].scheme = "https"
                                               /\ list[i].version = list[j].version
    <3>1. CASE j \in 1 .. n
      <4>1. ~secure /\ \E i \in 1 .. n : i < j /\ ~current[i].mirror /\ current[i].scheme = "https"
        BY <1>2, <2>1, <2>3, <2>6, <3>1 DEF Ordered
      <4>2. PICK i \in 1 .. n : i < j /\ ~current[i].mirror /\ current[i].scheme = "https"
        BY <4>1
      <4>3. i \in 1 .. n + m /\ list[i] = current[i] /\ list[i].version = 2 /\ list[j].version = 2
        BY <1>2, <2>1, <2>3, <3>1 DEF Ordered
      <4>. QED
        BY <4>1, <4>2, <4>3
    <3>2. CASE j \in n + 1 .. n + m
      <4>1. j - n \in 1 .. m /\ list[j] = legacy[j - n]
        BY <2>3, <3>2
      <4>2. ~secure /\ \E i \in 1 .. m : i < j - n /\ ~legacy[i].mirror /\ legacy[i].scheme = "https"
        BY <1>3, <2>1, <2>6, <4>1 DEF Ordered
      <4>3. PICK i \in 1 .. m : i < j - n /\ ~legacy[i].mirror /\ legacy[i].scheme = "https"
        BY <4>2
      <4>4. n + i \in n + 1 .. n + m /\ (n + i) - n = i /\ n + i < j
        BY <2>3, <4>1, <4>3
      <4>5. list[n + i] = legacy[i]
        BY <2>3, <4>4
      <4>6. list[n + i].version = 1 /\ list[j].version = 1
        BY <1>3, <2>1, <4>1, <4>5 DEF Ordered
      <4>7. n + i \in 1 .. n + m
        BY <2>3, <4>4
      <4>. QED
        BY <4>2, <4>3, <4>4, <4>5, <4>6, <4>7
    <3>. QED
      BY <2>4, <3>1, <3>2
  <2>. QED
    BY <2>2, <2>3, <2>5, <2>6 DEF Sorted
<1>7. lookupEndpoints(s, host) \in {current, <<>>, current \o legacy}
  BY Zenon, <1>1 DEF lookupEndpoints
<1>. QED
  BY <1>1, <1>2, <1>4, <1>5, <1>6, <1>7

\* Only the endpoints at the front of a list are mirrors, and they are the ones
\* that were given.
LEMMA MirrorsStay ==
    ASSUME NEW options \in ServiceOptions, NEW s, s = newServiceConfig(options),
           NEW host \in Hosts
    PROVE  MirrorsAsGiven(lookupEndpoints(s, host), s.mirrors)
<1>1. PICK current, legacy :
        current = lookupV2Endpoints(s, host) /\ legacy = lookupV1Endpoints(s, host)
  OBVIOUS
<1>2. /\ legacy \in Seq(Endpoint) /\ current \in Seq(Endpoint)
      /\ \A i \in 1 .. Len(legacy) : ~legacy[i].mirror
  BY <1>1, V1Ordered, V2Ordered DEF Ordered
<1>3. MirrorsAsGiven(current, s.mirrors)
  <2>1. CASE host \in {DefaultNamespace, DefaultV1Registry}
    <3> DEFINE own   == [scheme |-> "https", host |-> DefaultV2Registry, version |-> 2,
                         mirror |-> FALSE, skipVerify |-> FALSE]
               front == [i \in DOMAIN s.mirrors |-> MirrorEndpoint(s, s.mirrors[i])]
    <3>1. current \in {<<>>, front \o <<own>>}
      BY Zenon, <1>1, <2>1 DEF lookupV2Endpoints, APIEndpoint
    <3>2. s.mirrors \in Seq([scheme : Schemes, host : Hosts])
      BY ServiceAssumption DEF newServiceConfig
    <3>a. PICK n : n = Len(s.mirrors)
      OBVIOUS
    <3>3. /\ n \in Nat /\ DOMAIN s.mirrors = 1 .. n
          /\ \A i \in 1 .. n : s.mirrors[i] \in [scheme : Schemes, host : Hosts]
      BY <3>2, <3>a, LenProperties
    <3>4. ASSUME NEW mirror \in [scheme : Schemes, host : Hosts]
          PROVE  /\ MirrorEndpoint(s, mirror) \in Endpoint
                 /\ MirrorEndpoint(s, mirror).scheme = mirror.scheme
                 /\ MirrorEndpoint(s, mirror).host = mirror.host
      BY DEF MirrorEndpoint, APIEndpoint, TLSConfig, newTLSConfig, Endpoint
    <3>5. own \in Endpoint /\ ~own.mirror
      BY EndpointsAssumption DEF Endpoint, Schemes, HubHosts
    <3>6. /\ front \in Seq(Endpoint) /\ Len(front) = n
          /\ \A i \in 1 .. n : front[i].scheme = s.mirrors[i].scheme
                             /\ front[i].host = s.mirrors[i].host
      <4>1. front \in [1 .. n -> Endpoint]
        BY <3>3, <3>4
      <4>2. front \in Seq(Endpoint) /\ Len(front) = n
        BY <3>3, <4>1
      <4>3. \A i \in 1 .. n : front[i] = MirrorEndpoint(s, s.mirrors[i])
        BY <3>3
      <4>. QED
        BY <3>3, <3>4, <4>2, <4>3
    <3> HIDE DEF front, own
    <3>7. PICK list : list = front \o <<own>>
      OBVIOUS
    <3>8. /\ list \in Seq(Endpoint) /\ Len(list) = n + 1 /\ DOMAIN list = 1 .. n + 1
          /\ \A i \in 1 .. n : list[i] = front[i]
          /\ list[n + 1] = own
      <4>1. <<own>> \in Seq(Endpoint) /\ Len(<<own>>) = 1 /\ <<own>>[1] = own
        BY <3>5
      <4>. QED
        BY <3>3, <3>6, <3>7, <4>1, ConcatProperties, LenProperties
    <3>9. MirrorsAsGiven(list, s.mirrors)
      BY <3>3, <3>5, <3>6, <3>8 DEF MirrorsAsGiven
    <3>10. MirrorsAsGiven(<<>>, s.mirrors)
      BY DEF MirrorsAsGiven
    <3>. QED
      BY <3>1, <3>7, <3>9, <3>10
  <2>2. CASE host \notin {DefaultNamespace, DefaultV1Registry}
    <3>1. current = Direct(s, host, 2)
      BY <1>1, <2>2 DEF lookupV2Endpoints
    <3>2. \A i \in 1 .. Len(current) : ~current[i].mirror
      BY <3>1, DirectOrdered
    <3>. QED
      BY <1>2, <3>2, LenProperties DEF MirrorsAsGiven
  <2>. QED
    BY <2>1, <2>2
<1>4. MirrorsAsGiven(current \o legacy, s.mirrors)
  <2>1. PICK list, n, m : list = current \o legacy /\ n = Len(current) /\ m = Len(legacy)
    OBVIOUS
  <2>2. /\ n \in Nat /\ m \in Nat /\ DOMAIN list = 1 .. n + m /\ DOMAIN current = 1 .. n
        /\ \A i \in 1 .. n : list[i] = current[i]
        /\ \A i \in n + 1 .. n + m : i - n \in 1 .. m /\ list[i] = legacy[i - n]
    BY <1>2, <2>1, ConcatProperties, LenProperties
  <2>3. \A i \in 1 .. n + m : i \in 1 .. n \/ i \in n + 1 .. n + m
    BY <2>2
  <2>4. \A i \in n + 1 .. n + m : ~list[i].mirror
    BY <1>2, <2>1, <2>2
  <2>5. MirrorsAsGiven(list, s.mirrors)
    BY <1>3, <2>2, <2>3, <2>4 DEF MirrorsAsGiven
  <2>. QED
    BY <2>1, <2>5
<1>5. MirrorsAsGiven(<<>>, s.mirrors)
  BY DEF MirrorsAsGiven
<1>6. lookupEndpoints(s, host) \in {current, <<>>, current \o legacy}
  BY Zenon, <1>1 DEF lookupEndpoints
<1>. QED
  BY <1>3, <1>4, <1>5, <1>6

-----------------------------------------------------------------------------
(* The mirrors are left out.                                                  *)

\* One more endpoint is looked at.
Kept(list, kept, i) ==
    IF i = 0 THEN <<>>
    ELSE IF list[i].mirror THEN kept[i - 1]
    ELSE Append(kept[i - 1], list[i])

LEMMA KeptExists ==
    ASSUME NEW list, NEW n \in Nat
    PROVE  \E f : f = [i \in 0 .. n |-> Kept(list, f, i)]
<1> DEFINE Good(m) == \E f : f = [i \in 0 .. m |-> Kept(list, f, i)]
           Bad == {m \in Nat : ~Good(m)}
<1>1. Good(0)
  <2> DEFINE f == [i \in 0 .. 0 |-> <<>>]
  <2>1. f = [i \in 0 .. 0 |-> Kept(list, f, i)]
    BY DEF Kept
  <2>. QED
    BY <2>1
<1>2. ASSUME NEW m \in Nat, Good(m) PROVE Good(m + 1)
  <2>1. PICK f : f = [i \in 0 .. m |-> Kept(list, f, i)]
    BY <1>2
  <2> DEFINE g == [i \in 0 .. m + 1 |-> IF i = m + 1 THEN Kept(list, f, m + 1) ELSE f[i]]
  <2>2. ASSUME NEW i \in 0 .. m + 1 PROVE g[i] = Kept(list, g, i)
    <3>1. i # 0 => i - 1 \in 0 .. m /\ i - 1 \in 0 .. m + 1 /\ i - 1 # m + 1
      BY <1>2
    <3>2. i # 0 => g[i - 1] = f[i - 1]
      BY <3>1
    <3>3. Kept(list, g, i) = Kept(list, f, i)
      BY <3>2 DEF Kept
    <3>4. CASE i = m + 1
      BY <3>3, <3>4
    <3>5. CASE i # m + 1
      <4>1. i \in 0 .. m
        BY <1>2, <3>5
      <4>. QED
        BY <2>1, <3>3, <3>5, <4>1
    <3>. QED
      BY <3>4, <3>5
  <2>3. g = [i \in 0 .. m + 1 |-> g[i]]
    OBVIOUS
  <2>. HIDE DEF g
  <2>4. g = [i \in 0 .. m + 1 |-> Kept(list, g, i)]
    BY <2>2, <2>3
  <2>. QED
    BY <2>4
<1> HIDE DEF Good
<1>3. Bad = {}
  <2> SUFFICES ASSUME Bad # {} PROVE FALSE
    OBVIOUS
  <2>1. PICK m \in Bad : \A k \in Bad : m <= k
    BY LeastOne
  <2>2. m # 0 /\ m \in Nat
    BY <1>1, <2>1
  <2>3. m - 1 \in Nat /\ m - 1 \notin Bad /\ (m - 1) + 1 = m
    BY <2>1, <2>2
  <2>. QED
    BY <1>2, <2>1, <2>3
<1>. QED
  BY <1>3 DEF Good

\* What is kept of the first i endpoints are those at increasing places, all that
\* are no mirrors.
Picked(list, seq, i) ==
    /\ seq \in Seq(Endpoint)
    /\ \E place \in [1 .. Len(seq) -> 1 .. i] :
          /\ \A a \in 1 .. Len(seq) : seq[a] = list[place[a]] /\ ~list[place[a]].mirror
          /\ \A a, b \in 1 .. Len(seq) : a < b => place[a] < place[b]
          /\ \A k \in 1 .. i : ~list[k].mirror => \E a \in 1 .. Len(seq) : place[a] = k

LEMMA PickedNext ==
    ASSUME NEW list \in Seq(Endpoint), NEW seq, NEW i \in 1 .. Len(list),
           Picked(list, seq, i - 1)
    PROVE  Picked(list, IF list[i].mirror THEN seq ELSE Append(seq, list[i]), i)
<1>1. i \in Nat /\ i - 1 \in Nat /\ Len(list) \in Nat
      /\ \A k \in 1 .. i : k \in 1 .. i - 1 \/ k = i
  BY LenProperties
<1>2. PICK place \in [1 .. Len(seq) -> 1 .. i - 1] :
        /\ \A a \in 1 .. Len(seq) : seq[a] = list[place[a]] /\ ~list[place[a]].mirror
        /\ \A a, b \in 1 .. Len(seq) : a < b => place[a] < place[b]
        /\ \A k \in 1 .. i - 1 : ~list[k].mirror => \E a \in 1 .. Len(seq) : place[a] = k
  BY DEF Picked
<1>3. seq \in Seq(Endpoint) /\ Len(seq) \in Nat
  BY LenProperties DEF Picked
<1>4. CASE list[i].mirror
  <2>1. place \in [1 .. Len(seq) -> 1 .. i]
    BY <1>1
  <2>. QED
    BY <1>1, <1>2, <1>3, <1>4, <2>1 DEF Picked
<1>5. CASE ~list[i].mirror
  <2>1. PICK new, n : new = Append(seq, list[i]) /\ n = Len(seq)
    OBVIOUS
  <2>2. /\ new \in Seq(Endpoint) /\ Len(new) = n + 1
        /\ \A a \in 1 .. n : new[a] = seq[a]
        /\ new[n + 1] = list[i]
        /\ n \in Nat
    BY <1>3, <2>1, AppendProperties, ElementOfSeq
  <2> DEFINE at == [a \in 1 .. n + 1 |-> IF a = n + 1 THEN i ELSE place[a]]
  <2>3. at \in [1 .. n + 1 -> 1 .. i]
    <3>1. ASSUME NEW a \in 1 .. n + 1, a # n + 1 PROVE place[a] \in 1 .. i
      <4>1. a \in 1 .. n
        BY <2>2, <3>1
      <4>2. place[a] \in 1 .. i - 1
        BY <2>1, <4>1
      <4>3. \A k \in 1 .. i - 1 : k \in 1 .. i
        BY <1>1
      <4>. QED
        BY <4>2, <4>3
    <3>2. i \in 1 .. i
      BY <1>1
    <3>. QED
      BY <3>1, <3>2
  <2>4. at[n + 1] = i /\ \A a \in 1 .. n : at[a] = place[a] /\ place[a] \in 1 .. i - 1
    BY <2>1, <2>2
  <2> HIDE DEF at
  <2>5. \A a \in 1 .. n + 1 : a \in 1 .. n \/ a = n + 1
    BY <2>2
  <2>6. \A a \in 1 .. n + 1 : new[a] = list[at[a]] /\ ~list[at[a]].mirror
    BY <1>2, <1>5, <2>1, <2>2, <2>4, <2>5
  <2>7. ASSUME NEW a \in 1 .. n + 1, NEW b \in 1 .. n + 1, a < b PROVE at[a] < at[b]
    <3>1. a \in 1 .. n
      BY <2>2, <2>7
    <3>2. CASE b \in 1 .. n
      BY <1>2, <2>1, <2>4, <2>7, <3>1, <3>2
    <3>3. CASE b = n + 1
      <4>1. place[a] \in 1 .. i - 1 /\ at[a] = place[a] /\ at[b] = i
        BY <2>4, <3>1, <3>3
      <4>. QED
        BY <1>1, <4>1
    <3>. QED
      BY <2>5, <3>2, <3>3
  <2>8. ASSUME NEW k \in 1 .. i, ~list[k].mirror PROVE \E a \in 1 .. n + 1 : at[a] = k
    <3>1. CASE k = i
      <4>1. n + 1 \in 1 .. n + 1
        BY <2>2
      <4>. QED
        BY <2>4, <3>1, <4>1
    <3>2. CASE k \in 1 .. i - 1
      <4>1. PICK a \in 1 .. n : place[a] = k
        BY <1>2, <2>1, <2>8, <3>2
      <4>2. a \in 1 .. n + 1
        BY <2>2
      <4>. QED
        BY <2>4, <4>1, <4>2
    <3>. QED
      BY <1>1, <3>1, <3>2
  <2>9. Picked(list, new, i)
    <3>1. /\ \A a \in 1 .. Len(new) : new[a] = list[at[a]] /\ ~list[at[a]].mirror
          /\ \A a, b \in 1 .. Len(new) : a < b => at[a] < at[b]
          /\ \A k \in 1 .. i : ~list[k].mirror => \E a \in 1 .. Len(new) : at[a] = k
      BY <2>2, <2>6, <2>7, <2>8
    <3>2. at \in [1 .. Len(new) -> 1 .. i]
      BY <2>2, <2>3
    <3>. QED
      BY Zenon, <2>2, <3>1, <3>2 DEF Picked
  <2>. QED
    BY <1>5, <2>1, <2>9
<1>. QED
  BY <1>4, <1>5

LEMMA PushPicked ==
    ASSUME NEW s, NEW host, lookupEndpoints(s, host) \in Seq(Endpoint)
    PROVE  Picked(lookupEndpoints(s, host), LookupPushEndpoints(s, host),
                  Len(lookupEndpoints(s, host)))
<1>1. PICK list, n : list = lookupEndpoints(s, host) /\ n = Len(list)
  OBVIOUS
<1>2. n \in Nat /\ list \in Seq(Endpoint)
  BY <1>1, LenProperties
<1> DEFINE kept == CHOOSE f : f = [i \in 0 .. n |-> Kept(list, f, i)]
           Bad  == {i \in 0 .. n : ~Picked(list, kept[i], i)}
<1>3. LookupPushEndpoints(s, host) = kept[n]
  BY Zenon, <1>1 DEF LookupPushEndpoints, Kept
<1>4. kept = [i \in 0 .. n |-> Kept(list, kept, i)]
  BY Zenon, <1>2, KeptExists
<1> HIDE DEF kept
<1>5. Picked(list, kept[0], 0)
  <2>1. kept[0] = <<>>
    BY <1>2, <1>4 DEF Kept
  <2>2. <<>> \in [1 .. 0 -> 1 .. 0] /\ Len(<<>>) = 0 /\ <<>> \in Seq(Endpoint)
    OBVIOUS
  <2>3. 1 .. 0 = {}
    OBVIOUS
  <2>4. Picked(list, <<>>, 0)
    <3>1. PICK place \in [1 .. 0 -> 1 .. 0] : TRUE
      BY <2>2
    <3>. QED
      BY <2>2, <2>3, <3>1 DEF Picked
  <2>. QED
    BY <2>1, <2>4
<1>6. Bad = {}
  <2> SUFFICES ASSUME Bad # {} PROVE FALSE
    OBVIOUS
  <2>0. Bad \in SUBSET Nat
    BY <1>2
  <2>1. PICK i \in Bad : \A k \in Bad : i <= k
    BY <2>0, LeastOne
  <2>2. i # 0 /\ i \in 0 .. n
    BY <1>5, <2>1
  <2>3. i \in 1 .. n /\ i - 1 \in 0 .. n /\ i - 1 \notin Bad
    BY <1>2, <2>1, <2>2
  <2>4. Picked(list, kept[i - 1], i - 1)
    BY <2>3
  <2>5. kept[i] = IF list[i].mirror THEN kept[i - 1] ELSE Append(kept[i - 1], list[i])
    BY <1>4, <2>2 DEF Kept
  <2>6. Picked(list, kept[i], i)
    BY <1>1, <1>2, <2>3, <2>4, <2>5, PickedNext
  <2>. QED
    BY <2>1, <2>6
<1>. QED
  BY <1>1, <1>2, <1>3, <1>6

\* What is preferred comes first for a login, too.
LEMMA PushSorted ==
    ASSUME NEW options \in ServiceOptions, NEW s, s = newServiceConfig(options),
           NEW host \in Hosts
    PROVE  /\ Sorted(LookupPushEndpoints(s, host), isSecureIndex(s, host))
           /\ \A i \in 1 .. Len(LookupPushEndpoints(s, host)) :
                 ~LookupPushEndpoints(s, host)[i].mirror
<1>1. PICK list, seq, secure :
        /\ list = lookupEndpoints(s, host) /\ seq = LookupPushEndpoints(s, host)
        /\ secure = isSecureIndex(s, host)
  OBVIOUS
<1>2. Sorted(list, secure)
  BY <1>1, AllSorted
<1>3. Picked(list, seq, Len(list))
  BY <1>1, <1>2, PushPicked DEF Sorted
<1>4. seq \in Seq(Endpoint) /\ DOMAIN seq = 1 .. Len(seq) /\ DOMAIN list = 1 .. Len(list)
      /\ list \in Seq(Endpoint) /\ Len(seq) \in Nat
  BY <1>2, <1>3, LenProperties DEF Picked, Sorted
<1>5. PICK place \in [1 .. Len(seq) -> 1 .. Len(list)] :
          /\ \A a \in 1 .. Len(seq) : seq[a] = list[place[a]] /\ ~list[place[a]].mirror
          /\ \A a, b \in 1 .. Len(seq) : a < b => place[a] < place[b]
          /\ \A k \in 1 .. Len(list) : ~list[k].mirror => \E a \in 1 .. Len(seq) : place[a] = k
  BY <1>3 DEF Picked
<1>6. Preferred(seq)
  BY <1>2, <1>4, <1>5 DEF Preferred, Sorted
<1>7. ASSUME NEW j \in 1 .. Len(seq), seq[j].scheme = "http"
      PROVE  ~secure /\ \E i \in 1 .. Len(seq) :
                /\ i < j /\ ~seq[i].mirror /\ seq[i].scheme = "https"
                /\ seq[i].version = seq[j].version
  <2>1. place[j] \in 1 .. Len(list) /\ list[place[j]].scheme = "http" /\ ~list[place[j]].mirror
    BY <1>5, <1>7
  <2>2. ~secure /\ \E k \in 1 .. Len(list) :
                        /\ k < place[j] /\ ~list[k].mirror /\ list[k].scheme = "https"
                        /\ list[k].version = list[place[j]].version
    BY <1>2, <2>1 DEF Sorted
  <2>3. PICK k \in 1 .. Len(list) :
            /\ k < place[j] /\ ~list[k].mirror /\ list[k].scheme = "https"
            /\ list[k].version = list[place[j]].version
    BY <2>2
  <2>4. PICK i \in 1 .. Len(seq) : place[i] = k
    BY <1>5, <2>3
  <2>5. i < j
    <3>1. CASE i = j
      BY <2>1, <2>3, <2>4, <3>1
    <3>2. CASE j < i
      <4>1. place[j] < place[i]
        BY <1>5, <3>2
      <4>. QED
        BY <2>1, <2>3, <2>4, <4>1
    <3>. QED
      BY <1>4, <3>1, <3>2
  <2>. QED
    BY <1>5, <2>2, <2>3, <2>4, <2>5
<1>. QED
  BY <1>1, <1>4, <1>5, <1>6, <1>7 DEF Sorted

-----------------------------------------------------------------------------
(* What a step finds.                                                         *)

LEMMA RegistriesSorted ==
    ASSUME PlacesOK
    PROVE  /\ Sorted(Registries, IndexSecure)
           /\ \A i \in 1 .. Len(Registries) : ~Registries[i].mirror
           /\ Registries \in Seq(Endpoint) /\ Len(Registries) \in Nat
<1>1. PICK options \in ServiceOptions : service = newServiceConfig(options)
  BY DEF PlacesOK
<1>2. /\ Sorted(Registries, IndexSecure)
      /\ \A i \in 1 .. Len(Registries) : ~Registries[i].mirror
  BY <1>1, PushSorted DEF PlacesOK, Registries, IndexSecure
<1>3. Registries \in Seq(Endpoint)
  BY <1>2 DEF Sorted
<1>. QED
  BY <1>2, <1>3, LenProperties

\* Before an endpoint is asked over plain HTTP, HTTPS was tried in its version.
LEMMA CurrentFacts ==
    ASSUME ServiceInv, endpoints # <<>>
    PROVE  /\ Current \in Endpoint
           /\ Current.scheme = "http"
                 => ~IndexSecure /\ <<"https", Current.version>> \in asked
<1>1. PICK k \in 0 .. Len(Registries) :
        /\ endpoints \in Seq(Endpoint)
        /\ Len(endpoints) = Len(Registries) - k
        /\ \A i \in 1 .. Len(endpoints) : endpoints[i] = Registries[k + i]
        /\ \A i \in 1 .. k : RequestTo(Registries[i]) \in asked
  BY DEF ServiceInv, LeftInv
<1>2. PICK list, secure : list = Registries /\ secure = IndexSecure
  OBVIOUS
<1>3. /\ Sorted(list, secure)
      /\ list \in Seq(Endpoint) /\ Len(list) \in Nat
      /\ \A i \in 1 .. Len(list) : ~list[i].mirror
  BY <1>2, RegistriesSorted DEF ServiceInv
<1>4. Len(endpoints) \in Nat /\ Len(endpoints) # 0
  BY <1>1, EmptySeq, LenProperties
<1>5. 1 \in 1 .. Len(endpoints) /\ k + 1 \in 1 .. Len(list)
  BY <1>1, <1>2, <1>3, <1>4
<1>6. Current = list[k + 1] /\ Current \in Endpoint
  BY <1>1, <1>2, <1>3, <1>5, ElementOfSeq DEF Current
<1>7. ASSUME Current.scheme = "http"
      PROVE  ~secure /\ <<"https", Current.version>> \in asked
  <2>1. ~secure /\ \E i \in 1 .. Len(list) :
            i < k + 1 /\ list[i].scheme = "https" /\ list[i].version = Current.version
    BY <1>3, <1>5, <1>6, <1>7 DEF Sorted
  <2>2. PICK i \in 1 .. Len(list) :
            i < k + 1 /\ list[i].scheme = "https" /\ list[i].version = Current.version
    BY <2>1
  <2>3. i \in 1 .. k
    BY <1>1, <1>3, <2>2
  <2>. QED
    BY <1>1, <1>2, <2>1, <2>2, <2>3 DEF RequestTo
<1>. QED
  BY <1>2, <1>6, <1>7

LEMMA LeftKept ==
    ASSUME ServiceInv, UNCHANGED <<service, server, endpoints>>, asked \subseteq asked'
    PROVE  LeftInv'
BY DEF ServiceInv, LeftInv, Registries

\* The next endpoint is one more of the list, and of no later version.
LEMMA LeftNext ==
    ASSUME ServiceInv, endpoints # <<>>, UNCHANGED <<service, server>>,
           endpoints' = Tail(endpoints), asked' = asked \cup {RequestTo(Current)}
    PROVE  /\ LeftInv'
           /\ Len(endpoints) > 1 => endpoints' # <<>> /\ Current.version >= Current'.version
<1>1. PICK k \in 0 .. Len(Registries) :
        /\ endpoints \in Seq(Endpoint)
        /\ Len(endpoints) = Len(Registries) - k
        /\ \A i \in 1 .. Len(endpoints) : endpoints[i] = Registries[k + i]
        /\ \A i \in 1 .. k : RequestTo(Registries[i]) \in asked
  BY DEF ServiceInv, LeftInv
<1>2. PICK list, secure : list = Registries /\ secure = IndexSecure
  OBVIOUS
<1>3. Sorted(list, secure) /\ list \in Seq(Endpoint) /\ Len(list) \in Nat
      /\ DOMAIN list = 1 .. Len(list)
  BY <1>2, RegistriesSorted, LenProperties DEF ServiceInv
<1>4. Len(endpoints) \in Nat /\ Len(endpoints) # 0
  BY <1>1, EmptySeq, LenProperties
<1>5. PICK rest : /\ rest = endpoints' /\ rest \in Seq(Endpoint)
                  /\ Len(rest) = Len(endpoints) - 1
                  /\ \A i \in 1 .. Len(rest) : rest[i] = endpoints[i + 1]
  <2>1. PICK rest : rest = Tail(endpoints)
    OBVIOUS
  <2>2. /\ rest \in Seq(Endpoint) /\ Len(rest) = Len(endpoints) - 1
        /\ \A i \in 1 .. Len(rest) : rest[i] = endpoints[i + 1]
    BY <1>1, <2>1, HeadTailProperties
  <2>. QED
    BY <2>1, <2>2
<1>6. k + 1 \in 0 .. Len(list) /\ Len(rest) = Len(list) - (k + 1)
  BY <1>1, <1>2, <1>3, <1>4, <1>5
<1>7. ASSUME NEW i \in 1 .. Len(rest) PROVE rest[i] = list[(k + 1) + i]
  <2>1. i + 1 \in 1 .. Len(endpoints) /\ k + (i + 1) = (k + 1) + i
    BY <1>4, <1>5
  <2>. QED
    BY <1>1, <1>2, <1>5, <2>1
<1>8. Current = list[k + 1]
  BY <1>1, <1>2, <1>4 DEF Current
<1>9. ASSUME NEW i \in 1 .. k + 1 PROVE RequestTo(list[i]) \in asked'
  <2>1. i \in 1 .. k \/ i = k + 1
    BY <1>1, <1>3
  <2>. QED
    BY <1>1, <1>2, <1>8, <2>1
<1>10. Registries' = list
  BY <1>2 DEF Registries
<1>11. LeftInv'
  <2>1. PICK m : m = k + 1
    OBVIOUS
  <2>2. /\ m \in 0 .. Len(list) /\ Len(rest) = Len(list) - m
        /\ \A i \in 1 .. Len(rest) : rest[i] = list[m + i]
        /\ \A i \in 1 .. m : RequestTo(list[i]) \in asked'
    BY <1>6, <1>7, <1>9, <2>1
  <2>. QED
    BY <1>5, <1>10, <2>2 DEF LeftInv, RequestTo
<1>12. ASSUME Len(endpoints) > 1 PROVE endpoints' # <<>> /\ Current.version >= Current'.version
  <2>1. Len(rest) > 0 /\ 1 \in 1 .. Len(rest) /\ (k + 1) + 1 = k + 2
        /\ k + 1 \in 1 .. Len(list) /\ k + 2 \in 1 .. Len(list) /\ k + 1 < k + 2
    BY <1>4, <1>5, <1>6, <1>12
  <2>2. rest[1] = list[k + 2]
    BY <1>7, <2>1
  <2>3. list[k + 1].version >= list[k + 2].version
    BY <1>3, <2>1 DEF Sorted, Preferred
  <2>4. rest # <<>>
    BY <2>1
  <2>5. Current' = rest[1]
    BY <1>5 DEF Current
  <2>. QED
    BY <1>5, <1>8, <2>2, <2>3, <2>4, <2>5
<1>. QED
  BY <1>11, <1>12

-----------------------------------------------------------------------------
(* Every step keeps the invariant.                                            *)

LEMMA InitService == ServiceInit => ServiceInv
<1> SUFFICES ASSUME ServiceInit PROVE ServiceInv
  OBVIOUS
<1>1. PlacesOK
  BY DEF ServiceInit, PlacesOK, ServicePhases, Schemes
<1>2. FlagsOK
  BY DEF ServiceInit, FlagsOK
<1>3. LeftInv
  <2>1. Registries \in Seq(Endpoint) /\ Len(Registries) \in Nat /\ endpoints = Registries
    BY <1>1, RegistriesSorted DEF ServiceInit, Registries
  <2>2. PICK k \in 0 .. Len(Registries) :
          /\ Len(endpoints) = Len(Registries) - k
          /\ \A i \in 1 .. Len(endpoints) : endpoints[i] = Registries[k + i]
          /\ 1 .. k = {}
    <3>1. \E k \in 0 .. Len(Registries) : k = 0
      BY <2>1
    <3>. QED
      BY <2>1, <3>1
  <2>. QED
    BY <2>1, <2>2 DEF LeftInv
<1>4. LoginInv /\ NewestInv /\ SearchInv /\ PlainOnlyInsecure
  BY DEF ServiceInit, LoginInv, NewestInv, SearchInv, PlainOnlyInsecure
<1>. QED
  BY <1>1, <1>2, <1>3, <1>4 DEF ServiceInv

\* A request of a login, and what comes of it.
LEMMA KeptByLogin ==
    ASSUME ServiceInv, phase \in {"auth", "login"},
           UNCHANGED <<service, server, scheme>>, FlagsOK',
           Ask(Current.scheme, Current.version),
           \/ endpoints' = endpoints /\ phase' \in {"ok", "error"}
           \/ endpoints' = endpoints /\ phase' = "login" /\ Current.version = 2
           \/ /\ endpoints' = Tail(endpoints)
              /\ phase' = IF Len(endpoints) > 1 THEN "auth" ELSE "error",
           confirmedV2' => /\ Current.version = 2
                           /\ phase' \in {"login", "ok", "error"}
                           /\ phase' = "login" => foundV2'
    PROVE  ServiceInv'
<1>1. endpoints # <<>> /\ asked' = asked \cup {RequestTo(Current)}
  BY DEF ServiceInv, LoginInv, Ask, RequestTo
<1>2. /\ Current \in Endpoint
      /\ Current.scheme = "http" => ~IndexSecure /\ <<"https", Current.version>> \in asked
  BY <1>1, CurrentFacts
<1>3. Current.scheme \in Schemes /\ Current.version \in {1, 2}
  BY <1>2 DEF Endpoint
<1>4. PlacesOK'
  BY <1>1, <1>3 DEF ServiceInv, PlacesOK, ServicePhases, RequestTo
<1>5. IndexSecure' = IndexSecure
  BY DEF IndexSecure
<1>6. PlainOnlyInsecure'
  BY <1>1, <1>2, <1>5 DEF ServiceInv, PlainOnlyInsecure, RequestTo
<1>7. SearchInv'
  <2>1. phase' # "http"
    BY DEF ServiceInv
  <2>. QED
    BY <1>1, <1>5, <2>1 DEF ServiceInv, SearchInv
<1>8. ASSUME Current.version = 2 PROVE \A request \in asked' : request[2] = 2
  BY <1>1, <1>8 DEF ServiceInv, NewestInv, RequestTo
<1>9. CASE endpoints' = endpoints
  <2>1. Current' = Current
    BY <1>9 DEF Current
  <2>2. LeftInv'
    BY <1>1, <1>9, LeftKept
  <2>3. CASE phase' = "login" /\ Current.version = 2
    BY <1>1, <1>4, <1>6, <1>7, <1>8, <1>9, <2>1, <2>2, <2>3 DEF ServiceInv, LoginInv, NewestInv
  <2>4. CASE phase' \in {"ok", "error"}
    <3>1. LoginInv' /\ NewestInv'
      BY <1>8, <2>4 DEF LoginInv, NewestInv
    <3>. QED
      BY <1>4, <1>6, <1>7, <2>2, <3>1 DEF ServiceInv
  <2>5. CASE /\ endpoints' = Tail(endpoints)
             /\ phase' = IF Len(endpoints) > 1 THEN "auth" ELSE "error"
    <3>1. endpoints \in Seq(Endpoint)
      BY DEF ServiceInv, LeftInv
    <3>2. Len(Tail(endpoints)) = Len(endpoints) - 1 /\ Len(endpoints) \in Nat
      BY <1>1, <3>1, HeadTailProperties, LenProperties
    <3>. QED
      BY <1>9, <2>5, <3>2
  <2>. QED
    BY <2>3, <2>4, <2>5
<1>10. CASE /\ endpoints' = Tail(endpoints)
            /\ phase' = IF Len(endpoints) > 1 THEN "auth" ELSE "error"
  <2>1. /\ LeftInv'
        /\ Len(endpoints) > 1 => endpoints' # <<>> /\ Current.version >= Current'.version
    BY <1>1, <1>10, LeftNext
  <2>2. ASSUME phase' = "auth" PROVE endpoints' # <<>> /\ (Current'.version = 2 => Current.version = 2)
    <3>1. endpoints' # <<>> /\ Current.version >= Current'.version
      BY <1>10, <2>1, <2>2
    <3>. QED
      BY <1>3, <3>1
  <2>3. phase' \in {"auth", "error"}
    BY <1>10
  <2>4. LoginInv' /\ NewestInv'
    BY <1>8, <2>2, <2>3 DEF LoginInv, NewestInv
  <2>. QED
    BY <1>4, <1>6, <1>7, <2>1, <2>4 DEF ServiceInv
<1>. QED
  BY <1>9, <1>10

LEMMA KeptByPingV2Registry == ServiceInv /\ PingV2Registry => ServiceInv'
<1> SUFFICES ASSUME ServiceInv, PingV2Registry PROVE ServiceInv'
  OBVIOUS
<1>1. phase = "auth" /\ Current.version = 2 /\ Ask(Current.scheme, Current.version)
      /\ UNCHANGED <<service, server, scheme>>
  BY DEF PingV2Registry
<1>2. confirmedV2 = FALSE
  BY Zenon, <1>1 DEF ServiceInv, NewestInv, FlagsOK
<1>3. CASE \E found \in BOOLEAN :
             /\ foundV2' = found /\ confirmedV2' = (confirmedV2 \/ found)
             /\ phase' = "login" /\ UNCHANGED endpoints
  <2>1. PICK found \in BOOLEAN :
          foundV2' = found /\ confirmedV2' = (confirmedV2 \/ found) /\ phase' = "login"
    BY <1>3
  <2>2. FlagsOK'
    BY Zenon, <2>1 DEF FlagsOK
  <2>3. confirmedV2' => foundV2'
    BY Zenon, <1>2, <2>1
  <2>. QED
    BY <1>1, <1>3, <2>2, <2>3, KeptByLogin
<1>4. CASE \E found \in BOOLEAN :
             /\ confirmedV2' = (confirmedV2 \/ found)
             /\ NextEndpoint(~found) /\ UNCHANGED foundV2
  <2>1. FlagsOK'
    BY Zenon, <1>4 DEF ServiceInv, FlagsOK
  <2>2. PICK found \in BOOLEAN : /\ confirmedV2' = (confirmedV2 \/ found)
                                 /\ NextEndpoint(~found)
    BY <1>4
  <2>3. CASE found
    <3>1. phase' = "error" /\ endpoints' = endpoints
      BY <2>2, <2>3 DEF NextEndpoint
    <3>. QED
      BY <1>1, <2>1, <3>1, KeptByLogin
  <2>4. CASE ~found
    <3>1. ~confirmedV2'
      BY Zenon, <1>2, <2>2, <2>4
    <3>2. /\ endpoints' = Tail(endpoints)
          /\ phase' = IF Len(endpoints) > 1 THEN "auth" ELSE "error"
      BY <2>2, <2>4 DEF NextEndpoint
    <3>. QED
      BY <1>1, <2>1, <3>1, <3>2, KeptByLogin
  <2>. QED
    BY <2>3, <2>4
<1>. QED
  BY <1>3, <1>4 DEF PingV2Registry

\* A login that found V2 does not go on to another endpoint.
LEMMA KeptByLoginV2 == ServiceInv /\ LoginV2 => ServiceInv'
<1> SUFFICES ASSUME ServiceInv, LoginV2 PROVE ServiceInv'
  OBVIOUS
<1>1. phase = "login" /\ Current.version = 2 /\ Ask(Current.scheme, Current.version)
      /\ UNCHANGED <<service, server, scheme>>
  BY DEF LoginV2, ServiceInv, LoginInv
<1>2. FlagsOK'
  BY Zenon DEF LoginV2, ServiceInv, FlagsOK
<1>3. confirmedV2' => foundV2
  BY Zenon, <1>1 DEF LoginV2, ServiceInv, NewestInv
<1>4. CASE phase' = "ok" /\ UNCHANGED endpoints
  BY <1>1, <1>2, <1>4, KeptByLogin
<1>5. CASE NextEndpoint(~foundV2)
  <2>1. CASE foundV2
    <3>1. phase' = "error" /\ endpoints' = endpoints
      BY <1>5, <2>1 DEF NextEndpoint
    <3>. QED
      BY <1>1, <1>2, <3>1, KeptByLogin
  <2>2. CASE ~foundV2
    <3>1. /\ endpoints' = Tail(endpoints)
          /\ phase' = IF Len(endpoints) > 1 THEN "auth" ELSE "error"
      BY <1>5, <2>2 DEF NextEndpoint
    <3>. QED
      BY <1>1, <1>2, <1>3, <2>2, <3>1, KeptByLogin
  <2>. QED
    BY <2>1, <2>2
<1>. QED
  BY <1>4, <1>5 DEF LoginV2

LEMMA KeptByLoginV1 == ServiceInv /\ LoginV1 => ServiceInv'
<1> SUFFICES ASSUME ServiceInv, LoginV1 PROVE ServiceInv'
  OBVIOUS
<1>1. phase = "auth" /\ Ask(Current.scheme, Current.version)
      /\ UNCHANGED <<service, server, scheme>>
  BY DEF LoginV1
<1>2. FlagsOK'
  BY Zenon DEF LoginV1, ServiceInv, FlagsOK
<1>3. ~confirmedV2'
  BY Zenon, <1>1 DEF LoginV1, ServiceInv, NewestInv
<1>4. \/ endpoints' = endpoints /\ phase' \in {"ok", "error"}
      \/ /\ endpoints' = Tail(endpoints)
         /\ phase' = IF Len(endpoints) > 1 THEN "auth" ELSE "error"
  BY DEF LoginV1, NextEndpoint
<1>. QED
  BY <1>1, <1>2, <1>3, <1>4, KeptByLogin

\* A request of a search.
LEMMA KeptBySearch ==
    ASSUME ServiceInv, phase \in {"https", "http", "session", "search"},
           UNCHANGED <<service, server, endpoints, foundV2, confirmedV2>>,
           phase' \in {"http", "session", "search", "ok", "error"},
           scheme' \in Schemes, SearchInv',
           asked' = asked \/ asked' = asked \cup {<<scheme', 1>>}
    PROVE  ServiceInv'
<1>1. PlacesOK'
  BY DEF ServiceInv, PlacesOK, ServicePhases
<1>2. FlagsOK'
  BY Zenon DEF ServiceInv, FlagsOK
<1>3. asked \subseteq asked'
  OBVIOUS
<1>4. LeftInv'
  BY <1>3, LeftKept
<1>5. ~confirmedV2
  BY DEF ServiceInv, NewestInv
<1>6. LoginInv' /\ NewestInv'
  BY <1>5 DEF LoginInv, NewestInv
<1>7. IndexSecure' = IndexSecure
  BY DEF IndexSecure
<1>8. PlainOnlyInsecure'
  BY <1>3, <1>7 DEF ServiceInv, PlainOnlyInsecure, SearchInv
<1>. QED
  BY <1>1, <1>2, <1>4, <1>6, <1>8 DEF ServiceInv

\* Plain HTTP comes after HTTPS failed, and only where the index is insecure.
LEMMA KeptByValidateHTTPS == ServiceInv /\ ValidateHTTPS => ServiceInv'
<1> SUFFICES ASSUME ServiceInv, ValidateHTTPS PROVE ServiceInv'
  OBVIOUS
<1>1. IndexSecure' = IndexSecure
  BY DEF ValidateHTTPS, IndexSecure
<1>2. SearchInv'
  BY <1>1 DEF ValidateHTTPS, Ping, Ask, SearchInv
<1>3. asked' = asked \/ asked' = asked \cup {<<scheme', 1>>}
  BY DEF ValidateHTTPS, Ping, Ask
<1>4. phase' \in {"http", "session", "error"}
  BY DEF ValidateHTTPS
<1>. QED
  BY <1>2, <1>3, <1>4, KeptBySearch DEF ValidateHTTPS, Schemes

LEMMA KeptByValidateHTTP == ServiceInv /\ ValidateHTTP => ServiceInv'
<1> SUFFICES ASSUME ServiceInv, ValidateHTTP PROVE ServiceInv'
  OBVIOUS
<1>1. IndexSecure' = IndexSecure
  BY DEF ValidateHTTP, IndexSecure
<1>2. asked' = asked \/ asked' = asked \cup {<<scheme', 1>>}
  BY DEF ValidateHTTP, Ping, Ask
<1>3. SearchInv'
  BY <1>1, <1>2 DEF ServiceInv, ValidateHTTP, SearchInv
<1>. QED
  BY <1>2, <1>3, KeptBySearch DEF ValidateHTTP, Schemes

LEMMA KeptByOpenSession == ServiceInv /\ OpenSession => ServiceInv'
<1> SUFFICES ASSUME ServiceInv, OpenSession PROVE ServiceInv'
  OBVIOUS
<1>1. IndexSecure' = IndexSecure
  BY DEF OpenSession, IndexSecure
<1>2. asked' = asked \/ asked' = asked \cup {<<scheme', 1>>}
  BY DEF OpenSession, Ask
<1>3. phase' \in {"search", "error"}
  BY DEF OpenSession
<1>4. SearchInv'
  BY <1>1, <1>2, <1>3 DEF ServiceInv, OpenSession, SearchInv
<1>5. scheme' \in Schemes
  BY DEF ServiceInv, PlacesOK, OpenSession
<1>. QED
  BY <1>2, <1>3, <1>4, <1>5, KeptBySearch DEF OpenSession

LEMMA KeptBySearchRepositories == ServiceInv /\ SearchRepositories => ServiceInv'
<1> SUFFICES ASSUME ServiceInv, SearchRepositories PROVE ServiceInv'
  OBVIOUS
<1>1. IndexSecure' = IndexSecure
  BY DEF SearchRepositories, IndexSecure
<1>2. asked' = asked \cup {<<scheme', 1>>} /\ phase' \in {"ok", "error"}
  BY DEF SearchRepositories, Ask, Verdicts
<1>3. SearchInv'
  BY <1>1, <1>2 DEF ServiceInv, SearchRepositories, SearchInv
<1>4. scheme' \in Schemes
  BY DEF ServiceInv, PlacesOK, SearchRepositories
<1>. QED
  BY <1>2, <1>3, <1>4, KeptBySearch DEF SearchRepositories

\* ServiceInv is inductive.
LEMMA ServiceInductive == ServiceSpec => []ServiceInv
<1>1. ASSUME ServiceInv, [ServiceNext]_serviceVars PROVE ServiceInv'
  <2>1. CASE UNCHANGED serviceVars
    <3>1. UNCHANGED <<service, server, phase, endpoints, foundV2, scheme, asked, confirmedV2>>
      BY <2>1 DEF serviceVars
    <3>2. FlagsOK'
      BY Zenon, <1>1, <3>1 DEF ServiceInv, FlagsOK
    <3>3. LeftInv'
      BY <1>1, <3>1, LeftKept
    <3>. QED
      BY <1>1, <3>1, <3>2, <3>3
      DEF ServiceInv, PlacesOK, LoginInv, NewestInv, SearchInv, PlainOnlyInsecure,
          Current, IndexSecure
  <2>. QED
    BY <1>1, <2>1, KeptByPingV2Registry, KeptByLoginV2, KeptByLoginV1, KeptByValidateHTTPS,
       KeptByValidateHTTP, KeptByOpenSession, KeptBySearchRepositories
    DEF ServiceNext
<1>. QED
  BY <1>1, InitService, PTL DEF ServiceSpec

-----------------------------------------------------------------------------
(* Theorems.                                                                  *)

\* Type correctness of a service's tasks: a login always has an endpoint to log
\* in to, and speaks V2 to one of version 2 (service.go:38-75, auth.go:105-169).
THEOREM ServiceTypeCorrect == ServiceSpec => []ServiceTypeOK
<1>1. ASSUME ServiceInv PROVE ServiceTypeOK
  <2>1. foundV2 \in BOOLEAN /\ confirmedV2 \in BOOLEAN
    BY Zenon, <1>1 DEF ServiceInv, FlagsOK
  <2>. QED
    BY <1>1, <2>1 DEF ServiceInv, PlacesOK, LoginInv, ServiceTypeOK
<1>2. ServiceInv => ServiceTypeOK
  BY <1>1
<1>. QED
  BY <1>2, ServiceInductive, PTL

\* Once an endpoint said that it speaks V2 the login ends there: endpoints come
\* in the order of their versions and its rejection is no fallback (auth.go:105-169,
\* 218-262, service.go:56-75).
THEOREM NoFallbackFromV2 == ServiceSpec => []NoV1AfterV2
<1>1. ServiceInv => NoV1AfterV2
  BY DEF ServiceInv, NewestInv, NoV1AfterV2
<1>. QED
  BY <1>1, ServiceInductive, PTL

\* Plain HTTP is spoken to insecure registries alone, and after HTTPS, in a login
\* (service_v1.go, service_v2.go) as in a search (endpoint_v1.go:43-68).
THEOREM PlainIsLastResort == ServiceSpec => []PlainOnlyInsecure
<1>1. ServiceInv => PlainOnlyInsecure
  BY DEF ServiceInv
<1>. QED
  BY <1>1, ServiceInductive, PTL

\* Whatever the networks and the certificates, V2 comes before V1, the mirrors
\* before the registry and in the user's order whatever their schemes, HTTPS
\* before plain HTTP for the registry itself; and a login meets no mirror
\* (service.go:166-205, service_v2.go:12-76).
THEOREM EndpointsAreOrdered == ServiceSpec => []EndpointsInOrder
<1>1. ASSUME ServiceInv PROVE EndpointsInOrder
  <2>1. PICK options \in ServiceOptions : service = newServiceConfig(options)
    BY <1>1 DEF ServiceInv, PlacesOK
  <2>2. Preferred(LookupPullEndpoints(service, server))
    BY <1>1, <2>1, AllSorted DEF ServiceInv, PlacesOK, Sorted, LookupPullEndpoints
  <2>6. MirrorsAsGiven(LookupPullEndpoints(service, server), service.mirrors)
    BY <1>1, <2>1, MirrorsStay DEF ServiceInv, PlacesOK, LookupPullEndpoints
  <2>3. /\ Preferred(LookupPushEndpoints(service, server))
        /\ \A i \in 1 .. Len(Registries) : ~Registries[i].mirror
        /\ Len(Registries) \in Nat
    BY <1>1, RegistriesSorted DEF ServiceInv, Sorted, Registries
  <2>4. PICK k \in 0 .. Len(Registries) :
          /\ endpoints \in Seq(Endpoint)
          /\ Len(endpoints) = Len(Registries) - k
          /\ \A i \in 1 .. Len(endpoints) : endpoints[i] = Registries[k + i]
    BY <1>1 DEF ServiceInv, LeftInv
  <2>5. ASSUME NEW i \in DOMAIN endpoints PROVE ~endpoints[i].mirror
    <3>1. i \in 1 .. Len(endpoints)
      BY <2>4, LenProperties
    <3>2. k + i \in 1 .. Len(Registries)
      BY <2>3, <2>4, <3>1
    <3>. QED
      BY <2>3, <2>4, <3>1, <3>2
  <2>. QED
    BY <2>2, <2>3, <2>5, <2>6 DEF EndpointsInOrder
<1>2. ServiceInv => EndpointsInOrder
  BY <1>1
<1>. QED
  BY <1>2, ServiceInductive, PTL

=============================================================================
