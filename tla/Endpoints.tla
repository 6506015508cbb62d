------------------------------ MODULE Endpoints ------------------------------
(***************************************************************************)
(* Which endpoints of a registry are tried, in which order and with which  *)
(* transport security (pkg/registry: config.go, service.go, service_v1.go, *)
(* service_v2.go, registry.go).  There is no state here: a service is made *)
(* from its options and answers questions.                                 *)
(*                                                                         *)
(* A host is a name, with its port where it has one.  What the resolver    *)
(* says of it is the set of networks its addresses lie in.                 *)
(***************************************************************************)
EXTENDS Naturals, Sequences

CONSTANTS
    Hosts,      \* hosts of registries, Docker Hub's among them
    Nets,       \* networks in CIDR notation
    NetsOf,     \* the networks that hold an address of the host
    CertFiles   \* the files in the host's certificate directory

DefaultNamespace  == "docker.io"
IndexName         == "docker.io"
DefaultV1Registry == "index.docker.io"
DefaultV2Registry == "registry-1.docker.io"
Loopback          == "127.0.0.0/8"

HubHosts  == {DefaultNamespace, DefaultV1Registry, DefaultV2Registry}
CertKinds == {"ca.crt", "client.cert", "client.key"}
Schemes   == {"https", "http"}

ASSUME EndpointsAssumption ==
    /\ HubHosts \subseteq Hosts
    /\ Loopback \in Nets /\ Hosts \cap Nets = {}
    /\ NetsOf \in [Hosts -> SUBSET Nets]
    /\ CertFiles \in [Hosts -> SUBSET CertKinds]

-----------------------------------------------------------------------------
(* The service's configuration.  A name without an entry of its own is        *)
(* insecure only if it is found in an insecure network.                       *)

newServiceConfig(options) ==
    [nets    |-> (options.insecure \cap Nets) \cup {Loopback},
     secure  |-> [h \in (options.insecure \ Nets) \cup {IndexName} |-> h = IndexName],
     mirrors |-> options.mirrors,
     v2only  |-> options.v2only]

isSecureIndex(service, host) ==
    IF host \in DOMAIN service.secure THEN service.secure[host]
    ELSE NetsOf[host] \cap service.nets = {}

\* Every certificate needs its key and every key its certificate.
ReadCertsDirectory(host) ==
    "client.cert" \in CertFiles[host] <=> "client.key" \in CertFiles[host]

\* The directory of an insecure registry is not even read.
newTLSConfig(host, secure) == [ok |-> secure => ReadCertsDirectory(host), skipVerify |-> ~secure]

TLSConfig(service, host) == newTLSConfig(host, isSecureIndex(service, host))

-----------------------------------------------------------------------------
(* The lists of endpoints; the empty list stands for an error.                *)

APIEndpoint(scheme, host, version, skipVerify) ==
    [scheme |-> scheme, host |-> host, version |-> version, mirror |-> FALSE,
     skipVerify |-> skipVerify]

\* HTTPS, and plain HTTP after it where the registry is insecure.
Direct(service, host, version) ==
    LET tls == TLSConfig(service, host)
        Over(scheme) == APIEndpoint(scheme, host, version, tls.skipVerify)
    IN  IF ~tls.ok THEN <<>>
        ELSE IF tls.skipVerify THEN <<Over("https"), Over("http")>>
        ELSE <<Over("https")>>

\* A mirror is written as a URL, and taken for HTTPS where it is not.
MirrorEndpoint(service, mirror) ==
    [APIEndpoint(mirror.scheme, mirror.host, 2, TLSConfig(service, mirror.host).skipVerify)
        EXCEPT !.mirror = TRUE]

lookupV2Endpoints(service, host) ==
    IF host \in {DefaultNamespace, DefaultV1Registry}
    THEN IF \A i \in DOMAIN service.mirrors : TLSConfig(service, service.mirrors[i].host).ok
         THEN [i \in DOMAIN service.mirrors |-> MirrorEndpoint(service, service.mirrors[i])]
                \o <<APIEndpoint("https", DefaultV2Registry, 2, FALSE)>>
         ELSE <<>>
    ELSE Direct(service, host, 2)

lookupV1Endpoints(service, host) ==
    IF host = DefaultNamespace
    THEN <<APIEndpoint("https", DefaultV1Registry, 1, FALSE)>>
    ELSE Direct(service, host, 1)

\* Mutant: the old protocol first.
lookupEndpoints_LegacyFirst(service, host) ==
    IF service.v2only THEN lookupV2Endpoints(service, host)
    ELSE lookupV1Endpoints(service, host) \o lookupV2Endpoints(service, host)

lookupEndpoints(service, host) ==
    LET current == lookupV2Endpoints(service, host)
        legacy  == lookupV1Endpoints(service, host)
    IN  IF service.v2only THEN current
        ELSE IF current = <<>> \/ legacy = <<>> THEN <<>>
        ELSE current \o legacy

LookupPullEndpoints(service, host) == lookupEndpoints(service, host)

\* The mirrors are left out.
LookupPushEndpoints(service, host) ==
    LET all == lookupEndpoints(service, host)
        kept[i \in 0 .. Len(all)] ==
            IF i = 0 THEN <<>>
            ELSE IF all[i].mirror THEN kept[i - 1]
            ELSE Append(kept[i - 1], all[i])
    IN  kept[Len(all)]

=============================================================================
