------------------------------- MODULE Service -------------------------------
(***************************************************************************)
(* What a registry service does with the endpoints it looks up             *)
(* (pkg/registry: service.go, auth.go, endpoint_v1.go): Auth tries one     *)
(* after the other until one accepts or rejects the credentials, and       *)
(* Search finds out how a V1 index can be spoken to.                       *)
(***************************************************************************)
EXTENDS Endpoints

CONSTANT
    ServiceOptions   \* what a service may be made from

ASSUME ServiceAssumption ==
    \A options \in ServiceOptions :
        /\ options.insecure \subseteq Hosts \cup Nets
        /\ options.mirrors \in Seq([scheme : Schemes, host : Hosts])
        /\ options.v2only \in BOOLEAN

VARIABLES
    service,     \* its configuration
    server,      \* the registry the user names
    phase,       \* where the task is
    endpoints,   \* Auth: the endpoints that are left
    foundV2,     \* the endpoint said that it is a V2 registry
    scheme,      \* Search: how the index is spoken to
    asked,       \* history: the schemes and API versions of the requests sent
    confirmedV2  \* history: some endpoint said so

serviceVars == <<service, server, phase, endpoints, foundV2, scheme, asked, confirmedV2>>

ServicePhases == {"auth", "login", "https", "http", "session", "search", "ok", "error"}
Verdicts == {"ok", "error"}

Ask(how, version) == asked' = asked \cup {<<how, version>>}

-----------------------------------------------------------------------------
(* Auth.                                                                      *)

Current == endpoints[1]

\* Mutant: every rejection sends the user to the next endpoint.
NextEndpoint_Always(fallback) ==
    /\ endpoints' = Tail(endpoints)
    /\ phase' = IF Len(endpoints) > 1 THEN "auth" ELSE "error"

\* Mutant: the end of the list is missed.
NextEndpoint_Overrun(fallback) ==
    IF fallback
    THEN endpoints' = Tail(endpoints) /\ phase' = "auth"
    ELSE phase' = "error" /\ UNCHANGED endpoints

\* A fallbackError leads to the next endpoint, any other to the user.
NextEndpoint(fallback) ==
    IF fallback
    THEN /\ endpoints' = Tail(endpoints)
         /\ phase' = IF Len(endpoints) > 1 THEN "auth" ELSE "error"
    ELSE phase' = "error" /\ UNCHANGED endpoints

\* loginV2: the ping that tells whether this is a V2 registry, were its
\* challenges not to be understood.
PingV2Registry ==
    /\ phase = "auth" /\ Current.version = 2
    /\ Ask(Current.scheme, 2)
    /\ \/ \E found \in BOOLEAN :
             /\ foundV2' = found
             /\ confirmedV2' = (confirmedV2 \/ found)
             /\ phase' = "login"
             /\ UNCHANGED endpoints
       \/ \E found \in BOOLEAN :
             /\ confirmedV2' = (confirmedV2 \/ found)
             /\ NextEndpoint(~found)
             /\ UNCHANGED foundV2
    /\ UNCHANGED <<service, server, scheme>>

\* Then the request with the credentials.
LoginV2 ==
    /\ phase = "login"
    /\ Ask(Current.scheme, 2)
    /\ \/ phase' = "ok" /\ UNCHANGED endpoints
       \/ NextEndpoint(~foundV2)
    /\ UNCHANGED <<service, server, foundV2, scheme, confirmedV2>>

\* loginV1: only a request without a response falls back.
LoginV1 ==
    /\ phase = "auth" /\ Current.version = 1
    /\ Ask(Current.scheme, 1)
    /\ \/ phase' = "ok" /\ UNCHANGED endpoints
       \/ \E noResponse \in BOOLEAN : NextEndpoint(noResponse)
    /\ UNCHANGED <<service, server, foundV2, scheme, confirmedV2>>

-----------------------------------------------------------------------------
(* Search.                                                                    *)

\* newIndexInfo, and the address behind its name: IndexServer for two of them.
Official == server \in {IndexName, DefaultV1Registry}
IndexSecure == isSecureIndex(service, server)

\* IndexServer is not pinged.
Ping(how) == IF Official THEN UNCHANGED asked ELSE Ask(how, 1)

\* Mutant: plain HTTP is tried whatever the index is.
ValidateHTTPS_Lenient ==
    /\ phase = "https"
    /\ scheme' = "https"
    /\ Ping("https")
    /\ phase' \in {"session", "http"}
    /\ UNCHANGED <<service, server, endpoints, foundV2, confirmedV2>>

\* validateEndpoint: HTTPS, and plain HTTP if that fails and the index is
\* insecure.
ValidateHTTPS ==
    /\ phase = "https"
    /\ scheme' = "https"
    /\ Ping("https")
    /\ \/ phase' = "session"
       \/ ~Official /\ phase' = IF IndexSecure THEN "error" ELSE "http"
    /\ UNCHANGED <<service, server, endpoints, foundV2, confirmedV2>>

ValidateHTTP ==
    /\ phase = "http"
    /\ scheme' = "http"
    /\ Ping("http")
    /\ phase' \in {"session", "error"}
    /\ UNCHANGED <<service, server, endpoints, foundV2, confirmedV2>>

\* NewSession pings any other index over HTTPS again.
OpenSession ==
    /\ phase = "session"
    /\ IF scheme = "https" /\ ~Official
       THEN Ask("https", 1) /\ phase' \in {"search", "error"}
       ELSE phase' = "search" /\ UNCHANGED asked
    /\ UNCHANGED <<service, server, endpoints, foundV2, scheme, confirmedV2>>

SearchRepositories ==
    /\ phase = "search"
    /\ Ask(scheme, 1)
    /\ phase' \in Verdicts
    /\ UNCHANGED <<service, server, endpoints, foundV2, scheme, confirmedV2>>

-----------------------------------------------------------------------------

\* Auth looks the endpoints up, Search makes one: either may find that the
\* certificates of the host are incomplete.
ServiceInit ==
    /\ \E options \in ServiceOptions : service = newServiceConfig(options)
    /\ server \in Hosts
    /\ endpoints = LookupPushEndpoints(service, server)
    /\ \/ phase = IF endpoints = <<>> THEN "error" ELSE "auth"
       \/ phase = IF newTLSConfig(server, isSecureIndex(service, server)).ok
                  THEN "https" ELSE "error"
    /\ foundV2 = FALSE /\ scheme = "https"
    /\ asked = {} /\ confirmedV2 = FALSE

ServiceNext ==
    \/ PingV2Registry \/ LoginV2 \/ LoginV1
    \/ ValidateHTTPS \/ ValidateHTTP \/ OpenSession \/ SearchRepositories

ServiceSpec == ServiceInit /\ [][ServiceNext]_serviceVars

-----------------------------------------------------------------------------
(* Properties.                                                                *)

\* Every variable has its type; who logs in has an endpoint to log in to.
ServiceTypeOK ==
    /\ server \in Hosts
    /\ phase \in ServicePhases
    /\ phase \in {"auth", "login"} => endpoints # <<>>
    /\ phase = "login" => Current.version = 2
    /\ foundV2 \in BOOLEAN /\ confirmedV2 \in BOOLEAN
    /\ scheme \in Schemes
    /\ asked \subseteq Schemes \X {1, 2}

\* Once an endpoint said that it is a V2 registry, no other one is spoken to in
\* V1 ("don't allow future fallbacks to the v1 protocol", auth.go:246).
NoV1AfterV2 == confirmedV2 => \A request \in asked : request[2] = 2

\* Plain HTTP is used only with an insecure registry, and in a protocol only
\* after HTTPS was tried in it ("HTTPS over plain HTTP", service.go:168; "DO NOT
\* fallback to HTTP", endpoint_v1.go:51).
PlainOnlyInsecure ==
    \A request \in asked :
        request[1] = "http" => ~IndexSecure /\ <<"https", request[2]>> \in asked

\* V2 over V1, mirrors over the registry, and for the registry itself HTTPS over
\* plain HTTP.
Preferred(list) ==
    \A i, j \in DOMAIN list : i < j =>
        /\ list[i].version >= list[j].version
        /\ list[j].mirror => list[i].mirror
        /\ list[i].version = list[j].version /\ ~list[i].mirror
              => <<list[i].scheme, list[j].scheme>> # <<"http", "https">>

\* The mirrors, if there are any, are those of the configuration, one by one.
MirrorsAsGiven(list, mirrors) ==
    \A i \in DOMAIN list : list[i].mirror =>
        /\ i \in DOMAIN mirrors
        /\ list[i].scheme = mirrors[i].scheme /\ list[i].host = mirrors[i].host

\* Endpoints come in an order of preference: V2 before V1, the mirrors before the
\* registry, HTTPS before plain HTTP among the endpoints of the registry.  Among
\* the mirrors the order is the user's, whatever their schemes: a mirror over
\* plain HTTP may come before one, and before the registry, over HTTPS, though
\* service.go:166-168 gives "preference to [...] HTTPS over plain HTTP" without
\* that exception.  A login sees no mirror.
EndpointsInOrder ==
    /\ Preferred(LookupPullEndpoints(service, server))
    /\ MirrorsAsGiven(LookupPullEndpoints(service, server), service.mirrors)
    /\ Preferred(LookupPushEndpoints(service, server))
    /\ \A i \in DOMAIN endpoints : ~endpoints[i].mirror

=============================================================================
