------------------------------- MODULE Session -------------------------------
(***************************************************************************)
(* A session with a V1 registry (pkg/registry/session.go): its calls, each *)
(* of one request or, where it is redirected or asks several registries,   *)
(* of several; and the transport they share, which adds authentication and *)
(* remembers the request it sent in place of each, so that CancelRequest   *)
(* finds it.                                                               *)
(*                                                                         *)
(* A request is its caller and its number.  What is in a body matters only *)
(* in that it may be no JSON, may lack the endpoints, or may say that the  *)
(* image already exists.                                                   *)
(***************************************************************************)
EXTENDS Naturals, FiniteSets

CONSTANTS
    Callers,       \* goroutines that share the session
    Calls,         \* the calls they make
    LoggedIn,      \* AuthConfig has a user
    MaxRequests,   \* bound: requests of each caller; no registry redirects any further
    NoOp

Ops ==
    {"GetRemoteHistory", "LookupRemoteImage", "GetRemoteImageJSON", "GetRemoteImageLayer",
     "GetRemoteTag", "GetRemoteTags", "GetRepositoryData", "SearchRepositories",
     "PushImageChecksumRegistry", "PushImageJSONRegistry", "PushImageLayerRegistry",
     "PushRegistryTag", "PushImageJSONIndex", "PushImageJSONIndex(validate)"}

ASSUME SessionAssumption ==
    /\ IsFiniteSet(Callers)
    /\ Calls \subseteq Ops /\ NoOp \notin Ops
    /\ LoggedIn \in BOOLEAN
    /\ MaxRequests \in [Callers -> Nat]

AskSeveral == {"GetRemoteTag", "GetRemoteTags"}
PushIndex  == {"PushImageJSONIndex", "PushImageJSONIndex(validate)"}
\* X-Docker-Token: true.
WantToken  == {"GetRepositoryData", "SearchRepositories"} \cup PushIndex
DecodeBody ==
    {"GetRemoteHistory", "GetRemoteImageJSON", "GetRepositoryData", "SearchRepositories"}
       \cup AskSeveral

Statuses == {200, 201, 204, 302, 401, 404, 500}
BodyKinds == {"good", "bad", "exists"}
Outcomes  == {"none", "ok", "error", "unauthorized", "no repository", "exists", "moved", "next"}

Requests == Callers \X (Nat \ {0})

VARIABLES
    op,         \* the call a caller is in
    hop,        \* where its request is: see Hops
    number,     \* requests the caller has made
    redirected, \* the request has a Referer
    passed,     \* it was sent as it is, to a location that is not trusted
    auth,       \* the authorization it was sent with
    cancelled,  \* CancelRequest reached the base transport
    lost,       \* history: a cancel came before the base transport had it
    unread,     \* responses whose bodies are not at their end, nor closed
    forgotten,  \* responses nobody will close
    outcome,    \* what the call makes of the response
    modReq,     \* requests that were sent in a modified copy
    token,      \* the transport has a token
    alwaysSetBasicAuth

callVars    == <<op, hop, number, redirected, passed, auth, cancelled, lost, outcome>>
bodies      == <<unread, forgotten>>
sessionVars == <<callVars, bodies, modReq, token, alwaysSetBasicAuth>>

Hops == {"none", "made", "recorded", "sent", "answered"}

This(c) == <<c, number[c]>>
Of(c)   == {req \in unread : req[1] = c}

OkStatus(o) ==
    CASE o \in {"PushRegistryTag", "PushImageJSONIndex"} -> {200, 201}
      [] o = "PushImageJSONIndex(validate)" -> {204}
      [] OTHER -> {200}

\* What a call makes of a response.  Go's client follows a redirection, and
\* PushImageJSONIndex does itself; GetRemoteTag(s) tries the next registry.
Outcome(o, code, body) ==
    CASE code \in OkStatus(o) ->
            IF body = "bad" /\ o \in DecodeBody \cup {"PushImageJSONIndex"} THEN "error" ELSE "ok"
      [] code = 302 -> "moved"
      [] code = 401 /\ o \in {"GetRemoteHistory", "GetRepositoryData"} \cup PushIndex
            -> "unauthorized"
      [] o \in AskSeveral -> IF code = 404 THEN "no repository" ELSE "next"
      [] code \notin OkStatus(o) \cup {302} /\ body = "exists"
            /\ o \in {"PushImageChecksumRegistry", "PushImageJSONRegistry"} -> "exists"
      [] OTHER -> "error"

-----------------------------------------------------------------------------

\* The next request of a call, to another place or to another registry.
NewRequest(c, referer) ==
    /\ number[c] < MaxRequests[c]
    /\ number' = [number EXCEPT ![c] = @ + 1]
    /\ hop' = [hop EXCEPT ![c] = "made"]
    /\ redirected' = [redirected EXCEPT ![c] = referer]
    /\ passed' = [passed EXCEPT ![c] = FALSE]
    /\ cancelled' = [cancelled EXCEPT ![c] = FALSE]
    /\ lost' = [lost EXCEPT ![c] = FALSE]
    /\ auth' = [auth EXCEPT ![c] = "none"]

Call(c, o) ==
    /\ op[c] = NoOp
    /\ op' = [op EXCEPT ![c] = o]
    /\ NewRequest(c, FALSE)
    /\ UNCHANGED <<outcome, bodies, modReq, token, alwaysSetBasicAuth>>

\* The start of RoundTrip.  A redirection to a place that is not trusted is
\* passed on as it is.
RoundTrip(c) ==
    /\ hop[c] = "made"
    /\ \/ /\ redirected[c]
          /\ passed' = [passed EXCEPT ![c] = TRUE]
          /\ hop' = [hop EXCEPT ![c] = "sent"]
          /\ UNCHANGED modReq
       \/ /\ modReq' = modReq \cup {This(c)}
          /\ hop' = [hop EXCEPT ![c] = "recorded"]
          /\ UNCHANGED passed
    /\ UNCHANGED <<op, number, redirected, auth, cancelled, lost, outcome, bodies, token,
                   alwaysSetBasicAuth>>

\* The copy gets its authorization, and is sent.
Send(c) ==
    /\ hop[c] = "recorded"
    /\ auth' = [auth EXCEPT ![c] =
                   IF alwaysSetBasicAuth \/ (op[c] \in WantToken /\ LoggedIn) THEN "basic"
                   ELSE IF token THEN "token" ELSE "none"]
    /\ hop' = [hop EXCEPT ![c] = "sent"]
    /\ UNCHANGED <<op, number, redirected, passed, cancelled, lost, outcome, bodies, modReq,
                   token, alwaysSetBasicAuth>>

\* A response, perhaps with a token, asked for or not.
Respond(c) ==
    /\ hop[c] = "sent"
    /\ ~cancelled[c]
    /\ hop' = [hop EXCEPT ![c] = "answered"]
    /\ \E code \in Statuses, body \in BodyKinds :
          /\ code = 302 => number[c] < MaxRequests[c]
          /\ outcome' = [outcome EXCEPT ![c] = Outcome(op[c], code, body)]
    /\ unread' = unread \cup {This(c)}
    /\ IF passed[c] \/ alwaysSetBasicAuth THEN UNCHANGED token ELSE token' \in {token, TRUE}
    /\ UNCHANGED <<op, number, redirected, passed, auth, cancelled, lost, forgotten, modReq,
                   alwaysSetBasicAuth>>

\* Mutant: the whole map goes.
Released_All(reqs) == IF alwaysSetBasicAuth THEN modReq ELSE {}

\* The bodies reach their end or are closed.  Only a session that does not set
\* basic authentication always, and only for a copy, does something then.
Released(reqs) == IF alwaysSetBasicAuth THEN modReq ELSE modReq \ reqs

\* Mutant: the caller is left in its call.
Finish_InCall(c) ==
    /\ hop' = [hop EXCEPT ![c] = "none"]
    /\ outcome' = [outcome EXCEPT ![c] = "none"]
    /\ unread' = unread \ Of(c)
    /\ UNCHANGED <<op, auth, redirected, passed, cancelled, lost, number, token,
                   alwaysSetBasicAuth>>

Finish(c) ==
    /\ op' = [op EXCEPT ![c] = NoOp]
    /\ hop' = [hop EXCEPT ![c] = "none"]
    /\ outcome' = [outcome EXCEPT ![c] = "none"]
    /\ auth' = [auth EXCEPT ![c] = "none"]
    /\ redirected' = [redirected EXCEPT ![c] = FALSE]
    /\ passed' = [passed EXCEPT ![c] = FALSE]
    /\ cancelled' = [cancelled EXCEPT ![c] = FALSE]
    /\ lost' = [lost EXCEPT ![c] = FALSE]
    /\ unread' = unread \ Of(c)
    /\ UNCHANGED <<number, token, alwaysSetBasicAuth>>

\* Mutant: a cancelled request never fails.
SendFails_Hangs(c) ==
    /\ hop[c] = "sent"
    /\ ~cancelled[c]
    /\ Finish(c)
    /\ modReq' = Released(Of(c) \cup {This(c)})
    /\ UNCHANGED forgotten

\* No response: the call is over.
SendFails(c) ==
    /\ hop[c] = "sent"
    /\ Finish(c)
    /\ modReq' = Released(Of(c) \cup {This(c)})
    /\ UNCHANGED forgotten

\* Another request, to where the response says: Go's client makes it, or
\* PushImageJSONIndex itself, and neither CheckRedirect nor the loop of
\* PushImageJSONIndex counts.  A request that Go makes has a Referer, unless the
\* headers of the first are kept or the connection is no longer secure.
Redirect(c) ==
    /\ hop[c] = "answered"
    /\ outcome[c] = "moved"
    /\ \E referer \in BOOLEAN : NewRequest(c, referer)
    /\ unread' = unread \ {This(c)}
    /\ modReq' = Released({This(c)})
    /\ UNCHANGED <<op, forgotten, outcome, token, alwaysSetBasicAuth>>

\* GetRemoteTag(s): another registry is asked, with the body still open.
NextRegistry(c) ==
    /\ hop[c] = "answered"
    /\ outcome[c] = "next"
    /\ NewRequest(c, FALSE)
    /\ UNCHANGED <<op, outcome, bodies, modReq, token, alwaysSetBasicAuth>>

\* Mutant: only the last body is closed.
CallReturns_LastBody(c) ==
    /\ hop[c] = "answered"
    /\ Finish(c)
    /\ modReq' = Released({This(c)})
    /\ UNCHANGED forgotten

\* The call returns, or, for a layer, its caller is done with the body: also
\* when a redirection does not say where to, and GetRemoteTag(s) without
\* another registry.
CallReturns(c) ==
    /\ hop[c] = "answered"
    /\ Finish(c)
    /\ modReq' = Released(Of(c))
    /\ UNCHANGED forgotten

\* PushImageLayerRegistry: the layer cannot be closed; nobody closes the body.
LayerCloseFails(c) ==
    /\ hop[c] = "answered"
    /\ op[c] = "PushImageLayerRegistry"
    /\ Finish(c)
    /\ forgotten' = forgotten \cup {This(c)}
    /\ UNCHANGED modReq

\* Whoever made the request gives up.  A request that is not recorded, or not
\* yet, goes on.  So does one whose copy the base transport does not have yet:
\* to cancel that does nothing, and the transport forgets the copy all the same.
CancelRequest(c) ==
    /\ hop[c] # "none"
    /\ cancelled' = [cancelled EXCEPT
                        ![c] = @ \/ (hop[c] \in {"sent", "answered"} /\ This(c) \in modReq)]
    /\ lost' = [lost EXCEPT ![c] = @ \/ (hop[c] = "recorded" /\ This(c) \in modReq)]
    /\ modReq' = modReq \ {This(c)}
    /\ UNCHANGED <<op, hop, number, redirected, passed, auth, outcome, bodies, token,
                   alwaysSetBasicAuth>>

SessionInit ==
    /\ op = [c \in Callers |-> NoOp]
    /\ hop = [c \in Callers |-> "none"]
    /\ number = [c \in Callers |-> 0]
    /\ redirected = [c \in Callers |-> FALSE]
    /\ passed = [c \in Callers |-> FALSE]
    /\ auth = [c \in Callers |-> "none"]
    /\ cancelled = [c \in Callers |-> FALSE]
    /\ lost = [c \in Callers |-> FALSE]
    /\ outcome = [c \in Callers |-> "none"]
    /\ unread = {} /\ forgotten = {} /\ modReq = {}
    /\ token = FALSE
    \* NewSession: a private registry over HTTPS that says it stands alone.
    /\ alwaysSetBasicAuth \in {FALSE, LoggedIn}

CallStep(c) ==
    \/ RoundTrip(c) \/ Send(c) \/ SendFails(c) \/ Redirect(c) \/ NextRegistry(c)
    \/ CallReturns(c) \/ LayerCloseFails(c) \/ Respond(c)

SessionNext ==
    \E c \in Callers :
        CallStep(c) \/ CancelRequest(c) \/ \E o \in Calls : Call(c, o)

\* Every request is answered or fails, and every body is read.
SessionFairness == \A c \in Callers : WF_sessionVars(CallStep(c))

SessionSpec == SessionInit /\ [][SessionNext]_sessionVars /\ SessionFairness

-----------------------------------------------------------------------------
(* Properties.                                                                *)

\* Every variable has its type, and a caller without a call has no request under
\* way.
SessionTypeOK ==
    /\ op \in [Callers -> Ops \cup {NoOp}]
    /\ hop \in [Callers -> Hops]
    /\ \A c \in Callers : op[c] = NoOp <=> hop[c] = "none"
    /\ number \in [Callers -> Nat] /\ \A c \in Callers : number[c] <= MaxRequests[c]
    /\ redirected \in [Callers -> BOOLEAN] /\ passed \in [Callers -> BOOLEAN]
    /\ auth \in [Callers -> {"none", "basic", "token"}]
    /\ cancelled \in [Callers -> BOOLEAN] /\ lost \in [Callers -> BOOLEAN]
    /\ outcome \in [Callers -> Outcomes]
    /\ unread \subseteq Requests /\ forgotten \subseteq Requests
    /\ modReq \subseteq Requests
    /\ token \in BOOLEAN /\ alwaysSetBasicAuth \in BOOLEAN

\* A request on its way or being read can be cancelled: the transport knows the
\* copy that was sent for it ("important for correct timeout handling",
\* session.go:71) -- unless the request was passed on as it is, or a cancel came
\* after its copy was recorded and before the base transport had it (between
\* session.go:113 and :132).  That cancel is lost, and no other can follow it.
Cancellable ==
    \A c \in Callers :
        hop[c] \in {"recorded", "sent", "answered"} /\ ~passed[c] /\ ~cancelled[c] /\ ~lost[c]
           => This(c) \in modReq

\* The transport forgets a request when its response is read or closed, it
\* fails, or it is cancelled, in whatever order that happens: modReq does not
\* grow with the calls.  (It does where basic authentication is always set, and
\* by the responses that PushImageLayerRegistry forgets.)
NothingKept ==
    ~alwaysSetBasicAuth =>
        modReq \subseteq forgotten \cup unread
                           \cup {This(c) : c \in {c \in Callers : hop[c] \in {"recorded", "sent"}}}

\* Every call of a caller that is not redirected for ever returns, cancelled or
\* not, whatever its registries answer.  Without that condition it would not:
\* neither Go's client (registry.go:140-155) nor the loop at session.go:653
\* counts redirections.
CallsEnd ==
    \A c \in Callers :
        <>[](outcome[c] # "moved") => (op[c] # NoOp ~> op[c] = NoOp)

=============================================================================
