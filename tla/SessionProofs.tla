---------------------------- MODULE SessionProofs ----------------------------
(***************************************************************************)
(* Theorems about Session, for every number of callers and of requests:    *)
(* requests in flight can be cancelled, and the transport forgets those    *)
(* that are over.                                                          *)
(***************************************************************************)
EXTENDS Session, TLAPS

USE SessionAssumption

\* Where each caller is, and how far it has counted.
PlaceOK ==
    /\ op \in [Callers -> Ops \cup {NoOp}]
    /\ hop \in [Callers -> Hops]
    /\ \A c \in Callers : op[c] = NoOp <=> hop[c] = "none"
    /\ number \in [Callers -> Nat] /\ \A c \in Callers : number[c] <= MaxRequests[c]
    /\ outcome \in [Callers -> Outcomes]

\* What the transport and the bodies are about.
SetsOK ==
    /\ unread \subseteq Requests /\ forgotten \subseteq Requests
    /\ modReq \subseteq Requests

FlagsOK ==
    /\ redirected \in [Callers -> BOOLEAN] /\ passed \in [Callers -> BOOLEAN]
    /\ auth \in [Callers -> {"none", "basic", "token"}]
    /\ cancelled \in [Callers -> BOOLEAN] /\ lost \in [Callers -> BOOLEAN]
    /\ token \in BOOLEAN /\ alwaysSetBasicAuth \in BOOLEAN

\* A request has a number from its start.
Counted == \A c \in Callers : hop[c] # "none" => number[c] # 0

\* Only a call that asks several registries leaves a body open for the next.
OneBody ==
    /\ \A c \in Callers :
          hop[c] = "answered" /\ outcome[c] = "next" => op[c] \in AskSeveral
    /\ \A req \in unread :
          op[req[1]] \in AskSeveral \/ (req = This(req[1]) /\ hop[req[1]] = "answered")

SessionInv == PlaceOK /\ SetsOK /\ FlagsOK /\ Counted /\ OneBody /\ Cancellable /\ NothingKept

-----------------------------------------------------------------------------

LEMMA InitSession == SessionInit => SessionInv
<1> SUFFICES ASSUME SessionInit PROVE SessionInv
  OBVIOUS
<1>1. PlaceOK
  BY DEF SessionInit, PlaceOK, Hops, Outcomes
<1>2. SetsOK /\ Counted /\ OneBody /\ Cancellable /\ NothingKept
  BY DEF SessionInit, SetsOK, Counted, OneBody, Cancellable, NothingKept
<1>3. FlagsOK
  BY Zenon DEF SessionInit, FlagsOK
<1>. QED
  BY <1>1, <1>2, <1>3 DEF SessionInv

\* Only the calls that ask several registries go on to the next.
LEMMA OnlySeveralGoOn ==
    ASSUME NEW o \in Ops, NEW code \in Statuses, NEW body \in BodyKinds
    PROVE  /\ Outcome(o, code, body) \in Outcomes
           /\ Outcome(o, code, body) = "next" => o \in AskSeveral
BY DEF Outcome, Outcomes

LEMMA Constants ==
    /\ Calls \subseteq Ops /\ NoOp \notin Ops /\ AskSeveral \subseteq Ops /\ NoOp \notin AskSeveral
    /\ MaxRequests \in [Callers -> Nat]
    /\ "PushImageLayerRegistry" \notin AskSeveral /\ PushIndex \cap AskSeveral = {}
BY DEF SessionAssumption, AskSeveral, PushIndex, Ops

\* A request of a caller at rest is not being read.
LEMMA RestReadsNothing ==
    ASSUME SessionInv, NEW c \in Callers, hop[c] # "answered", op[c] \notin AskSeveral
    PROVE  Of(c) = {}
BY DEF SessionInv, OneBody, Of

LEMMA CallSession ==
    ASSUME SessionInv, NEW c \in Callers, NEW o \in Calls, Call(c, o)
    PROVE  SessionInv'
<1> USE DEF SessionInv, Call, NewRequest, bodies
<1>0. o \in Ops /\ NoOp \notin Ops /\ op[c] \notin AskSeveral /\ hop[c] = "none" /\ o # NoOp
  BY Constants DEF PlaceOK
<1>1. PlaceOK'
  BY <1>0 DEF PlaceOK, Hops
<1>2. SetsOK'
  BY DEF SetsOK
<1>3. FlagsOK'
  BY Zenon DEF FlagsOK
<1>4. Counted'
  BY DEF Counted, PlaceOK
<1>5. OneBody'
  <2>1. Of(c) = {}
    BY <1>0, RestReadsNothing
  <2>2. \A req \in unread : req[1] # c /\ req[1] \in Callers
    BY <2>1 DEF Of, SetsOK, Requests
  <2>. QED
    BY <2>2 DEF OneBody, PlaceOK, This
<1>6. Cancellable'
  BY DEF Cancellable, PlaceOK, FlagsOK, This
<1>7. NothingKept'
  BY <1>0 DEF NothingKept, PlaceOK, This
<1>. QED
  BY <1>1, <1>2, <1>3, <1>4, <1>5, <1>6, <1>7

LEMMA RoundTripSession ==
    ASSUME SessionInv, NEW c \in Callers, RoundTrip(c)
    PROVE  SessionInv'
<1> USE DEF SessionInv, RoundTrip, bodies
<1>1. PlaceOK'
  BY DEF PlaceOK, Hops
<1>2. SetsOK'
  BY DEF SetsOK, This, Requests, Counted, PlaceOK
<1>3. FlagsOK'
  BY Zenon DEF FlagsOK
<1>4. Counted'
  BY DEF Counted, PlaceOK
<1>5. OneBody'
  BY DEF OneBody, PlaceOK, This, SetsOK, Requests
<1>6. Cancellable'
  BY DEF Cancellable, PlaceOK, FlagsOK, This
<1>7. NothingKept'
  BY DEF NothingKept, PlaceOK, This
<1>. QED
  BY <1>1, <1>2, <1>3, <1>4, <1>5, <1>6, <1>7

LEMMA SendSession ==
    ASSUME SessionInv, NEW c \in Callers, Send(c)
    PROVE  SessionInv'
<1> USE DEF SessionInv, Send, bodies
<1>1. PlaceOK'
  BY DEF PlaceOK, Hops
<1>2. SetsOK'
  BY DEF SetsOK
<1>3. FlagsOK'
  BY Zenon DEF FlagsOK
<1>4. Counted'
  BY DEF Counted, PlaceOK
<1>5. OneBody'
  BY DEF OneBody, PlaceOK, This, SetsOK, Requests
<1>6. Cancellable'
  BY DEF Cancellable, PlaceOK, FlagsOK, This
<1>7. NothingKept'
  BY DEF NothingKept, PlaceOK, This
<1>. QED
  BY <1>1, <1>2, <1>3, <1>4, <1>5, <1>6, <1>7

LEMMA RespondSession ==
    ASSUME SessionInv, NEW c \in Callers, Respond(c)
    PROVE  SessionInv'
<1> USE DEF SessionInv, Respond, bodies
<1>0. op[c] \in Ops /\ number[c] \in Nat \ {0}
  BY Constants DEF PlaceOK, Counted
<1>1. PICK code \in Statuses, body \in BodyKinds :
          outcome' = [outcome EXCEPT ![c] = Outcome(op[c], code, body)]
  OBVIOUS
<1>2. outcome'[c] \in Outcomes /\ (outcome'[c] = "next" => op[c] \in AskSeveral)
  BY <1>0, <1>1, OnlySeveralGoOn DEF PlaceOK
<1>3. PlaceOK'
  BY <1>1, <1>2 DEF PlaceOK, Hops
<1>4. SetsOK'
  BY <1>0 DEF SetsOK, This, Requests
<1>5. FlagsOK'
  BY Zenon DEF FlagsOK
<1>6. Counted'
  BY DEF Counted, PlaceOK
<1>7. OneBody'
  BY <1>1, <1>2 DEF OneBody, PlaceOK, This, SetsOK, Requests
<1>8. Cancellable'
  BY DEF Cancellable, PlaceOK, FlagsOK, This
<1>9. NothingKept'
  BY DEF NothingKept, PlaceOK, This
<1>. QED
  BY <1>3, <1>4, <1>5, <1>6, <1>7, <1>8, <1>9

\* The end of a call, whatever is released.
LEMMA FinishSession ==
    ASSUME SessionInv, NEW c \in Callers, hop[c] # "none", Finish(c),
           NEW reqs \in SUBSET (Of(c) \cup {This(c)}),
           modReq' = modReq \/ modReq' = Released(reqs),
           forgotten' = forgotten \/ forgotten' = forgotten \cup {This(c)},
           NothingKept'
    PROVE  SessionInv'
<1> USE DEF SessionInv, Finish
<1>0. This(c) \in Requests /\ (\A req \in reqs : req[1] = c) /\ modReq' \subseteq modReq
      /\ \A req \in modReq : req[1] # c => req \in modReq'
  BY DEF This, Of, Requests, Counted, PlaceOK, Released
<1>1. PlaceOK'
  BY DEF PlaceOK, Hops, Outcomes
<1>2. SetsOK'
  BY <1>0 DEF SetsOK
<1>3. FlagsOK'
  BY Zenon DEF FlagsOK
<1>4. Counted'
  BY DEF Counted, PlaceOK
<1>5. OneBody'
  BY DEF OneBody, PlaceOK, This, Of, SetsOK, Requests
<1>6. Cancellable'
  BY <1>0 DEF Cancellable, PlaceOK, FlagsOK, This
<1>. QED
  BY <1>1, <1>2, <1>3, <1>4, <1>5, <1>6

LEMMA SendFailsSession ==
    ASSUME SessionInv, NEW c \in Callers, SendFails(c)
    PROVE  SessionInv'
<1>1. NothingKept'
  BY DEF SessionInv, SendFails, Finish, NothingKept, PlaceOK, SetsOK, Requests, This, Of, Released
<1>. QED
  BY <1>1, FinishSession DEF SendFails

LEMMA CallReturnsSession ==
    ASSUME SessionInv, NEW c \in Callers, CallReturns(c)
    PROVE  SessionInv'
<1>1. NothingKept'
  BY DEF SessionInv, CallReturns, Finish, NothingKept, PlaceOK, SetsOK, Requests, This, Of, Released
<1>. QED
  BY <1>1, FinishSession DEF CallReturns

\* The only body that is still read is the one that is forgotten.
LEMMA LayerCloseSession ==
    ASSUME SessionInv, NEW c \in Callers, LayerCloseFails(c)
    PROVE  SessionInv'
<1>1. Of(c) \subseteq {This(c)}
  BY Constants DEF SessionInv, OneBody, Of, LayerCloseFails
<1>2. NothingKept'
  BY <1>1 DEF SessionInv, LayerCloseFails, Finish, NothingKept, PlaceOK, SetsOK, Requests, This, Of
<1>. QED
  BY <1>2, FinishSession DEF LayerCloseFails

LEMMA RedirectSession ==
    ASSUME SessionInv, NEW c \in Callers, Redirect(c)
    PROVE  SessionInv'
<1> USE DEF SessionInv, Redirect, NewRequest, bodies
<1>1. PlaceOK'
  BY DEF PlaceOK, Hops
<1>2. SetsOK'
  BY DEF SetsOK, Released
<1>3. FlagsOK'
  BY Zenon DEF FlagsOK
<1>4. Counted'
  BY DEF Counted, PlaceOK
<1>5. OneBody'
  BY DEF OneBody, PlaceOK, This, SetsOK, Requests
<1>6. Cancellable'
  BY DEF Cancellable, PlaceOK, FlagsOK, This, Released
<1>7. NothingKept'
  BY DEF NothingKept, PlaceOK, This, Released, SetsOK, Requests
<1>. QED
  BY <1>1, <1>2, <1>3, <1>4, <1>5, <1>6, <1>7

LEMMA NextRegistrySession ==
    ASSUME SessionInv, NEW c \in Callers, NextRegistry(c)
    PROVE  SessionInv'
<1> USE DEF SessionInv, NextRegistry, NewRequest, bodies
<1>1. PlaceOK'
  BY DEF PlaceOK, Hops
<1>2. SetsOK'
  BY DEF SetsOK
<1>3. FlagsOK'
  BY Zenon DEF FlagsOK
<1>4. Counted'
  BY DEF Counted, PlaceOK
<1>5. OneBody'
  BY DEF OneBody, PlaceOK, This, SetsOK, Requests
<1>6. Cancellable'
  BY DEF Cancellable, PlaceOK, FlagsOK, This
<1>7. NothingKept'
  BY DEF NothingKept, PlaceOK, This, SetsOK, Requests
<1>. QED
  BY <1>1, <1>2, <1>3, <1>4, <1>5, <1>6, <1>7

LEMMA CancelSession ==
    ASSUME SessionInv, NEW c \in Callers, CancelRequest(c)
    PROVE  SessionInv'
<1> USE DEF SessionInv, CancelRequest, bodies
<1>1. PlaceOK'
  BY DEF PlaceOK
<1>2. SetsOK' /\ Counted' /\ OneBody'
  BY DEF SetsOK, Counted, OneBody, This
<1>3. FlagsOK'
  <2>1. /\ (cancelled[c] \/ (hop[c] \in {"sent", "answered"} /\ This(c) \in modReq)) \in BOOLEAN
        /\ (lost[c] \/ (hop[c] = "recorded" /\ This(c) \in modReq)) \in BOOLEAN
    OBVIOUS
  <2>. QED
    BY Zenon, <2>1 DEF FlagsOK
<1>4. Cancellable'
  BY DEF Cancellable, PlaceOK, FlagsOK, This, SetsOK, Hops
<1>5. NothingKept'
  BY DEF NothingKept, PlaceOK, This
<1>. QED
  BY <1>1, <1>2, <1>3, <1>4, <1>5

-----------------------------------------------------------------------------

LEMMA SessionInvariance == SessionSpec => []SessionInv
<1>1. SessionInv /\ [SessionNext]_sessionVars => SessionInv'
  <2> SUFFICES ASSUME SessionInv, [SessionNext]_sessionVars PROVE SessionInv'
    OBVIOUS
  <2>1. CASE UNCHANGED sessionVars
    <3> USE <2>1 DEF SessionInv, sessionVars, callVars, bodies
    <3>1. PlaceOK' /\ SetsOK' /\ Counted' /\ OneBody' /\ Cancellable' /\ NothingKept'
      BY DEF PlaceOK, SetsOK, Counted, OneBody, Cancellable, NothingKept, This
    <3>2. FlagsOK'
      BY Zenon DEF FlagsOK
    <3>. QED
      BY <3>1, <3>2
  <2>2. CASE SessionNext
    <3>1. PICK c \in Callers :
              CallStep(c) \/ CancelRequest(c) \/ \E o \in Calls : Call(c, o)
      BY <2>2 DEF SessionNext
    <3>2. CASE CallStep(c)
      BY <3>2, RoundTripSession, SendSession, RespondSession, SendFailsSession, RedirectSession,
         NextRegistrySession, CallReturnsSession, LayerCloseSession DEF CallStep
    <3>. QED
      BY <3>1, <3>2, CallSession, CancelSession
  <2>. QED
    BY <2>1, <2>2
<1>. QED
  BY InitSession, <1>1, PTL DEF SessionSpec

\* Every variable keeps its type, and a caller without a call has no request
\* under way.
THEOREM SessionTypeCorrect == SessionSpec => []SessionTypeOK
<1>1. SessionInv => SessionTypeOK
  BY DEF SessionInv, PlaceOK, SetsOK, FlagsOK, SessionTypeOK
<1>. QED
  BY SessionInvariance, <1>1, PTL

\* Whoever made a request can cancel it while it is on its way, unless it was
\* passed on as it is or a cancel came too early: that one is lost, and with it
\* the possibility to cancel (session.go:113-163).
THEOREM RequestsCanBeCancelled == SessionSpec => []Cancellable
<1>1. SessionInv => Cancellable
  BY DEF SessionInv
<1>. QED
  BY SessionInvariance, <1>1, PTL

\* The transport keeps no request that is over, but where the code forgets its
\* body or always sets basic authentication.
THEOREM RequestsAreForgotten == SessionSpec => []NothingKept
<1>1. SessionInv => NothingKept
  BY DEF SessionInv
<1>. QED
  BY SessionInvariance, <1>1, PTL

=============================================================================
