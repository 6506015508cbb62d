--------------------------------- MODULE Pull ---------------------------------
(***************************************************************************)
(* One layer from a V1 registry: Session.GetRemoteImageJSON for its size,  *)
(* Session.GetRemoteImageLayer for the first response, and the resumable   *)
(* reader (pkg/httputils/resumablerequestreader.go) that asks again, from  *)
(* where it was, when the connection drops.                                *)
(*                                                                         *)
(* A byte of the layer is its position; a page that is not the layer, such *)
(* as one that says "busy", consists of the byte Foreign.  A registry      *)
(* says how long its answers are, so an early end is an error of the body. *)
(***************************************************************************)
EXTENDS Naturals, Sequences, SequencesExt

CONSTANTS
    Size,           \* bytes of the layer
    PageSize,       \* bytes of any other page
    MaxFail,        \* maxFailures; GetRemoteImageLayer says 5
    MaxDrops        \* bound: connections that drop

ASSUME PullAssumption ==
    /\ Size \in Nat \ {0} /\ PageSize \in Nat \ {0}
    /\ MaxFail \in Nat \ {0}
    /\ MaxDrops \in Nat

Foreign == 0
Layer   == [i \in 1 .. Size |-> i]
Page    == [i \in 1 .. PageSize |-> Foreign]

NoResponse == [open |-> FALSE, body |-> <<>>]
Body(bytes) == [open |-> TRUE, body |-> bytes]

VARIABLES
    stage,       \* where the puller is
    resumable,   \* the reader is a resumable one; else the bare body
    response,    \* currentResponse and what is left of its body
    lastRange,   \* bytes delivered
    failures,
    out,         \* the bytes delivered
    paged,       \* history: a page was taken for the layer
    refused,     \* history: requests that got no response
    drops        \* counter for the bound

pullVars == <<stage, resumable, response, lastRange, failures, out, paged, refused, drops>>

PullStages == {"json", "layer", "reading", "eof", "error", "closed"}
PullEnded  == {"eof", "error", "closed"}

Give(result) == stage' = result /\ response' = NoResponse

\* GetRemoteImageJSON: without a size, or with a registry that does not accept
\* ranges, the body is all there is.  A failure, or a size that cannot be
\* parsed, ends it.
GetRemoteImageJSON ==
    /\ stage = "json"
    /\ \/ stage' = "layer" /\ resumable' \in BOOLEAN
       \/ stage' = "error" /\ UNCHANGED resumable
    /\ UNCHANGED <<response, lastRange, failures, out, paged, refused, drops>>

\* GetRemoteImageLayer: only status 200 will do.
GetRemoteImageLayer ==
    /\ stage = "layer"
    /\ \/ stage' = "reading" /\ response' = Body(Layer)
       \/ Give("error")
    /\ UNCHANGED <<resumable, lastRange, failures, out, paged, refused, drops>>

\* Mutant: a new request is answered from the start and read on from there.
AskAgain_NoRange ==
    /\ stage = "reading" /\ resumable /\ ~response.open
    /\ response' = Body(Layer)
    /\ UNCHANGED <<stage, resumable, lastRange, failures, out, paged, refused, drops>>

\* A new request is answered.  Past the first byte it asks for a range, and
\* only status 206 will do, or 416 where nothing is left.  Before the first
\* byte nobody looks at the status.
AskAgain ==
    /\ stage = "reading" /\ resumable /\ ~response.open
    /\ \/ /\ lastRange = 0
          /\ \/ response' = Body(Layer) /\ UNCHANGED paged
             \/ response' = Body(Page) /\ paged' = TRUE
          /\ UNCHANGED stage
       \/ /\ lastRange \in 1 .. Size - 1
          /\ response' = Body(SubSeq(Layer, lastRange + 1, Size))
          /\ UNCHANGED <<stage, paged>>
       \/ /\ lastRange >= Size
          /\ Give("eof")
          /\ UNCHANGED paged
       \/ /\ lastRange # 0
          /\ Give("error")
          /\ UNCHANGED paged
    /\ UNCHANGED <<resumable, lastRange, failures, out, drops, refused>>

\* Mutant: failures are not counted.
AskAgainFails_Uncounted ==
    /\ stage = "reading" /\ resumable /\ ~response.open
    /\ refused' = refused + 1
    /\ IF failures + 1 # MaxFail THEN UNCHANGED <<stage, response>> ELSE Give("error")
    /\ UNCHANGED <<resumable, lastRange, failures, out, paged, drops>>

\* A request fails: the last of MaxFail failures is the end.
AskAgainFails ==
    /\ stage = "reading" /\ resumable /\ ~response.open
    /\ refused' = refused + 1
    /\ IF failures + 1 # MaxFail
       THEN failures' = failures + 1 /\ UNCHANGED <<stage, response>>
       ELSE Give("error") /\ UNCHANGED failures
    /\ UNCHANGED <<resumable, lastRange, out, paged, drops>>

\* Mutant: the offset is that of the last read only.
Deliver_LastRead(n) ==
    /\ out' = out \o SubSeq(response.body, 1, n)
    /\ lastRange' = n

\* n bytes are read.
Deliver(n) ==
    /\ out' = out \o SubSeq(response.body, 1, n)
    /\ lastRange' = lastRange + n

\* Read of the body: some bytes, ...
ReadSome ==
    /\ stage = "reading" /\ response.open
    /\ \E n \in 1 .. Len(response.body) :
          Deliver(n) /\ response' = Body(SubSeq(response.body, n + 1, Len(response.body)))
    /\ UNCHANGED <<stage, resumable, failures, paged, refused, drops>>

\* Mutant: the end of a body is hidden, as if it had broken off.
ReadEnd_Hidden ==
    /\ stage = "reading" /\ response.open
    /\ response.body = <<>>
    /\ response' = NoResponse
    /\ UNCHANGED <<stage, resumable, lastRange, failures, out, paged, refused, drops>>

\* ... or the end of it, ...
ReadEnd ==
    /\ stage = "reading" /\ response.open
    /\ response.body = <<>>
    /\ Give("eof")
    /\ UNCHANGED <<resumable, lastRange, failures, out, paged, refused, drops>>

\* ... or some bytes before the connection drops.  The resumable reader hides
\* that; the bare body does not.
ReadDrops ==
    /\ stage = "reading" /\ response.open
    /\ drops < MaxDrops /\ drops' = drops + 1
    /\ \E n \in 0 .. Len(response.body) : Deliver(n)
    /\ IF resumable THEN response' = NoResponse /\ UNCHANGED stage ELSE Give("error")
    /\ UNCHANGED <<resumable, failures, paged, refused>>

\* The caller closes the reader.
CloseReader ==
    /\ stage = "reading"
    /\ Give("closed")
    /\ UNCHANGED <<resumable, lastRange, failures, out, paged, refused, drops>>

PullFrom(start) ==
    /\ stage = start /\ resumable = FALSE /\ response = NoResponse
    /\ lastRange = 0 /\ failures = 0 /\ out = <<>> /\ paged = FALSE
    /\ drops = 0 /\ refused = 0

PullInit == PullFrom("json")

PullStep ==
    \/ GetRemoteImageJSON \/ GetRemoteImageLayer
    \/ AskAgain \/ AskAgainFails \/ ReadSome \/ ReadEnd \/ ReadDrops

PullNext == PullStep \/ CloseReader

\* The caller reads on.
PullSpec == PullInit /\ [][PullNext]_pullVars /\ WF_pullVars(PullStep)

-----------------------------------------------------------------------------
(* Properties.                                                                *)

\* Every variable has its type.
PullTypeOK ==
    /\ stage \in PullStages
    /\ resumable \in BOOLEAN /\ paged \in BOOLEAN
    /\ response.open \in BOOLEAN
    /\ lastRange = Len(out)
    /\ failures \in 0 .. MaxFail - 1
    /\ drops \in 0 .. MaxDrops /\ refused \in Nat

\* However often the connection dropped and requests failed, what was delivered
\* is the beginning of the layer, and at the end the layer ("resume reading a
\* request's body transparently", resumablerequestreader.go:22) -- except that,
\* after a drop before the first byte, a page may be taken for it.
LayerInOrder ==
    paged \/ (/\ IsPrefix(out, Layer)
              /\ response.open => out \o response.body = Layer
              /\ stage = "eof" => out = Layer)

\* A request without a response ends the pull if and only if it is the
\* MaxFail-th of them, neither sooner nor later, whatever was read between them:
\* the counter is never reset.  (So the reader retries MaxFail - 1 times, where
\* resumablerequestreader.go:23 says maxfail.)
GivesUpInTime ==
    [][refused' # refused => (refused' = MaxFail <=> stage' = "error")]_pullVars

\* Every pull comes to an end that its caller sees.
PullEnds == <>(stage \in PullEnded)

=============================================================================
