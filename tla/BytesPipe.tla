------------------------------ MODULE BytesPipe ------------------------------
(***************************************************************************)
(* BytesPipe (pkg/ioutils/bytespipe.go, buffer.go): a queue of buffers of  *)
(* growing capacity between writers and readers, one mutex and one         *)
(* condition variable.  A goroutine that has the mutex takes one iteration *)
(* of its loop per step; the others may run while it waits.                *)
(*                                                                         *)
(* A byte is its number in the order in which it is handed to Write.       *)
(***************************************************************************)
EXTENDS Integers, Sequences, FiniteSets, SequencesExt

CONSTANTS
    Writers, Readers,   \* goroutines
    MinCap, MaxCap,     \* minCap, maxCap
    Threshold,          \* blockThreshold
    Sizes,              \* lengths of the slices handed to Write and Read
    MaxBytes,           \* bound: bytes written
    NoOne

Goroutines == Writers \cup Readers

ASSUME BytesPipeAssumption ==
    /\ Writers \cap Readers = {} /\ NoOne \notin Goroutines
    /\ MinCap \in Nat \ {0} /\ MaxCap \in Nat /\ MinCap <= MaxCap
    /\ Threshold \in Nat \ {0}
    /\ Sizes \subseteq Nat \ {0}
    /\ MaxBytes \in Nat

VARIABLES
    mu,        \* who has the mutex
    at,        \* where each goroutine is
    arg,       \* a writer's bytes that are left, a reader's room
    lastCap,   \* a writer's b.Cap()
    buf,       \* the buffers: capacity, bytes, and how many of them are read
    bufLen,
    closeErr,  \* the pipe is closed
    sent,      \* bytes handed to Write
    got,       \* bytes read
    ended      \* a reader was told of the end

pipe     == <<buf, bufLen, closeErr>>
history  == <<sent, got, ended>>
pipeVars == <<mu, at, arg, lastCap, pipe, history>>

Places == {"idle", "write", "full", "wsleep", "wwoken", "read", "rsleep", "rwoken"}

Least(a, b) == IF a < b THEN a ELSE b

-----------------------------------------------------------------------------
(* fixedBuffer.                                                               *)

getBuffer(cap) == [cap |-> cap, bytes |-> <<>>, read |-> 0]
Room(b)   == b.cap - Len(b.bytes)
Unread(b) == SubSeq(b.bytes, b.read + 1, Len(b.bytes))

BufferWrite(b, p, n) == [b EXCEPT !.bytes = @ \o SubSeq(p, 1, n)]
BufferRead(b, n) == [b EXCEPT !.read = @ + n]

-----------------------------------------------------------------------------

\* Whoever waits will try to get the mutex again.
Broadcast(places) ==
    [g \in Goroutines |-> CASE places[g] = "wsleep" -> "wwoken"
                            [] places[g] = "rsleep" -> "rwoken"
                            [] OTHER -> places[g]]

Lock(g) == mu = NoOne /\ mu' = g
Has(g, place) == mu = g /\ at[g] = place
Go(g, place) == at' = [at EXCEPT ![g] = place]

\* Return to the caller, with or without waking those who wait.
Return(g) == mu' = NoOne /\ Go(g, "idle")
\* Mutant: whoever returns does not tell anybody.
BroadcastReturn_Silent(g) == Return(g)

BroadcastReturn(g) == mu' = NoOne /\ at' = [Broadcast(at) EXCEPT ![g] = "idle"]

CallWrite(w, size) ==
    /\ at[w] = "idle"
    /\ sent + size <= MaxBytes
    /\ Lock(w)
    /\ Go(w, "write")
    /\ sent' = sent + size
    /\ arg' = [arg EXCEPT ![w] = [i \in 1 .. size |-> sent + i]]
    /\ UNCHANGED <<lastCap, pipe, got, ended>>

\* ErrClosed.
WriteClosed(w) ==
    /\ Has(w, "write")
    /\ closeErr
    /\ Return(w)
    /\ UNCHANGED <<arg, lastCap, pipe, history>>

\* Mutant: bytes that found no room are counted.
Write_CountsAll(w) ==
    LET bufs == IF buf = <<>> THEN <<getBuffer(MinCap)>> ELSE buf
        last == Len(bufs)
        n    == Least(Len(arg[w]), Room(bufs[last]))
    IN  /\ Has(w, "write")
        /\ ~closeErr
        /\ buf' = [bufs EXCEPT ![last] = BufferWrite(@, arg[w], n)]
        /\ bufLen' = bufLen + Len(arg[w])
        /\ arg' = [arg EXCEPT ![w] = SubSeq(@, n + 1, Len(@))]
        /\ lastCap' = [lastCap EXCEPT ![w] = bufs[last].cap]
        /\ IF n = Len(arg[w]) THEN BroadcastReturn(w) ELSE Go(w, "full") /\ UNCHANGED mu
        /\ UNCHANGED <<closeErr, history>>

\* Mutant: p is not cut after its first bytes went in.
Write_Again(w) ==
    LET bufs == IF buf = <<>> THEN <<getBuffer(MinCap)>> ELSE buf
        last == Len(bufs)
        n    == Least(Len(arg[w]), Room(bufs[last]))
    IN  /\ Has(w, "write")
        /\ ~closeErr
        /\ buf' = [bufs EXCEPT ![last] = BufferWrite(@, arg[w], n)]
        /\ bufLen' = bufLen + n
        /\ lastCap' = [lastCap EXCEPT ![w] = bufs[last].cap]
        /\ IF n = Len(arg[w]) THEN BroadcastReturn(w) ELSE Go(w, "full") /\ UNCHANGED mu
        /\ UNCHANGED <<arg, closeErr, history>>

\* What fits goes into the last buffer.
Write(w) ==
    LET bufs == IF buf = <<>> THEN <<getBuffer(MinCap)>> ELSE buf
        last == Len(bufs)
        n    == Least(Len(arg[w]), Room(bufs[last]))
    IN  /\ Has(w, "write")
        /\ ~closeErr
        /\ buf' = [bufs EXCEPT ![last] = BufferWrite(@, arg[w], n)]
        /\ bufLen' = bufLen + n
        /\ arg' = [arg EXCEPT ![w] = SubSeq(@, n + 1, Len(@))]
        /\ lastCap' = [lastCap EXCEPT ![w] = bufs[last].cap]
        /\ IF n = Len(arg[w]) THEN BroadcastReturn(w) ELSE Go(w, "full") /\ UNCHANGED mu
        /\ UNCHANGED <<closeErr, history>>

\* Mutant: the limit is not looked at.
Grow_Unlimited(w) ==
    /\ Has(w, "full")
    /\ buf' = Append(buf, getBuffer(Least(2 * lastCap[w], MaxCap)))
    /\ Go(w, "write")
    /\ UNCHANGED <<mu, arg, lastCap, bufLen, closeErr, history>>

\* Below the limit, the next buffer has twice the capacity.
Grow(w) ==
    /\ Has(w, "full")
    /\ bufLen < Threshold
    /\ buf' = Append(buf, getBuffer(Least(2 * lastCap[w], MaxCap)))
    /\ Go(w, "write")
    /\ UNCHANGED <<mu, arg, lastCap, bufLen, closeErr, history>>

\* Mutant: the writer sleeps with the mutex.
WriterWaits_Locked(w) ==
    /\ Has(w, "full")
    /\ bufLen >= Threshold
    /\ Go(w, "wsleep")
    /\ UNCHANGED <<mu, arg, lastCap, pipe, history>>

\* At the limit the writer waits.  Nobody is told of what it wrote so far.
WriterWaits(w) ==
    /\ Has(w, "full")
    /\ bufLen >= Threshold
    /\ mu' = NoOne
    /\ Go(w, "wsleep")
    /\ UNCHANGED <<arg, lastCap, pipe, history>>

WriterResumes(w) ==
    /\ at[w] = "wwoken"
    /\ Lock(w)
    /\ Go(w, IF closeErr THEN "write" ELSE "full")
    /\ UNCHANGED <<arg, lastCap, pipe, history>>

\* The end of a closed pipe, when the reader calls or after its wait.
ReadEnds(r) ==
    /\ at[r] \in {"idle", "rwoken"}
    /\ mu = NoOne
    /\ bufLen = 0 /\ closeErr
    /\ Go(r, "idle")
    /\ ended' = TRUE
    /\ UNCHANGED <<mu, arg, lastCap, pipe, sent, got>>

\* With nothing to read the reader waits, once.
CallRead(r, size) ==
    /\ at[r] = "idle"
    /\ arg' = [arg EXCEPT ![r] = size]
    /\ \/ bufLen > 0 /\ Lock(r) /\ Go(r, "read")
       \/ bufLen = 0 /\ ~closeErr /\ mu = NoOne /\ Go(r, "rsleep") /\ UNCHANGED mu
    /\ UNCHANGED <<lastCap, pipe, history>>

ReaderResumes(r) ==
    /\ at[r] = "rwoken"
    /\ ~(bufLen = 0 /\ closeErr)
    /\ Lock(r)
    /\ Go(r, "read")
    /\ UNCHANGED <<arg, lastCap, pipe, history>>

\* The first buffer is read; if that empties it, it goes.
Read(r) ==
    LET b == buf[1]
        n == Least(arg[r], Len(Unread(b)))
    IN  /\ Has(r, "read")
        /\ bufLen > 0
        /\ got' = got \o SubSeq(Unread(b), 1, n)
        /\ bufLen' = bufLen - n
        /\ buf' = IF n = Len(Unread(b)) THEN Tail(buf) ELSE [buf EXCEPT ![1] = BufferRead(@, n)]
        /\ arg' = [arg EXCEPT ![r] = @ - n]
        /\ IF n = arg[r] THEN BroadcastReturn(r) ELSE UNCHANGED <<mu, at>>
        /\ UNCHANGED <<lastCap, closeErr, sent, ended>>

\* There is no more: what was got is returned, were it nothing.
ReadReturns(r) ==
    /\ Has(r, "read")
    /\ bufLen = 0
    /\ BroadcastReturn(r)
    /\ UNCHANGED <<arg, lastCap, pipe, history>>

\* Mutant: nobody is told of the close.
CloseWithError_Silent ==
    /\ mu = NoOne
    /\ closeErr' = TRUE
    /\ UNCHANGED <<mu, at, arg, lastCap, buf, bufLen, history>>

\* Anyone may close the pipe, more than once.
CloseWithError ==
    /\ mu = NoOne
    /\ closeErr' = TRUE
    /\ at' = Broadcast(at)
    /\ UNCHANGED <<mu, arg, lastCap, buf, bufLen, history>>

\* A new pipe, or one that was closed and read to its end.
PipeFrom(over) ==
    /\ mu = NoOne
    /\ at = [g \in Goroutines |-> "idle"]
    /\ arg = [g \in Goroutines |-> IF g \in Writers THEN <<>> ELSE 0]
    /\ lastCap = [w \in Writers |-> 0]
    /\ buf = <<getBuffer(MinCap)>>
    /\ bufLen = 0 /\ closeErr = over
    /\ sent = 0 /\ got = <<>> /\ ended = over

PipeInit == PipeFrom(FALSE)

WriteStep(w) ==
    WriteClosed(w) \/ Write(w) \/ Grow(w) \/ WriterWaits(w) \/ WriterResumes(w)

ReadStep(r) == ReadEnds(r) \/ ReaderResumes(r) \/ Read(r) \/ ReadReturns(r)

PipeNext ==
    \/ \E w \in Writers : WriteStep(w) \/ \E size \in Sizes : CallWrite(w, size)
    \/ \E r \in Readers : ReadStep(r) \/ \E size \in Sizes : CallRead(r, size)
    \/ CloseWithError

\* A goroutine runs, gets the mutex, and the readers call Read again and again.
PipeFairness ==
    /\ \A w \in Writers : SF_pipeVars(WriteStep(w))
    /\ \A r \in Readers : SF_pipeVars(ReadStep(r) \/ \E size \in Sizes : CallRead(r, size))

PipeSpec == PipeInit /\ [][PipeNext]_pipeVars /\ PipeFairness

-----------------------------------------------------------------------------
(* Properties.                                                                *)

Buffers == [cap : 1 .. MaxCap, bytes : Seq(Nat), read : Nat]

\* Every variable has its type, and the mutex is with whoever runs inside.
PipeTypeOK ==
    /\ at \in [Goroutines -> Places]
    /\ mu \in Goroutines \cup {NoOne}
    /\ \A g \in Goroutines : at[g] \in {"write", "full", "read"} <=> mu = g
    /\ DOMAIN arg = Goroutines
    /\ \A w \in Writers : arg[w] \in Seq(Nat)
    /\ \A r \in Readers : arg[r] \in Nat
    /\ lastCap \in [Writers -> Nat]
    /\ buf \in Seq(Buffers)
    /\ \A i \in DOMAIN buf : buf[i].read <= Len(buf[i].bytes) /\ Len(buf[i].bytes) <= buf[i].cap
    /\ bufLen \in Int
    /\ sent \in Nat
    /\ closeErr \in BOOLEAN /\ ended \in BOOLEAN

\* What all the buffers hold, oldest first.
Content == FlattenSeq([i \in DOMAIN buf |-> Unread(buf[i])])

\* bufLen, which decides who waits, is what the buffers hold.
BufLenExact == bufLen = Len(Content)

\* However many writers go on after they waited, the pipe never holds more than
\* the limit and one buffer of the greatest capacity ("so the buffer won't be
\* overgrown", bytespipe.go:30).
Bounded == bufLen < Threshold + MaxCap

\* Nobody waits on a closed pipe: a writer at the limit, whose reader has gone,
\* is told, and so is the reader of an empty pipe.
NoSleepAfterClose ==
    closeErr => \A g \in Goroutines : at[g] \notin {"wsleep", "rsleep"}

\* What each Write has yet to put in.
Unwritten == [w \in Writers |-> arg[w]]

AsStream == INSTANCE Stream WITH writing <- Unwritten, queue <- Content, closed <- closeErr

\* The pipe is a stream: the bytes of a Write go in in their order and once,
\* whatever other writers put in between, all that went in is read once and in
\* order, nothing goes in after the close and no reader is told of the end before
\* it has everything.
PipeIsStream == AsStream!Spec

\* While readers read, every Write of at most Threshold bytes returns, if from
\* some time on no other begins.  Without that condition it need not: a writer
\* woken at the limit may find the pipe filled again by those that came before
\* it, for ever (sync.Cond and sync.Mutex keep no queue that bytespipe.go:89
\* could rely on).  A longer Write may wait at the limit for a reader that sleeps,
\* since it tells nobody of the bytes it has put in before it returns.
WritesReturn ==
    <>[][sent' = sent]_sent => \A w \in Writers : at[w] # "idle" ~> at[w] = "idle"

=============================================================================
