------------------------------ MODULE PullProofs ------------------------------
(***************************************************************************)
(* Theorems about Pull, for a layer of every size, every number of drops   *)
(* and every limit of failures: the layer is delivered in order, and the   *)
(* resumable reader gives up in time.                                      *)
(***************************************************************************)
EXTENDS Pull, SequenceTheorems, TLAPS

USE PullAssumption

ControlOK ==
    /\ stage \in PullStages
    /\ response.open \in BOOLEAN
    /\ stage # "reading" => response = NoResponse
    /\ drops \in 0 .. MaxDrops

FlagsOK == resumable \in BOOLEAN /\ paged \in BOOLEAN

BytesOK ==
    /\ out \in Seq(Nat) /\ response.body \in Seq(Nat)
    /\ lastRange = Len(out)
    /\ stage \in {"json", "layer"} => out = <<>>

\* Every request without a response is counted, but for the last.
FailuresOK ==
    /\ failures \in 0 .. MaxFail - 1
    /\ \/ refused = failures
       \/ refused = MaxFail /\ stage = "error"

\* Byte by byte: what was delivered, and what the open body still holds.
InOrder ==
    paged \/ (/\ Len(out) <= Size
              /\ \A i \in 1 .. Len(out) : out[i] = i
              /\ response.open =>
                    /\ Len(out) + Len(response.body) = Size
                    /\ \A i \in 1 .. Len(response.body) : response.body[i] = Len(out) + i
              /\ stage = "eof" => Len(out) = Size)

PullInv == ControlOK /\ FlagsOK /\ BytesOK /\ FailuresOK /\ InOrder

-----------------------------------------------------------------------------

LEMMA LayerIsSeq ==
    /\ Layer \in Seq(Nat) /\ Len(Layer) = Size /\ \A i \in 1 .. Size : Layer[i] = i
    /\ Page \in Seq(Nat)
    /\ <<>> \in Seq(Nat) /\ Len(<<>>) = 0
BY DEF PullAssumption, Layer, Page, Foreign

\* The two kinds of response.
LEMMA Responses ==
    /\ NoResponse.open = FALSE /\ NoResponse.body = <<>> /\ NoResponse.body \in Seq(Nat)
    /\ \A b \in Seq(Nat) : Body(b).open = TRUE /\ Body(b).body = b
BY DEF NoResponse, Body

\* The two parts of a body that is partly read.
LEMMA BodySplit ==
    ASSUME NEW b \in Seq(Nat), NEW n \in 0 .. Len(b)
    PROVE  /\ SubSeq(b, 1, n) \in Seq(Nat) /\ Len(SubSeq(b, 1, n)) = n
           /\ \A i \in 1 .. n : SubSeq(b, 1, n)[i] = b[i]
           /\ SubSeq(b, n + 1, Len(b)) \in Seq(Nat)
           /\ Len(SubSeq(b, n + 1, Len(b))) = Len(b) - n
           /\ \A i \in 1 .. Len(b) - n : SubSeq(b, n + 1, Len(b))[i] = b[n + i]
<1>1. Len(b) \in Nat /\ \A i \in 1 .. Len(b) : b[i] \in Nat
  BY LenProperties, ElementOfSeq
<1>2. SubSeq(b, 1, n) = [i \in 1 .. n |-> b[i]]
  BY <1>1
<1>3. SubSeq(b, n + 1, Len(b)) = [i \in 1 .. Len(b) - n |-> b[n + i]]
  BY <1>1
<1>. QED
  BY <1>1, <1>2, <1>3

\* Reading n bytes moves them from the body to what was delivered.
LEMMA Delivering ==
    ASSUME PullInv, response.open, NEW n \in 0 .. Len(response.body), Deliver(n)
    PROVE  /\ out' \in Seq(Nat) /\ lastRange' = Len(out') /\ Len(out') = Len(out) + n
           /\ ~paged => /\ Len(out') <= Size
                        /\ \A i \in 1 .. Len(out') : out'[i] = i
<1> DEFINE part == SubSeq(response.body, 1, n)
<1>0. /\ out \in Seq(Nat) /\ Len(out) \in Nat /\ response.body \in Seq(Nat)
      /\ Len(response.body) \in Nat /\ n \in Nat
  BY LenProperties DEF PullInv, BytesOK
<1>1. /\ part \in Seq(Nat) /\ Len(part) = n /\ \A i \in 1 .. n : part[i] = response.body[i]
  BY <1>0, BodySplit
<1> HIDE DEF part
<1>2. out' = out \o part /\ lastRange' = lastRange + n
  BY DEF Deliver, part
<1>3. out' \in Seq(Nat) /\ Len(out') = Len(out) + n
  BY <1>0, <1>1, <1>2, ConcatProperties
<1>4. ASSUME NEW i \in 1 .. Len(out) PROVE out'[i] = out[i]
  BY <1>0, <1>1, <1>2, ConcatProperties
<1>5. ASSUME NEW j \in 1 .. n PROVE out'[Len(out) + j] = part[j]
  BY <1>0, <1>1, <1>2, ConcatProperties
<1>6. ASSUME ~paged PROVE Len(out') <= Size /\ \A i \in 1 .. Len(out') : out'[i] = i
  <2>1. /\ Len(out) + Len(response.body) = Size
        /\ \A i \in 1 .. Len(out) : out[i] = i
        /\ \A i \in 1 .. Len(response.body) : response.body[i] = Len(out) + i
    BY <1>6 DEF PullInv, InOrder
  <2>2. ASSUME NEW i \in 1 .. Len(out) PROVE out'[i] = i
    <3>1. out[i] = i
      BY <2>1
    <3>. QED
      BY <1>4, <3>1
  <2>3. ASSUME NEW j \in 1 .. n PROVE out'[Len(out) + j] = Len(out) + j
    <3>1. j \in 1 .. Len(response.body)
      BY <1>0
    <3>2. response.body[j] = Len(out) + j
      BY <2>1, <3>1
    <3>3. part[j] = response.body[j]
      BY <1>1
    <3>. QED
      BY <1>5, <3>2, <3>3
  <2>4. ASSUME NEW i \in 1 .. Len(out) + n, i > Len(out) PROVE out'[i] = i
    <3>1. PICK j \in 1 .. n : i = Len(out) + j
      <4>1. i - Len(out) \in 1 .. n /\ i = Len(out) + (i - Len(out))
        BY <1>0, <2>4
      <4>. QED
        BY <4>1
    <3>. QED
      BY <2>3, <3>1
  <2>5. ASSUME NEW i \in 1 .. Len(out) + n PROVE out'[i] = i
    <3>1. CASE i > Len(out)
      BY <2>4, <3>1
    <3>2. CASE ~(i > Len(out))
      <4>1. i \in 1 .. Len(out)
        BY <1>0, <3>2
      <4>. QED
        BY <2>2, <4>1
    <3>. QED
      BY <3>1, <3>2
  <2>. QED
    BY <1>0, <1>3, <2>1, <2>5
<1>7. lastRange' = Len(out')
  BY <1>0, <1>2, <1>3 DEF PullInv, BytesOK
<1>. QED
  BY <1>3, <1>6, <1>7

\* What is left of the body after n more bytes.
After(n) == SubSeq(response.body, n + 1, Len(response.body))

\* The rest of a body, from where the delivered bytes end.
LEMMA Remainder ==
    ASSUME PullInv, response.open, NEW n \in 0 .. Len(response.body)
    PROVE  /\ After(n) \in Seq(Nat) /\ Len(After(n)) = Len(response.body) - n
           /\ ~paged => /\ Len(out) + n + Len(After(n)) = Size
                        /\ \A i \in 1 .. Len(After(n)) : After(n)[i] = Len(out) + n + i
<1>1. /\ out \in Seq(Nat) /\ Len(out) \in Nat /\ response.body \in Seq(Nat)
      /\ Len(response.body) \in Nat /\ n \in Nat
  BY LenProperties DEF PullInv, BytesOK
<1>2. /\ After(n) \in Seq(Nat) /\ Len(After(n)) = Len(response.body) - n
      /\ \A i \in 1 .. Len(response.body) - n : After(n)[i] = response.body[n + i]
  BY <1>1, BodySplit DEF After
<1>3. ASSUME ~paged
      PROVE  /\ Len(out) + n + Len(After(n)) = Size
             /\ \A i \in 1 .. Len(After(n)) : After(n)[i] = Len(out) + n + i
  <2>1. /\ Len(out) + Len(response.body) = Size
        /\ \A i \in 1 .. Len(response.body) : response.body[i] = Len(out) + i
    BY <1>3 DEF PullInv, InOrder
  <2>2. ASSUME NEW i \in 1 .. Len(After(n)) PROVE After(n)[i] = Len(out) + n + i
    <3>1. n + i \in 1 .. Len(response.body) /\ i \in 1 .. Len(response.body) - n
      BY <1>1, <1>2
    <3>2. response.body[n + i] = Len(out) + (n + i)
      BY <2>1, <3>1
    <3>3. After(n)[i] = response.body[n + i]
      BY <1>2, <3>1
    <3>. QED
      BY <1>1, <3>2, <3>3
  <2>3. Len(out) + n + Len(After(n)) = Size
    <3>1. PICK left \in Nat : left = Len(After(n))
      BY <1>2, LenProperties
    <3>2. Len(response.body) = left + n
      BY <1>1, <1>2, <3>1
    <3>3. Len(out) + n + left = Size
      BY <1>1, <2>1, <3>2
    <3>. QED
      BY Zenon, <3>1, <3>3
  <2>4. \A i \in 1 .. Len(After(n)) : After(n)[i] = Len(out) + n + i
    BY <2>2
  <2>. QED
    BY Zenon, <2>3, <2>4
<1>. QED
  BY <1>2, <1>3

-----------------------------------------------------------------------------

LEMMA InitPull == PullInit => PullInv
<1>1. PullInit => ControlOK /\ BytesOK /\ FailuresOK /\ InOrder
  BY LayerIsSeq DEF PullAssumption, PullInit, PullFrom, PullStages, NoResponse,
     ControlOK, BytesOK, FailuresOK, InOrder
<1>2. PullInit => FlagsOK
  BY Zenon DEF PullInit, PullFrom, FlagsOK
<1>. QED
  BY <1>1, <1>2 DEF PullInv

LEMMA KeptByGetRemoteImageJSON ==
    ASSUME PullInv, GetRemoteImageJSON PROVE PullInv'
<1>1. ControlOK' /\ BytesOK' /\ FailuresOK'
  BY DEF PullInv, ControlOK, BytesOK, FailuresOK, GetRemoteImageJSON, PullStages, NoResponse
<1>2. FlagsOK'
  BY Zenon DEF PullInv, FlagsOK, GetRemoteImageJSON
<1>3. InOrder'
  BY DEF PullInv, InOrder, GetRemoteImageJSON
<1>. QED
  BY <1>1, <1>2, <1>3 DEF PullInv

LEMMA KeptByGetRemoteImageLayer ==
    ASSUME PullInv, GetRemoteImageLayer PROVE PullInv'
<1>0. /\ response'.open \in BOOLEAN /\ response'.body \in Seq(Nat)
      /\ \/ stage' = "reading"
         \/ stage' = "error" /\ response' = NoResponse
  BY LayerIsSeq, Responses DEF GetRemoteImageLayer, Give
<1>1. ControlOK' /\ BytesOK' /\ FailuresOK'
  BY <1>0 DEF PullInv, ControlOK, BytesOK, FailuresOK, GetRemoteImageLayer, PullStages
<1>2. FlagsOK'
  BY Zenon DEF PullInv, FlagsOK, GetRemoteImageLayer
<1>3. InOrder'
  <2>1. Len(out) = 0 /\ out' = out
    BY LayerIsSeq DEF PullInv, BytesOK, GetRemoteImageLayer
  <2>2. CASE response' = Body(Layer) /\ stage' = "reading"
    BY LayerIsSeq, <2>1, <2>2 DEF PullAssumption, InOrder, Body
  <2>3. CASE Give("error")
    BY <2>1, <2>3 DEF PullAssumption, InOrder, Give, NoResponse
  <2>. QED
    BY <2>2, <2>3 DEF GetRemoteImageLayer
<1>. QED
  BY <1>1, <1>2, <1>3 DEF PullInv

LEMMA KeptByAskAgain ==
    ASSUME PullInv, AskAgain PROVE PullInv'
<1> DEFINE rest == SubSeq(Layer, lastRange + 1, Size)
<1>1. Len(out) \in Nat /\ out' = out /\ lastRange = Len(out)
  BY LenProperties DEF PullInv, BytesOK, AskAgain
<1>2. lastRange \in 1 .. Size - 1 =>
         /\ rest \in Seq(Nat) /\ Len(rest) = Size - lastRange
         /\ \A i \in 1 .. Len(rest) : rest[i] = lastRange + i
  <2>. SUFFICES ASSUME lastRange \in 1 .. Size - 1
                PROVE  /\ rest \in Seq(Nat) /\ Len(rest) = Size - lastRange
                       /\ \A i \in 1 .. Len(rest) : rest[i] = lastRange + i
    OBVIOUS
  <2>1. lastRange \in 0 .. Len(Layer)
    BY LayerIsSeq DEF PullAssumption
  <2>2. /\ rest \in Seq(Nat) /\ Len(rest) = Size - lastRange
        /\ \A i \in 1 .. Size - lastRange : rest[i] = Layer[lastRange + i]
    BY LayerIsSeq, BodySplit, <2>1
  <2>. HIDE DEF rest
  <2>3. ASSUME NEW i \in 1 .. Len(rest) PROVE rest[i] = lastRange + i
    <3>1. lastRange + i \in 1 .. Size /\ i \in 1 .. Size - lastRange
      BY <2>2 DEF PullAssumption
    <3>. QED
      BY LayerIsSeq, <2>2, <3>1
  <2>. QED
    BY <2>2, <2>3
<1> HIDE DEF rest
<1>3. \/ response' = Body(Layer) /\ lastRange = 0 /\ stage' = stage /\ paged' = paged
      \/ response' = Body(Page) /\ stage' = stage /\ paged'
      \/ lastRange \in 1 .. Size - 1 /\ response' = Body(rest) /\ stage' = stage /\ paged' = paged
      \/ lastRange >= Size /\ Give("eof") /\ paged' = paged
      \/ Give("error") /\ paged' = paged
  BY Zenon DEF AskAgain, rest
<1>4. stage = "reading"
  BY DEF AskAgain
<1>5. ControlOK' /\ BytesOK'
  <2>1. /\ response'.open \in BOOLEAN /\ response'.body \in Seq(Nat)
        /\ stage' \in PullStages \ {"json", "layer"}
        /\ stage' = "reading" \/ response' = NoResponse
    BY LayerIsSeq, Responses, <1>2, <1>3, <1>4 DEF Give, PullStages
  <2>. QED
    BY <1>1, <2>1 DEF PullInv, ControlOK, BytesOK, AskAgain
<1>6. FailuresOK'
  BY <1>4 DEF PullInv, FailuresOK, AskAgain
<1>7. FlagsOK'
  BY Zenon DEF PullInv, FlagsOK, AskAgain
<1>8. InOrder'
  <2>1. CASE response' = Body(Layer) /\ lastRange = 0 /\ stage' = stage /\ paged' = paged
    BY LayerIsSeq, <1>1, <1>4, <2>1 DEF PullAssumption, InOrder, Body
  <2>2. CASE response' = Body(Page) /\ stage' = stage /\ paged'
    BY <2>2 DEF InOrder
  <2>3. CASE /\ lastRange \in 1 .. Size - 1 /\ response' = Body(rest)
             /\ stage' = stage /\ paged' = paged
    <3>1. response'.open = TRUE /\ response'.body = rest
      BY <1>2, <2>3, Responses
    <3>2. stage' = "reading"
      BY <1>4, <2>3
    <3>. QED
      BY <1>1, <1>2, <2>3, <3>1, <3>2 DEF PullAssumption, PullInv, InOrder
  <2>4. CASE lastRange >= Size /\ Give("eof") /\ paged' = paged
    BY <1>1, <2>4 DEF PullAssumption, PullInv, InOrder, Give, NoResponse
  <2>5. CASE Give("error") /\ paged' = paged
    BY <1>1, <2>5 DEF PullInv, InOrder, Give, NoResponse
  <2>. QED
    BY <1>3, <2>1, <2>2, <2>3, <2>4, <2>5
<1>. QED
  BY <1>5, <1>6, <1>7, <1>8 DEF PullInv

LEMMA KeptByAskAgainFails ==
    ASSUME PullInv, AskAgainFails PROVE PullInv'
<1>0. \/ stage' = stage /\ response' = response
      \/ stage' = "error" /\ response' = NoResponse
  BY DEF AskAgainFails, Give
<1>1. ControlOK' /\ BytesOK'
  BY <1>0, Responses DEF PullInv, ControlOK, BytesOK, AskAgainFails, PullStages
<1>2. FailuresOK'
  BY DEF PullAssumption, PullInv, FailuresOK, AskAgainFails, Give
<1>3. FlagsOK'
  BY Zenon DEF PullInv, FlagsOK, AskAgainFails
<1>4. InOrder'
  BY DEF PullInv, InOrder, AskAgainFails, Give, NoResponse
<1>. QED
  BY <1>1, <1>2, <1>3, <1>4 DEF PullInv

LEMMA KeptByReadSome ==
    ASSUME PullInv, ReadSome PROVE PullInv'
<1>1. PICK n \in 1 .. Len(response.body) :
         Deliver(n) /\ response' = Body(After(n))
  BY Zenon DEF ReadSome, After
<1>2. response.open /\ stage = "reading" /\ stage' = "reading" /\ paged' = paged
  BY Zenon DEF ReadSome
<1>3. n \in 0 .. Len(response.body)
  OBVIOUS
<1>4. /\ out' \in Seq(Nat) /\ lastRange' = Len(out') /\ Len(out') = Len(out) + n
      /\ ~paged => Len(out') <= Size /\ \A i \in 1 .. Len(out') : out'[i] = i
  BY Delivering, <1>1, <1>2, <1>3
<1>5. /\ After(n) \in Seq(Nat)
      /\ ~paged => /\ Len(out) + n + Len(After(n)) = Size
                   /\ \A i \in 1 .. Len(After(n)) : After(n)[i] = Len(out) + n + i
  BY Remainder, <1>2, <1>3
<1>6. response' = [open |-> TRUE, body |-> After(n)]
  BY Zenon, <1>1 DEF Body
<1>7. ControlOK' /\ BytesOK'
  BY <1>2, <1>4, <1>5, <1>6 DEF PullInv, ControlOK, BytesOK, ReadSome, PullStages
<1>8. FailuresOK'
  BY <1>2 DEF PullInv, FailuresOK, ReadSome
<1>9. FlagsOK'
  BY Zenon DEF PullInv, FlagsOK, ReadSome
<1>10. InOrder'
  BY <1>2, <1>4, <1>5, <1>6 DEF InOrder
<1>. QED
  BY <1>7, <1>8, <1>9, <1>10 DEF PullInv

LEMMA KeptByReadEnd ==
    ASSUME PullInv, ReadEnd PROVE PullInv'
<1>1. ControlOK' /\ BytesOK'
  BY LayerIsSeq DEF PullInv, ControlOK, BytesOK, ReadEnd, Give, PullStages, NoResponse
<1>2. FailuresOK'
  BY DEF PullInv, FailuresOK, ReadEnd, Give
<1>3. FlagsOK'
  BY Zenon DEF PullInv, FlagsOK, ReadEnd
<1>4. InOrder'
  <2>1. Len(response.body) = 0 /\ response.open /\ out' = out /\ Len(out) \in Nat
    BY LayerIsSeq, LenProperties DEF PullInv, BytesOK, ReadEnd
  <2>. QED
    BY <2>1 DEF PullInv, InOrder, ReadEnd, Give, NoResponse
<1>. QED
  BY <1>1, <1>2, <1>3, <1>4 DEF PullInv

LEMMA KeptByReadDrops ==
    ASSUME PullInv, ReadDrops PROVE PullInv'
<1>1. PICK n \in 0 .. Len(response.body) : Deliver(n)
  BY Zenon DEF ReadDrops
<1>2. response.open /\ stage = "reading" /\ paged' = paged
  BY Zenon DEF ReadDrops
<1>3. /\ out' \in Seq(Nat) /\ lastRange' = Len(out')
      /\ ~paged => Len(out') <= Size /\ \A i \in 1 .. Len(out') : out'[i] = i
  BY Delivering, <1>1, <1>2
<1>4. response' = NoResponse /\ stage' \in {"reading", "error"}
  BY <1>2 DEF ReadDrops, Give
<1>5. ControlOK' /\ BytesOK'
  BY LayerIsSeq, <1>2, <1>3, <1>4
  DEF PullInv, ControlOK, BytesOK, ReadDrops, PullStages, NoResponse, PullAssumption
<1>6. FailuresOK'
  BY <1>2 DEF PullInv, FailuresOK, ReadDrops
<1>7. FlagsOK'
  BY Zenon DEF PullInv, FlagsOK, ReadDrops
<1>8. InOrder'
  BY <1>2, <1>3, <1>4 DEF InOrder, NoResponse
<1>. QED
  BY <1>5, <1>6, <1>7, <1>8 DEF PullInv

LEMMA KeptByCloseReader ==
    ASSUME PullInv, CloseReader PROVE PullInv'
<1>1. ControlOK' /\ BytesOK'
  BY LayerIsSeq DEF PullInv, ControlOK, BytesOK, CloseReader, Give, PullStages, NoResponse
<1>2. FailuresOK'
  BY DEF PullInv, FailuresOK, CloseReader, Give
<1>3. FlagsOK'
  BY Zenon DEF PullInv, FlagsOK, CloseReader
<1>4. InOrder'
  BY DEF PullInv, InOrder, CloseReader, Give, NoResponse
<1>. QED
  BY <1>1, <1>2, <1>3, <1>4 DEF PullInv

\* PullInv is inductive.
LEMMA PullInductive == PullSpec => []PullInv
<1>1. ASSUME PullInv, [PullNext]_pullVars PROVE PullInv'
  <2>1. CASE UNCHANGED pullVars
    <3>1. ControlOK' /\ BytesOK' /\ FailuresOK' /\ InOrder'
      BY <1>1, <2>1 DEF pullVars, PullInv, ControlOK, BytesOK, FailuresOK, InOrder
    <3>2. FlagsOK'
      BY Zenon, <1>1, <2>1 DEF pullVars, PullInv, FlagsOK
    <3>. QED
      BY <3>1, <3>2 DEF PullInv
  <2>2. CASE PullNext
    BY <1>1, <2>2, KeptByGetRemoteImageJSON, KeptByGetRemoteImageLayer, KeptByAskAgain,
       KeptByAskAgainFails, KeptByReadSome, KeptByReadEnd, KeptByReadDrops, KeptByCloseReader
    DEF PullNext, PullStep
  <2>. QED
    BY <1>1, <2>1, <2>2
<1>. QED
  BY <1>1, InitPull, PTL DEF PullSpec

-----------------------------------------------------------------------------
(* Theorems.                                                                  *)

\* Type correctness of the pull of a layer (session.go:274-356, resumablerequestreader.go).
THEOREM PullTypeCorrect == PullSpec => []PullTypeOK
<1>1. PullInv => PullTypeOK
  <2>1. FlagsOK => resumable \in BOOLEAN /\ paged \in BOOLEAN
    BY Zenon DEF FlagsOK
  <2>. QED
    BY <2>1 DEF PullAssumption, PullInv, ControlOK, BytesOK, FailuresOK, PullTypeOK
<1>. QED
  BY <1>1, PullInductive, PTL

\* A failed request ends the pull if and only if it is the maxFailures-th
\* (resumablerequestreader.go:59-63).
THEOREM GivingUp == PullSpec => GivesUpInTime
<1>1. ASSUME PullInv, PullNext, refused' # refused
      PROVE  refused' = MaxFail <=> stage' = "error"
  <2>1. AskAgainFails
    BY <1>1 DEF PullNext, PullStep, GetRemoteImageJSON, GetRemoteImageLayer, AskAgain,
                ReadSome, ReadEnd, ReadDrops, CloseReader
  <2>2. stage = "reading" /\ refused = failures /\ failures \in 0 .. MaxFail - 1
    BY <1>1, <2>1 DEF PullInv, FailuresOK, AskAgainFails
  <2>3. CASE failures + 1 # MaxFail
    BY <2>1, <2>2, <2>3 DEF AskAgainFails, PullAssumption
  <2>4. CASE failures + 1 = MaxFail
    BY <2>1, <2>2, <2>4 DEF AskAgainFails, Give, PullAssumption
  <2>. QED
    BY <2>3, <2>4
<1>2. PullInv /\ [PullNext]_pullVars
         => (refused' # refused => (refused' = MaxFail <=> stage' = "error"))
  BY <1>1 DEF pullVars
<1>. QED
  BY <1>2, PullInductive, PTL DEF PullSpec, GivesUpInTime

\* Whatever drops and fails, the bytes delivered are the layer's, in order and
\* without a gap, unless a page was taken for the layer before its first byte
\* (resumablerequestreader.go:49-87).
THEOREM DeliveredInOrder == PullSpec => []LayerInOrder
<1>1. ASSUME PullInv, ~paged PROVE IsPrefix(out, Layer)
  <2>1. /\ out \in Seq(Nat) /\ Len(out) \in Nat /\ Len(out) <= Size
        /\ \A i \in 1 .. Len(out) : out[i] = i
    BY <1>1, LenProperties DEF PullInv, BytesOK, InOrder
  <2>2. Len(out) \in 0 .. Len(Layer)
    BY <2>1, LayerIsSeq DEF PullAssumption
  <2>3. /\ SubSeq(Layer, 1, Len(out)) \in Seq(Nat)
        /\ Len(SubSeq(Layer, 1, Len(out))) = Len(out)
        /\ \A i \in 1 .. Len(out) : SubSeq(Layer, 1, Len(out))[i] = Layer[i]
    BY <2>2, LayerIsSeq, BodySplit
  <2>4. SubSeq(Layer, 1, Len(out)) = SubSeq(out, 1, Len(out))
    <3>1. Len(out) \in 0 .. Len(out)
      BY <2>1
    <3>2. /\ SubSeq(out, 1, Len(out)) \in Seq(Nat)
          /\ Len(SubSeq(out, 1, Len(out))) = Len(out)
          /\ \A i \in 1 .. Len(out) : SubSeq(out, 1, Len(out))[i] = out[i]
      BY <2>1, <3>1, BodySplit
    <3>3. ASSUME NEW i \in 1 .. Len(out)
          PROVE  SubSeq(Layer, 1, Len(out))[i] = SubSeq(out, 1, Len(out))[i]
      <4>1. i \in 1 .. Size
        BY <2>1 DEF PullAssumption
      <4>. QED
        BY <2>1, <2>3, <3>2, <4>1, LayerIsSeq
    <3>. QED
      BY <2>3, <3>2, <3>3, SeqEqual
  <2>. QED
    BY <2>1, <2>2, <2>4, LayerIsSeq DEF IsPrefix
<1>2. ASSUME PullInv, ~paged, response.open PROVE out \o response.body = Layer
  <2> DEFINE whole == out \o response.body
  <2>1. /\ out \in Seq(Nat) /\ Len(out) \in Nat
        /\ response.body \in Seq(Nat) /\ Len(response.body) \in Nat
        /\ Len(out) + Len(response.body) = Size
        /\ \A i \in 1 .. Len(out) : out[i] = i
        /\ \A i \in 1 .. Len(response.body) : response.body[i] = Len(out) + i
    BY <1>2, LenProperties DEF PullInv, BytesOK, InOrder
  <2>2. whole \in Seq(Nat) /\ Len(whole) = Size
    BY <2>1, ConcatProperties
  <2>3. ASSUME NEW i \in 1 .. Len(out) PROVE whole[i] = out[i]
    BY <2>1, ConcatProperties
  <2>4. ASSUME NEW j \in 1 .. Len(response.body) PROVE whole[Len(out) + j] = response.body[j]
    BY <2>1, ConcatProperties
  <2> HIDE DEF whole
  <2>5. ASSUME NEW i \in 1 .. Size PROVE whole[i] = i
    <3>1. CASE i <= Len(out)
      <4>1. i \in 1 .. Len(out)
        BY <2>1, <3>1 DEF PullAssumption
      <4>2. out[i] = i
        BY <2>1, <4>1
      <4>. QED
        BY <2>3, <4>1, <4>2
    <3>2. CASE ~(i <= Len(out))
      <4>1. i - Len(out) \in 1 .. Len(response.body) /\ i = Len(out) + (i - Len(out))
        BY <2>1, <3>2 DEF PullAssumption
      <4>2. PICK j \in 1 .. Len(response.body) : i = Len(out) + j
        BY <4>1
      <4>3. response.body[j] = Len(out) + j
        BY <2>1
      <4>. QED
        BY <2>4, <4>2, <4>3
    <3>. QED
      BY <3>1, <3>2
  <2>. QED
    BY <2>2, <2>5, LayerIsSeq, SeqEqual DEF whole
<1>3. ASSUME PullInv, ~paged, stage = "eof" PROVE out = Layer
  <2>1. /\ out \in Seq(Nat) /\ Len(out) = Size /\ \A i \in 1 .. Len(out) : out[i] = i
    BY <1>3 DEF PullInv, BytesOK, InOrder
  <2>. QED
    BY <2>1, LayerIsSeq, SeqEqual
<1>4. PullInv => LayerInOrder
  BY Zenon, <1>1, <1>2, <1>3 DEF LayerInOrder
<1>. QED
  BY <1>4, PullInductive, PTL

=============================================================================
