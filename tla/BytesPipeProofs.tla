--------------------------- MODULE BytesPipeProofs ---------------------------
(***************************************************************************)
(* Theorems about BytesPipe, for every number of goroutines, every         *)
(* capacity and every limit: its variables keep their types, it never      *)
(* holds more than the limit and one buffer, nobody sleeps on a closed     *)
(* pipe, bufLen is what the buffers hold, and the pipe is a stream.        *)
(*                                                                         *)
(* FlattenSeq is recursive.  What is needed of it is stated by partial     *)
(* concatenations (Joins), as what is needed of bufLen is by partial sums  *)
(* (Sums): one exists for the content (JoinsContents), no two differ       *)
(* (JoinsSame), and each operation on the buffers changes it in a way that *)
(* needs no induction (JoinsAppend, JoinsLast, JoinsFirst).                *)
(***************************************************************************)
EXTENDS BytesPipe, SequenceTheorems, WellFoundedInduction, TLAPS

\* What is left to read of a buffer.
Left(b) == Len(b.bytes) - b.read

BufferOK(b) == b \in Buffers /\ b.read <= Len(b.bytes) /\ Len(b.bytes) <= b.cap

Inside == {"write", "full", "read"}
Asleep == {"wsleep", "rsleep"}

\* The mutex is with whoever runs inside; nobody sleeps or goes to sleep on a
\* closed pipe.
PlaceOK ==
    /\ at \in [Goroutines -> Places]
    /\ mu \in Goroutines \cup {NoOne}
    /\ \A g \in Goroutines : at[g] \in Inside <=> mu = g
    /\ closeErr => \A g \in Goroutines : at[g] \notin Asleep \cup {"full"}

FlagsOK == closeErr \in BOOLEAN /\ ended \in BOOLEAN

\* A writer that found no room has seen a buffer.
ArgOK ==
    /\ DOMAIN arg = Goroutines
    /\ \A w \in Writers : arg[w] \in Seq(Nat)
    /\ \A r \in Readers : arg[r] \in Nat
    /\ lastCap \in [Writers -> Nat]
    /\ \A w \in Writers : at[w] \in {"full", "wsleep", "wwoken"} => lastCap[w] > 0
    /\ sent \in Nat

\* The buffers hold total bytes in all: there are partial sums to show it.
Sums(bufs, total) ==
    \E s \in [0 .. Len(bufs) -> Int] :
        /\ s[0] = 0
        /\ \A i \in 1 .. Len(bufs) : s[i] = s[i - 1] + Left(bufs[i])
        /\ s[Len(bufs)] = total

\* Without the last buffer the pipe is below its limit.
BufOK ==
    /\ buf \in Seq(Buffers) /\ \A i \in 1 .. Len(buf) : BufferOK(buf[i])
    /\ bufLen \in Int
    /\ Sums(buf, bufLen)
    /\ Len(buf) > 0 => bufLen - Left(buf[Len(buf)]) < Threshold

PipeInv == PlaceOK /\ FlagsOK /\ ArgOK /\ BufOK

-----------------------------------------------------------------------------
(* One buffer.                                                                *)

LEMMA BufferFacts ==
    ASSUME NEW b, BufferOK(b)
    PROVE  /\ b.cap \in 1 .. MaxCap /\ b.bytes \in Seq(Nat) /\ b.read \in Nat
           /\ Len(b.bytes) \in Nat
           /\ Left(b) \in Nat /\ Left(b) <= MaxCap /\ Left(b) = Len(Unread(b))
           /\ Room(b) \in Nat
<1>1. b.cap \in 1 .. MaxCap /\ b.bytes \in Seq(Nat) /\ b.read \in Nat
  BY DEF BufferOK, Buffers
<1>2. PICK bytes, k : bytes = b.bytes /\ k = b.read
  OBVIOUS
<1>3. bytes \in Seq(Nat) /\ k \in Nat /\ Len(bytes) \in Nat /\ k <= Len(bytes)
  BY <1>1, <1>2, LenProperties DEF BufferOK
<1>4. Len(SubSeq(bytes, k + 1, Len(bytes))) = Len(bytes) - k
  BY <1>3
<1>5. Len(bytes) <= b.cap /\ MaxCap \in Nat
  BY <1>2, BytesPipeAssumption DEF BufferOK
<1>6. Left(b) = Len(bytes) - k /\ Room(b) = b.cap - Len(bytes)
      /\ Unread(b) = SubSeq(bytes, k + 1, Len(bytes))
  BY <1>2 DEF Left, Room, Unread
<1>7. Left(b) \in Nat /\ Left(b) <= MaxCap /\ Left(b) = Len(Unread(b)) /\ Room(b) \in Nat
  BY <1>1, <1>3, <1>4, <1>5, <1>6
<1>. QED
  BY <1>1, <1>2, <1>3, <1>7

LEMMA NewBuffer ==
    ASSUME NEW c \in 1 .. MaxCap
    PROVE  BufferOK(getBuffer(c)) /\ Left(getBuffer(c)) = 0
BY DEF BufferOK, Buffers, Left, getBuffer

\* The bytes of p that are written are left to be read.
LEMMA WrittenBuffer ==
    ASSUME NEW b, BufferOK(b), NEW p \in Seq(Nat),
           NEW n \in Nat, n <= Len(p), n <= Room(b)
    PROVE  /\ BufferOK(BufferWrite(b, p, n))
           /\ Left(BufferWrite(b, p, n)) = Left(b) + n
           /\ BufferWrite(b, p, n).cap = b.cap
<1>0. b \in Buffers
  BY DEF BufferOK
<1>1. PICK c, bytes, k : /\ c = b.cap /\ bytes = b.bytes /\ k = b.read
                         /\ c \in 1 .. MaxCap /\ bytes \in Seq(Nat) /\ k \in Nat
                         /\ k <= Len(bytes) /\ Len(bytes) <= c /\ Len(bytes) \in Nat
  BY BufferFacts DEF BufferOK
<1>2. n <= c - Len(bytes)
  BY <1>1 DEF Room
<1>3. SubSeq(p, 1, n) \in Seq(Nat) /\ Len(SubSeq(p, 1, n)) = n
  BY LenProperties
<1>4. PICK more \in Seq(Nat) : more = bytes \o SubSeq(p, 1, n) /\ Len(more) = Len(bytes) + n
  <2>1. PICK part \in Seq(Nat) : part = SubSeq(p, 1, n) /\ Len(part) = n
    BY <1>3
  <2>2. bytes \o part \in Seq(Nat) /\ Len(bytes \o part) = Len(bytes) + n
    <3>1. bytes \in Seq(Nat) /\ part \in Seq(Nat) /\ Len(part) = n
      BY <1>1, <2>1
    <3>. QED
      BY <3>1, ConcatProperties
  <2>. QED
    BY <2>1, <2>2
<1>5. BufferWrite(b, p, n) = [b EXCEPT !.bytes = more]
  BY <1>1, <1>4 DEF BufferWrite
<1>6. BufferWrite(b, p, n) = [cap |-> c, bytes |-> more, read |-> k]
  BY <1>0, <1>1, <1>5 DEF Buffers
<1>7. BufferOK([cap |-> c, bytes |-> more, read |-> k])
  BY <1>1, <1>2, <1>4 DEF BufferOK, Buffers
<1>8. Left([cap |-> c, bytes |-> more, read |-> k]) = (Len(bytes) - k) + n
  <2>1. Left([cap |-> c, bytes |-> more, read |-> k]) = Len(more) - k
    BY DEF Left
  <2>2. Len(more) = Len(bytes) + n /\ Len(bytes) \in Nat /\ k \in Nat
    BY <1>1, <1>4
  <2>3. Len(more) - k = (Len(bytes) - k) + n
    BY <2>2
  <2>. QED
    BY <2>1, <2>3
<1>9. Left(b) = Len(bytes) - k
  BY <1>1 DEF Left
<1>. QED
  BY <1>1, <1>6, <1>7, <1>8, <1>9

LEMMA ReadBuffer ==
    ASSUME NEW b, BufferOK(b), NEW n \in Nat, n <= Left(b)
    PROVE  BufferOK(BufferRead(b, n)) /\ Left(BufferRead(b, n)) = Left(b) - n
<1>0. b \in Buffers
  BY DEF BufferOK
<1>1. PICK c, bytes, k : /\ c = b.cap /\ bytes = b.bytes /\ k = b.read
                         /\ c \in 1 .. MaxCap /\ bytes \in Seq(Nat) /\ k \in Nat
                         /\ k <= Len(bytes) /\ Len(bytes) <= c /\ Len(bytes) \in Nat
  BY BufferFacts DEF BufferOK
<1>2. Left(b) = Len(bytes) - k /\ n <= Len(bytes) - k
  BY <1>1 DEF Left
<1>3. BufferRead(b, n) = [b EXCEPT !.read = k + n]
  BY <1>1 DEF BufferRead
<1>4. BufferRead(b, n) = [cap |-> c, bytes |-> bytes, read |-> k + n]
  BY <1>0, <1>1, <1>3 DEF Buffers
<1>5. BufferOK([cap |-> c, bytes |-> bytes, read |-> k + n])
  BY <1>1, <1>2 DEF BufferOK, Buffers
<1>6. Left([cap |-> c, bytes |-> bytes, read |-> k + n]) = (Len(bytes) - k) - n
  <2>1. Left([cap |-> c, bytes |-> bytes, read |-> k + n]) = Len(bytes) - (k + n)
    BY DEF Left
  <2>2. Len(bytes) - (k + n) = (Len(bytes) - k) - n
    BY <1>1
  <2>. QED
    BY <2>1, <2>2
<1>. QED
  BY <1>2, <1>4, <1>5, <1>6

LEMMA LeastFacts ==
    ASSUME NEW a \in Nat, NEW b \in Nat
    PROVE  /\ Least(a, b) \in Nat /\ Least(a, b) <= a /\ Least(a, b) <= b
           /\ a > 0 /\ b > 0 => Least(a, b) > 0
BY DEF Least

-----------------------------------------------------------------------------
(* The sums of sequences of buffers.                                          *)

LEMMA SumsOfNone ==
    ASSUME NEW total, Sums(<<>>, total)
    PROVE  total = 0
BY DEF Sums

LEMMA SumsOfOne ==
    ASSUME NEW b, Left(b) \in Int
    PROVE  Sums(<<b>>, Left(b))
<1> DEFINE s == [i \in 0 .. 1 |-> IF i = 0 THEN 0 ELSE Left(b)]
<1>1. Len(<<b>>) = 1 /\ <<b>>[1] = b
  OBVIOUS
<1>2. s \in [0 .. 1 -> Int] /\ s[0] = 0 /\ s[1] = Left(b)
  OBVIOUS
<1> HIDE DEF s
<1>3. ASSUME NEW i \in 1 .. 1 PROVE s[i] = s[i - 1] + Left(<<b>>[i])
  <2>1. i = 1
    OBVIOUS
  <2>. QED
    BY <1>1, <1>2, <2>1
<1>. QED
  BY <1>1, <1>2, <1>3 DEF Sums

\* A buffer more.
LEMMA SumsAppend ==
    ASSUME NEW S, NEW bufs \in Seq(S), NEW b \in S, NEW total \in Int,
           Sums(bufs, total), Left(b) \in Int
    PROVE  Sums(Append(bufs, b), total + Left(b))
<1>0. Len(bufs) \in Nat
  BY LenProperties
<1>1. PICK s \in [0 .. Len(bufs) -> Int] :
         /\ s[0] = 0
         /\ \A i \in 1 .. Len(bufs) : s[i] = s[i - 1] + Left(bufs[i])
         /\ s[Len(bufs)] = total
  BY DEF Sums
<1> DEFINE more == [i \in 0 .. Len(bufs) + 1 |-> IF i <= Len(bufs) THEN s[i] ELSE total + Left(b)]
<1>2. /\ Append(bufs, b) \in Seq(S) /\ Len(Append(bufs, b)) = Len(bufs) + 1
      /\ \A i \in 1 .. Len(bufs) : Append(bufs, b)[i] = bufs[i]
      /\ Append(bufs, b)[Len(bufs) + 1] = b
  BY <1>0, AppendProperties
<1>3. more \in [0 .. Len(bufs) + 1 -> Int]
  BY <1>0, <1>1
<1>4. /\ \A i \in 0 .. Len(bufs) : more[i] = s[i]
      /\ more[Len(bufs) + 1] = total + Left(b)
  BY <1>0
<1> HIDE DEF more
<1>5. ASSUME NEW i \in 1 .. Len(bufs) + 1
      PROVE  more[i] = more[i - 1] + Left(Append(bufs, b)[i])
  <2>1. CASE i = Len(bufs) + 1
    <3>1. i - 1 = Len(bufs) /\ Len(bufs) \in 0 .. Len(bufs)
      BY <1>0, <2>1
    <3>2. more[i - 1] = total
      BY <1>1, <1>4, <3>1
    <3>. QED
      BY <1>2, <1>4, <2>1, <3>2
  <2>2. CASE i # Len(bufs) + 1
    <3>1. i \in 1 .. Len(bufs) /\ i \in 0 .. Len(bufs) /\ i - 1 \in 0 .. Len(bufs)
      BY <1>0, <2>2
    <3>2. s[i] = s[i - 1] + Left(bufs[i])
      BY <1>1, <3>1
    <3>. QED
      BY <1>2, <1>4, <3>1, <3>2
  <2>. QED
    BY <2>1, <2>2
<1>6. more[0] = 0
  BY <1>0, <1>1, <1>4
<1>. QED
  BY <1>2, <1>3, <1>4, <1>5, <1>6 DEF Sums

\* Another buffer in the place of one.
LEMMA SumsChange ==
    ASSUME NEW S, NEW bufs \in Seq(S), NEW k \in 1 .. Len(bufs), NEW b \in S, NEW total \in Int,
           Sums(bufs, total), Left(b) \in Int,
           \A i \in 1 .. Len(bufs) : Left(bufs[i]) \in Int
    PROVE  Sums([bufs EXCEPT ![k] = b], total - Left(bufs[k]) + Left(b))
<1>0. Len(bufs) \in Nat /\ k \in Nat
  BY LenProperties
<1>1. PICK s \in [0 .. Len(bufs) -> Int] :
         /\ s[0] = 0
         /\ \A i \in 1 .. Len(bufs) : s[i] = s[i - 1] + Left(bufs[i])
         /\ s[Len(bufs)] = total
  BY DEF Sums
<1> DEFINE new == [bufs EXCEPT ![k] = b]
           more == [i \in 0 .. Len(bufs) |->
                       IF i < k THEN s[i] ELSE s[i] - Left(bufs[k]) + Left(b)]
<1>2. /\ new \in Seq(S) /\ Len(new) = Len(bufs) /\ new[k] = b
      /\ \A i \in 1 .. Len(bufs) : i # k => new[i] = bufs[i]
  BY <1>0, ExceptSeq
<1>3. more \in [0 .. Len(bufs) -> Int]
  BY <1>0, <1>1
<1>4. \A i \in 0 .. Len(bufs) :
         more[i] = IF i < k THEN s[i] ELSE s[i] - Left(bufs[k]) + Left(b)
  BY <1>0
<1> HIDE DEF more, new
<1>5. ASSUME NEW i \in 1 .. Len(bufs)
      PROVE  more[i] = more[i - 1] + Left(new[i])
  <2>0. i \in 0 .. Len(bufs) /\ i - 1 \in 0 .. Len(bufs) /\ i \in Nat
    BY <1>0
  <2>1. s[i] = s[i - 1] + Left(bufs[i]) /\ s[i] \in Int /\ s[i - 1] \in Int
    BY <1>1, <2>0
  <2>2. CASE i < k
    <3>1. i # k /\ i - 1 < k
      BY <1>0, <2>2
    <3>2. new[i] = bufs[i]
      BY <1>2, <3>1
    <3>3. more[i] = s[i]
      BY <1>4, <2>0, <2>2
    <3>4. more[i - 1] = s[i - 1]
      BY <1>4, <2>0, <3>1
    <3>. QED
      BY <2>1, <3>2, <3>3, <3>4
  <2>3. CASE i = k
    <3>1. more[i] = s[i] - Left(bufs[k]) + Left(b) /\ more[i - 1] = s[i - 1] /\ new[i] = b
      BY <1>0, <1>2, <1>4, <2>0, <2>3
    <3>. QED
      BY <2>1, <2>3, <3>1
  <2>4. CASE i > k
    <3>1. /\ more[i] = s[i] - Left(bufs[k]) + Left(b)
          /\ more[i - 1] = s[i - 1] - Left(bufs[k]) + Left(b)
          /\ new[i] = bufs[i]
      BY <1>0, <1>2, <1>4, <2>0, <2>4
    <3>2. Left(bufs[i]) \in Int /\ Left(bufs[k]) \in Int
      OBVIOUS
    <3>. QED
      BY <2>1, <3>1, <3>2
  <2>. QED
    BY <1>0, <2>0, <2>2, <2>3, <2>4
<1>6. more[0] = 0 /\ more[Len(bufs)] = total - Left(bufs[k]) + Left(b)
  <2>1. 0 \in 0 .. Len(bufs) /\ Len(bufs) \in 0 .. Len(bufs) /\ 0 < k /\ ~(Len(bufs) < k)
    BY <1>0
  <2>2. more[0] = s[0]
    BY <1>4, <2>1
  <2>3. more[Len(bufs)] = s[Len(bufs)] - Left(bufs[k]) + Left(b)
    BY <1>4, <2>1
  <2>. QED
    BY <1>1, <2>2, <2>3
<1>. QED
  BY <1>2, <1>3, <1>5, <1>6 DEF Sums, new

\* Without the first buffer.
LEMMA SumsTail ==
    ASSUME NEW S, NEW bufs \in Seq(S), Len(bufs) > 0, NEW total \in Int,
           Sums(bufs, total), \A i \in 1 .. Len(bufs) : Left(bufs[i]) \in Int
    PROVE  Sums(Tail(bufs), total - Left(bufs[1]))
<1>0. Len(bufs) \in Nat /\ bufs # <<>>
  BY LenProperties
<1>1. PICK s \in [0 .. Len(bufs) -> Int] :
         /\ s[0] = 0
         /\ \A i \in 1 .. Len(bufs) : s[i] = s[i - 1] + Left(bufs[i])
         /\ s[Len(bufs)] = total
  BY DEF Sums
<1> DEFINE more == [i \in 0 .. Len(bufs) - 1 |-> s[i + 1] - Left(bufs[1])]
<1>2. /\ Tail(bufs) \in Seq(S) /\ Len(Tail(bufs)) = Len(bufs) - 1
      /\ \A i \in 1 .. Len(bufs) - 1 : Tail(bufs)[i] = bufs[i + 1]
  BY <1>0, HeadTailProperties
<1>3. more \in [0 .. Len(bufs) - 1 -> Int]
  BY <1>0, <1>1
<1>4. \A i \in 0 .. Len(bufs) - 1 : more[i] = s[i + 1] - Left(bufs[1])
  BY <1>0
<1> HIDE DEF more
<1>5. more[0] = 0 /\ more[Len(bufs) - 1] = total - Left(bufs[1])
  <2>1. 1 \in 1 .. Len(bufs) /\ 0 \in 0 .. Len(bufs) - 1
        /\ Len(bufs) - 1 \in 0 .. Len(bufs) - 1 /\ Len(bufs) - 1 + 1 = Len(bufs)
    BY <1>0
  <2>2. s[1] = 0 + Left(bufs[1]) /\ Left(bufs[1]) \in Int
    BY <1>1, <2>1
  <2>3. more[0] = s[1] - Left(bufs[1])
    BY <1>4, <2>1
  <2>4. more[Len(bufs) - 1] = s[Len(bufs)] - Left(bufs[1])
    BY <1>4, <2>1
  <2>5. more[0] = 0
    BY <2>2, <2>3
  <2>. QED
    BY <1>1, <2>4, <2>5
<1>6. ASSUME NEW i \in 1 .. Len(bufs) - 1
      PROVE  more[i] = more[i - 1] + Left(Tail(bufs)[i])
  <2>1. /\ i \in 0 .. Len(bufs) - 1 /\ i - 1 \in 0 .. Len(bufs) - 1
        /\ i + 1 \in 1 .. Len(bufs) /\ (i - 1) + 1 = i /\ (i + 1) - 1 = i
    BY <1>0
  <2>2. s[i + 1] = s[i] + Left(bufs[i + 1])
    BY <1>1, <2>1
  <2>3. more[i] = s[i + 1] - Left(bufs[1]) /\ more[i - 1] = s[i] - Left(bufs[1])
    BY <1>4, <2>1
  <2>4. Tail(bufs)[i] = bufs[i + 1]
    BY <1>2
  <2>5. s[i] \in Int /\ s[i + 1] \in Int
    BY <1>1, <2>1
  <2>6. Left(bufs[i + 1]) \in Int /\ Left(bufs[1]) \in Int
    BY <1>0, <2>1
  <2>. QED
    BY <2>2, <2>3, <2>4, <2>5, <2>6
<1>. QED
  BY <1>2, <1>3, <1>5, <1>6 DEF Sums

-----------------------------------------------------------------------------
(* Induction over the positions of a sequence: no operator parameter.         *)

LEMMA Climb ==
    ASSUME NEW n \in Nat, NEW S, 0 \in S, \A m \in 0 .. n - 1 : m \in S => m + 1 \in S
    PROVE  \A m \in 0 .. n : m \in S
<1> DEFINE Less == OpToRel(<, Nat)
           Bad  == {m \in 0 .. n : m \notin S}
<1>1. Less = {p \in Nat \X Nat : p[1] < p[2]}
  BY Zenon DEF OpToRel
<1> SUFFICES ASSUME Bad # {} PROVE FALSE
  OBVIOUS
<1>2. Bad \subseteq Nat
  OBVIOUS
<1> HIDE DEF Less
<1>3. PICK m \in Bad : \A k \in Bad : <<k, m>> \notin Less
  <2> HIDE DEF Bad
  <2>. QED
    BY Zenon, <1>2, NatLessThanWellFounded, WFMin DEF Less
<1>4. m \in 0 .. n /\ m # 0 /\ m - 1 \in 0 .. n /\ m - 1 \in 0 .. n - 1 /\ (m - 1) + 1 = m
  OBVIOUS
<1>5. m - 1 \in Bad
  BY <1>4
<1>6. m - 1 \in Nat /\ m \in Nat /\ m - 1 < m
  BY <1>4
<1>. QED
  BY <1>1, <1>3, <1>5, <1>6

-----------------------------------------------------------------------------
(* The bytes of sequences of buffers.                                         *)

BufsOK(bufs) == bufs \in Seq(Buffers) /\ \A i \in 1 .. Len(bufs) : BufferOK(bufs[i])

\* The buffers hold the bytes of q, in that order: there are partial
\* concatenations to show it.
Joins(bufs, q) ==
    \E f \in [0 .. Len(bufs) -> Seq(Nat)] :
        /\ f[0] = <<>>
        /\ \A i \in 1 .. Len(bufs) : f[i] = f[i - 1] \o Unread(bufs[i])
        /\ f[Len(bufs)] = q

Contents(bufs) == FlattenSeq([i \in DOMAIN bufs |-> Unread(bufs[i])])

LEMMA UnreadType ==
    ASSUME NEW b, BufferOK(b)
    PROVE  Unread(b) \in Seq(Nat) /\ Len(Unread(b)) = Left(b)
<1>1. PICK bytes, k : bytes = b.bytes /\ k = b.read
  OBVIOUS
<1>2. bytes \in Seq(Nat) /\ k \in Nat /\ Len(bytes) \in Nat
  BY <1>1, BufferFacts
<1>3. SubSeq(bytes, k + 1, Len(bytes)) \in Seq(Nat)
  BY <1>2
<1>. QED
  BY <1>1, <1>3, BufferFacts DEF Unread

LEMMA NewUnread ==
    ASSUME NEW c \in 1 .. MaxCap PROVE Unread(getBuffer(c)) = <<>>
<1>1. BufferOK(getBuffer(c)) /\ Left(getBuffer(c)) = 0
  BY NewBuffer
<1>2. Unread(getBuffer(c)) \in Seq(Nat) /\ Len(Unread(getBuffer(c))) = 0
  BY <1>1, UnreadType
<1>. QED
  BY <1>2, EmptySeq

\* A sequence is its beginning and its end, and they are what it is made of.
LEMMA Split ==
    ASSUME NEW s \in Seq(Nat), NEW k \in Nat, k <= Len(s)
    PROVE  \E x \in Seq(Nat), y \in Seq(Nat) :
              /\ x = SubSeq(s, 1, k) /\ y = SubSeq(s, k + 1, Len(s))
              /\ Len(x) = k /\ s = x \o y
<1>1. Len(s) \in Nat
  BY LenProperties
<1>2. PICK x, y : x = SubSeq(s, 1, k) /\ y = SubSeq(s, k + 1, Len(s))
  OBVIOUS
<1>3. \A i \in 1 .. k : s[i] \in Nat
  BY <1>1, ElementOfSeq
<1>4. x \in Seq(Nat) /\ Len(x) = k
  <2>1. PICK a \in Int, z \in Int : a = 1 /\ z = k
    OBVIOUS
  <2>2. /\ SubSeq(s, a, z) \in Seq(Nat)
        /\ Len(SubSeq(s, a, z)) = IF a <= z THEN z - a + 1 ELSE 0
    BY <1>3, <2>1, SubSeqProperties
  <2>. QED
    BY <1>2, <2>1, <2>2
<1>5. y \in Seq(Nat)
  <2>1. PICK a \in Int, z \in Int : a = k + 1 /\ z = Len(s)
    BY <1>1
  <2>2. \A i \in a .. z : s[i] \in Nat
    <3>1. \A i \in a .. z : i \in 1 .. Len(s)
      BY <1>1, <2>1
    <3>. QED
      BY <3>1, ElementOfSeq
  <2>3. SubSeq(s, a, z) \in Seq(Nat)
    BY <2>2, SubSeqProperties
  <2>. QED
    BY <1>2, <2>1, <2>3
<1>6. SubSeq(s, 1, k) \o SubSeq(s, k + 1, Len(s)) = SubSeq(s, 1, Len(s))
  <2>1. PICK m, n : m = 1 /\ n = Len(s)
    OBVIOUS
  <2>2. m \in 1 .. Len(s) + 1 /\ k \in m - 1 .. Len(s) /\ n \in k .. Len(s)
    BY <1>1, <2>1
  <2>3. SubSeq(s, m, k) \o SubSeq(s, k + 1, n) = SubSeq(s, m, n)
    BY <2>2, ConcatAdjacentSubSeq
  <2>. QED
    BY <2>1, <2>3
<1>7. s = x \o y
  BY <1>2, <1>6, SubSeqFull
<1>. QED
  BY <1>2, <1>4, <1>5, <1>7

LEMMA Halves ==
    \A s \in Seq(Nat), k \in Nat : k <= Len(s) =>
        \E x \in Seq(Nat), y \in Seq(Nat) : x = SubSeq(s, 1, k) /\ Len(x) = k /\ s = x \o y
BY Split

LEMMA DropFirst ==
    ASSUME NEW x \in Seq(Nat), NEW y \in Seq(Nat)
    PROVE  SubSeq(x \o y, Len(x) + 1, Len(x \o y)) = y
<1>1. PICK s : s = x \o y
  OBVIOUS
<1>2. /\ s \in Seq(Nat) /\ Len(s) = Len(x) + Len(y) /\ Len(x) \in Nat /\ Len(y) \in Nat
      /\ \A i \in 1 .. Len(x) + Len(y) : s[i] = IF i <= Len(x) THEN x[i] ELSE y[i - Len(x)]
  BY <1>1, ConcatProperties, LenProperties
<1>3. PICK a \in Int, z \in Int : a = Len(x) + 1 /\ z = Len(s)
  BY <1>2
<1>4. \A i \in a .. z : s[i] \in Nat
  <2>1. \A i \in a .. z : i \in 1 .. Len(s)
    BY <1>2, <1>3
  <2>. QED
    BY <1>2, <2>1, ElementOfSeq
<1>5. PICK t : t = SubSeq(s, a, z)
  OBVIOUS
<1>6. /\ t \in Seq(Nat) /\ Len(t) = IF a <= z THEN z - a + 1 ELSE 0
      /\ \A i \in 1 .. z - a + 1 : t[i] = s[a + i - 1]
  BY <1>4, <1>5, SubSeqProperties
<1>7. Len(t) = Len(y)
  BY <1>2, <1>3, <1>6
<1>8. ASSUME NEW i \in 1 .. Len(t) PROVE t[i] = y[i]
  <2>1. /\ i \in 1 .. z - a + 1 /\ a + i - 1 = Len(x) + i
        /\ Len(x) + i \in 1 .. Len(x) + Len(y)
        /\ ~(Len(x) + i <= Len(x)) /\ (Len(x) + i) - Len(x) = i
    BY <1>2, <1>3, <1>7
  <2>. QED
    BY <1>2, <1>6, <2>1
<1>9. t = y
  BY <1>6, <1>7, <1>8, SeqEqual
<1>. QED
  BY <1>1, <1>3, <1>5, <1>9

\* Concatenations of sequences of bytes.
LEMMA ConcatBytes ==
    /\ \A x, y \in Seq(Nat) : x \o y \in Seq(Nat)
    /\ \A x, y \in Seq(Nat) : Len(x \o y) = Len(x) + Len(y)
    /\ \A x, y, z \in Seq(Nat) : (x \o y) \o z = x \o (y \o z)
    /\ \A x \in Seq(Nat) : x \o <<>> = x /\ <<>> \o x = x /\ Len(x) \in Nat
<1>1. ASSUME NEW x \in Seq(Nat), NEW y \in Seq(Nat)
      PROVE  x \o y \in Seq(Nat) /\ Len(x \o y) = Len(x) + Len(y)
  BY ConcatProperties
<1>2. ASSUME NEW x \in Seq(Nat), NEW y \in Seq(Nat), NEW z \in Seq(Nat)
      PROVE  (x \o y) \o z = x \o (y \o z)
  BY ConcatAssociative
<1>3. ASSUME NEW x \in Seq(Nat) PROVE x \o <<>> = x /\ <<>> \o x = x /\ Len(x) \in Nat
  BY ConcatEmptySeq, LenProperties
<1>. QED
  BY Zenon, <1>1, <1>2, <1>3

\* The end of a sequence, and of one that begins with it.
LEMMA EndOfConcat ==
    ASSUME NEW s \in Seq(Nat), NEW k \in Nat, k <= Len(s)
    PROVE  \A part \in Seq(Nat) :
              SubSeq(s \o part, k + 1, Len(s \o part)) = SubSeq(s, k + 1, Len(s)) \o part
<1>1. PICK x \in Seq(Nat), u \in Seq(Nat) :
         u = SubSeq(s, k + 1, Len(s)) /\ Len(x) = k /\ s = x \o u
  BY Split
<1>2. SUFFICES ASSUME NEW part \in Seq(Nat)
               PROVE  SubSeq(s \o part, k + 1, Len(s \o part)) = u \o part
  BY <1>1
<1>3. u \o part \in Seq(Nat) /\ (x \o u) \o part = x \o (u \o part)
  BY Zenon, ConcatBytes
<1>4. SubSeq(x \o (u \o part), Len(x) + 1, Len(x \o (u \o part))) = u \o part
  BY Zenon, <1>3, DropFirst
<1>. QED
  BY Zenon, <1>1, <1>3, <1>4

\* The end of the end.
LEMMA EndOfEnd ==
    ASSUME NEW s \in Seq(Nat), NEW k \in Nat, NEW n \in Nat, k + n <= Len(s)
    PROVE  \E first \in Seq(Nat) :
              /\ first = SubSeq(SubSeq(s, k + 1, Len(s)), 1, n) /\ Len(first) = n
              /\ SubSeq(s, k + 1, Len(s)) = first \o SubSeq(s, (k + n) + 1, Len(s))
<1>0. k <= Len(s) /\ Len(s) \in Nat
  BY LenProperties
<1>1. PICK x \in Seq(Nat), u \in Seq(Nat) :
         u = SubSeq(s, k + 1, Len(s)) /\ Len(x) = k /\ s = x \o u
  BY <1>0, Split
<1>2. n <= Len(u)
  <2>1. Len(s) = Len(x) + Len(u) /\ Len(u) \in Nat
    BY Zenon, <1>1, ConcatBytes
  <2>. QED
    BY <1>1, <2>1
<1>3. PICK first \in Seq(Nat), rest \in Seq(Nat) :
         first = SubSeq(u, 1, n) /\ Len(first) = n /\ u = first \o rest
  BY Zenon, <1>2, Halves
<1>4. /\ x \o first \in Seq(Nat) /\ Len(x \o first) = k + n
      /\ s = (x \o first) \o rest
  <2>1. x \o first \in Seq(Nat) /\ Len(x \o first) = Len(x) + Len(first)
    BY Zenon, ConcatBytes
  <2>2. (x \o first) \o rest = x \o (first \o rest)
    BY Zenon, ConcatBytes
  <2>. QED
    BY Zenon, <1>1, <1>3, <2>1, <2>2
<1>5. SubSeq((x \o first) \o rest, Len(x \o first) + 1, Len((x \o first) \o rest)) = rest
  BY Zenon, <1>4, DropFirst
<1>6. SubSeq(s, (k + n) + 1, Len(s)) = rest
  BY Zenon, <1>4, <1>5
<1>. QED
  BY Zenon, <1>1, <1>3, <1>6

\* What is written comes after what is left to read.
LEMMA WrittenUnread ==
    ASSUME NEW b, BufferOK(b), NEW p \in Seq(Nat),
           NEW n \in Nat, n <= Len(p), n <= Room(b)
    PROVE  /\ SubSeq(p, 1, n) \in Seq(Nat)
           /\ Unread(BufferWrite(b, p, n)) = Unread(b) \o SubSeq(p, 1, n)
<1>1. PICK bytes, k : bytes = b.bytes /\ k = b.read
  OBVIOUS
<1>2. bytes \in Seq(Nat) /\ k \in Nat /\ k <= Len(bytes)
  BY <1>1, BufferFacts DEF BufferOK
<1>3. PICK part : part = SubSeq(p, 1, n) /\ part \in Seq(Nat)
  BY Split
<1>4. SubSeq(bytes \o part, k + 1, Len(bytes \o part)) = SubSeq(bytes, k + 1, Len(bytes)) \o part
  BY Zenon, <1>2, <1>3, EndOfConcat
<1>5. PICK c : c = BufferWrite(b, p, n) /\ c.bytes = bytes \o part /\ c.read = k
  <2>1. b \in Buffers
    BY DEF BufferOK
  <2>2. BufferWrite(b, p, n).bytes = b.bytes \o SubSeq(p, 1, n)
        /\ BufferWrite(b, p, n).read = b.read
    BY <2>1 DEF BufferWrite, Buffers
  <2>. QED
    BY Zenon, <1>1, <1>3, <2>2
<1>6. /\ Unread(b) = SubSeq(bytes, k + 1, Len(bytes))
      /\ Unread(c) = SubSeq(bytes \o part, k + 1, Len(bytes \o part))
  BY Zenon, <1>1, <1>5 DEF Unread
<1>. QED
  BY Zenon, <1>3, <1>4, <1>5, <1>6

\* What is read was the beginning of what was left.
LEMMA ReadUnread ==
    ASSUME NEW b, BufferOK(b), NEW n \in Nat, n <= Left(b)
    PROVE  /\ SubSeq(Unread(b), 1, n) \in Seq(Nat) /\ Len(SubSeq(Unread(b), 1, n)) = n
           /\ Unread(b) = SubSeq(Unread(b), 1, n) \o Unread(BufferRead(b, n))
<1>1. PICK bytes, k : bytes = b.bytes /\ k = b.read
  OBVIOUS
<1>2. bytes \in Seq(Nat) /\ k \in Nat /\ k + n <= Len(bytes)
  <2>1. bytes \in Seq(Nat) /\ k \in Nat /\ Len(bytes) \in Nat /\ Left(b) = Len(bytes) - k
    BY <1>1, BufferFacts DEF Left
  <2>2. PICK l \in Nat : l = Len(bytes)
    BY <2>1
  <2>3. n <= l - k
    BY <2>1, <2>2
  <2>. QED
    BY <2>1, <2>2, <2>3
<1>3. PICK first \in Seq(Nat) :
         /\ first = SubSeq(SubSeq(bytes, k + 1, Len(bytes)), 1, n) /\ Len(first) = n
         /\ SubSeq(bytes, k + 1, Len(bytes)) = first \o SubSeq(bytes, (k + n) + 1, Len(bytes))
  BY Zenon, <1>2, EndOfEnd
<1>4. PICK c : c = BufferRead(b, n) /\ c.bytes = bytes /\ c.read = k + n
  <2>1. b \in Buffers
    BY DEF BufferOK
  <2>2. BufferRead(b, n).bytes = b.bytes /\ BufferRead(b, n).read = b.read + n
    BY <2>1 DEF BufferRead, Buffers
  <2>. QED
    BY Zenon, <1>1, <2>2
<1>5. /\ Unread(b) = SubSeq(bytes, k + 1, Len(bytes))
      /\ Unread(c) = SubSeq(bytes, (k + n) + 1, Len(bytes))
  BY Zenon, <1>1, <1>4 DEF Unread
<1>. QED
  BY Zenon, <1>3, <1>4, <1>5

\* One more part is flattened.
Flattened(parts, f, i) == IF i = 1 THEN parts[i] ELSE f[i - 1] \o parts[i]

LEMMA FlattenExists ==
    ASSUME NEW parts, NEW n \in Nat
    PROVE  \E f : f = [i \in 1 .. n |-> Flattened(parts, f, i)]
<1> DEFINE Good == {m \in Nat : \E f : f = [i \in 1 .. m |-> Flattened(parts, f, i)]}
<1>1. 0 \in Good
  <2> DEFINE f == [i \in 1 .. 0 |-> <<>>]
  <2>1. f = [i \in 1 .. 0 |-> Flattened(parts, f, i)]
    OBVIOUS
  <2>. QED
    BY <2>1
<1>2. ASSUME NEW m \in 0 .. n - 1, m \in Good PROVE m + 1 \in Good
  <2>0. m \in Nat /\ m + 1 \in Nat
    OBVIOUS
  <2>1. PICK f : f = [i \in 1 .. m |-> Flattened(parts, f, i)]
    BY <1>2
  <2> DEFINE g == [i \in 1 .. m + 1 |-> IF i = m + 1 THEN Flattened(parts, f, m + 1) ELSE f[i]]
  <2>2. ASSUME NEW i \in 1 .. m + 1 PROVE g[i] = Flattened(parts, g, i)
    <3>1. i # 1 => i - 1 \in 1 .. m /\ i - 1 \in 1 .. m + 1 /\ i - 1 # m + 1
      BY <2>0
    <3>2. i # 1 => g[i - 1] = f[i - 1]
      BY <3>1
    <3>3. Flattened(parts, g, i) = Flattened(parts, f, i)
      BY <3>2 DEF Flattened
    <3>4. CASE i = m + 1
      BY <3>3, <3>4
    <3>5. CASE i # m + 1
      <4>1. i \in 1 .. m
        BY <2>0, <3>5
      <4>. QED
        BY <2>1, <3>3, <3>5, <4>1
    <3>. QED
      BY <3>4, <3>5
  <2>3. g = [i \in 1 .. m + 1 |-> g[i]]
    OBVIOUS
  <2>. HIDE DEF g
  <2>4. g = [i \in 1 .. m + 1 |-> Flattened(parts, g, i)]
    BY <2>2, <2>3
  <2>. QED
    BY <2>0, <2>4
<1> HIDE DEF Good
<1>3. \A m \in 0 .. n : m \in Good
  BY <1>1, <1>2, Climb
<1>4. n \in Good
  BY <1>3
<1>. QED
  BY <1>4 DEF Good

LEMMA JoinsContents ==
    ASSUME NEW bufs, BufsOK(bufs)
    PROVE  Joins(bufs, Contents(bufs))
<1>1. PICK n : n = Len(bufs) /\ n \in Nat /\ DOMAIN bufs = 1 .. n
  BY LenProperties DEF BufsOK
<1>2. PICK parts : parts = [i \in 1 .. n |-> Unread(bufs[i])]
  OBVIOUS
<1>3. ASSUME NEW i \in 1 .. n PROVE parts[i] = Unread(bufs[i]) /\ parts[i] \in Seq(Nat)
  BY <1>1, <1>2, UnreadType DEF BufsOK
<1>4. Contents(bufs) = FlattenSeq(parts)
  BY <1>1, <1>2 DEF Contents
<1>5. Len(parts) = n
  <2>1. parts \in [1 .. n -> Seq(Nat)]
    BY <1>2, <1>3
  <2>2. parts \in Seq(Seq(Nat)) /\ DOMAIN parts = 1 .. n
    BY <1>1, <2>1
  <2>. QED
    BY <1>1, <2>2, LenProperties
<1>6. CASE n = 0
  <2>1. FlattenSeq(parts) = parts /\ parts = <<>>
    BY <1>2, <1>5, <1>6 DEF FlattenSeq
  <2> DEFINE f == [i \in 0 .. 0 |-> <<>>]
  <2>2. f \in [0 .. 0 -> Seq(Nat)] /\ f[0] = <<>>
    OBVIOUS
  <2>. HIDE DEF f
  <2>3. 1 .. 0 = {}
    OBVIOUS
  <2>4. Len(bufs) = 0 /\ Contents(bufs) = <<>>
    BY <1>1, <1>4, <1>6, <2>1
  <2>. QED
    BY Zenon, <2>2, <2>3, <2>4 DEF Joins
<1>7. CASE n # 0
  <2> DEFINE F == CHOOSE f : f = [i \in 1 .. Len(parts) |-> Flattened(parts, f, i)]
             f == [i \in 0 .. n |-> IF i = 0 THEN <<>> ELSE F[i]]
             S == {i \in 0 .. n : i = 0 \/ F[i] \in Seq(Nat)}
  <2>1. FlattenSeq(parts) = F[Len(parts)]
    BY Zenon, <1>5, <1>7 DEF FlattenSeq, Flattened
  <2>2. F = [i \in 1 .. n |-> Flattened(parts, F, i)]
    <3>1. Len(parts) \in Nat
      BY <1>1, <1>5
    <3>2. \E g : g = [i \in 1 .. Len(parts) |-> Flattened(parts, g, i)]
      BY Zenon, <3>1, FlattenExists
    <3>3. F = [i \in 1 .. Len(parts) |-> Flattened(parts, F, i)]
      BY Zenon, <3>2
    <3>. HIDE DEF F
    <3>. QED
      BY <1>5, <3>3
  <2>. HIDE DEF F
  <2>3. F[1] = parts[1] /\ \A i \in 2 .. n : F[i] = F[i - 1] \o parts[i]
    <3>1. 1 \in 1 .. n /\ \A i \in 2 .. n : i \in 1 .. n /\ i # 1
      BY <1>1, <1>7
    <3>2. \A i \in 1 .. n : F[i] = Flattened(parts, F, i)
      BY Zenon, <2>2
    <3>. QED
      BY Zenon, <3>1, <3>2 DEF Flattened
  <2>4. ASSUME NEW m \in 0 .. n - 1, m \in S PROVE m + 1 \in S
    <3>1. m + 1 \in 1 .. n /\ m + 1 \in 0 .. n /\ (m + 1) - 1 = m
      BY <1>1
    <3>2. CASE m = 0
      <4>1. F[m + 1] \in Seq(Nat)
        BY <1>3, <2>3, <3>1, <3>2
      <4>. QED
        BY <3>1, <4>1
    <3>3. CASE m # 0
      <4>1. m + 1 \in 2 .. n /\ F[m] \in Seq(Nat)
        BY <1>1, <2>4, <3>1, <3>3
      <4>2. F[m + 1] = F[m] \o parts[m + 1]
        BY <2>3, <3>1, <4>1
      <4>3. parts[m + 1] \in Seq(Nat)
        BY <1>3, <3>1
      <4>4. F[m + 1] \in Seq(Nat)
        BY Zenon, <4>1, <4>2, <4>3, ConcatBytes
      <4>. QED
        BY <3>1, <4>4
    <3>. QED
      BY <3>2, <3>3
  <2>5. 0 \in S
    BY <1>1
  <2>6. \A m \in 0 .. n : m \in S
    <3>. HIDE DEF S
    <3>. QED
      BY <1>1, <2>4, <2>5, Climb
  <2>7. f \in [0 .. n -> Seq(Nat)]
    <3>1. <<>> \in Seq(Nat)
      OBVIOUS
    <3>. QED
      BY <2>6, <3>1
  <2>8. f[0] = <<>> /\ \A i \in 1 .. n : f[i] = F[i]
    BY <1>1
  <2>. HIDE DEF f
  <2>9. ASSUME NEW i \in 1 .. n PROVE f[i] = f[i - 1] \o Unread(bufs[i])
    <3>1. CASE i = 1
      <4>1. parts[1] \in Seq(Nat) /\ parts[1] = Unread(bufs[1])
        BY <1>3, <3>1
      <4>2. <<>> \o parts[1] = parts[1]
        BY Zenon, <4>1, ConcatBytes
      <4>3. f[i] = parts[1] /\ f[i - 1] = <<>>
        BY <2>3, <2>8, <3>1
      <4>. QED
        BY <3>1, <4>1, <4>2, <4>3
    <3>2. CASE i # 1
      <4>1. i \in 2 .. n /\ i - 1 \in 1 .. n
        BY <1>1, <3>2
      <4>2. f[i] = F[i] /\ f[i - 1] = F[i - 1] /\ F[i] = F[i - 1] \o parts[i]
        BY <2>3, <2>8, <4>1
      <4>. QED
        BY <1>3, <4>2
    <3>. QED
      BY <3>1, <3>2
  <2>10. f[n] = Contents(bufs)
    <3>1. n \in 1 .. n
      BY <1>1, <1>7
    <3>. QED
      BY <1>4, <1>5, <2>1, <2>8, <3>1
  <2>. QED
    BY Zenon, <1>1, <2>7, <2>8, <2>9, <2>10 DEF Joins
<1>. QED
  BY <1>6, <1>7

\* There is one such sequence, and as many bytes in it as bufLen says.
LEMMA JoinsSame ==
    ASSUME NEW bufs, Len(bufs) \in Nat, NEW p, NEW q, Joins(bufs, p), Joins(bufs, q)
    PROVE  p = q
<1>1. PICK n \in Nat : n = Len(bufs)
  OBVIOUS
<1>2. PICK f \in [0 .. n -> Seq(Nat)] :
        f[0] = <<>> /\ f[n] = p /\ \A i \in 1 .. n : f[i] = f[i - 1] \o Unread(bufs[i])
  BY <1>1 DEF Joins
<1>3. PICK g \in [0 .. n -> Seq(Nat)] :
        g[0] = <<>> /\ g[n] = q /\ \A i \in 1 .. n : g[i] = g[i - 1] \o Unread(bufs[i])
  BY <1>1 DEF Joins
<1> DEFINE S == {i \in 0 .. n : f[i] = g[i]}
<1>4. ASSUME NEW m \in 0 .. n - 1, m \in S PROVE m + 1 \in S
  <2>1. m + 1 \in 1 .. n /\ m + 1 \in 0 .. n /\ (m + 1) - 1 = m
    OBVIOUS
  <2>2. f[m + 1] = f[m] \o Unread(bufs[m + 1]) /\ g[m + 1] = g[m] \o Unread(bufs[m + 1])
    BY Zenon, <1>2, <1>3, <2>1
  <2>. QED
    BY <1>4, <2>1, <2>2
<1>5. 0 \in S
  BY <1>2, <1>3
<1>6. n \in S
  <2>. HIDE DEF S
  <2>1. \A m \in 0 .. n : m \in S
    BY <1>4, <1>5, Climb
  <2>. QED
    BY <2>1
<1>. QED
  BY <1>2, <1>3, <1>6

LEMMA JoinsLen ==
    ASSUME NEW bufs, BufsOK(bufs), NEW q, Joins(bufs, q), NEW total, Sums(bufs, total)
    PROVE  q \in Seq(Nat) /\ Len(q) = total
<1>1. PICK n \in Nat : n = Len(bufs)
  BY LenProperties DEF BufsOK
<1>2. PICK f \in [0 .. n -> Seq(Nat)] :
        f[0] = <<>> /\ f[n] = q /\ \A i \in 1 .. n : f[i] = f[i - 1] \o Unread(bufs[i])
  BY <1>1 DEF Joins
<1>3. PICK s \in [0 .. n -> Int] :
        s[0] = 0 /\ s[n] = total /\ \A i \in 1 .. n : s[i] = s[i - 1] + Left(bufs[i])
  BY <1>1 DEF Sums
<1> DEFINE S == {i \in 0 .. n : Len(f[i]) = s[i]}
<1>4. ASSUME NEW m \in 0 .. n - 1, m \in S PROVE m + 1 \in S
  <2>1. m + 1 \in 1 .. n /\ m + 1 \in 0 .. n /\ (m + 1) - 1 = m /\ m \in 0 .. n
    OBVIOUS
  <2>2. PICK u, x : u = Unread(bufs[m + 1]) /\ x = f[m]
    OBVIOUS
  <2>3. u \in Seq(Nat) /\ Len(u) = Left(bufs[m + 1]) /\ x \in Seq(Nat)
    BY <1>1, <2>1, <2>2, UnreadType DEF BufsOK
  <2>4. Len(x \o u) = Len(x) + Len(u)
    BY Zenon, <2>3, ConcatBytes
  <2>5. f[m + 1] = x \o u /\ s[m + 1] = s[m] + Left(bufs[m + 1])
    BY Zenon, <1>2, <1>3, <2>1, <2>2
  <2>6. Len(x) = s[m]
    BY <1>4, <2>2
  <2>. QED
    BY <2>1, <2>3, <2>4, <2>5, <2>6
<1>5. 0 \in S
  BY <1>2, <1>3
<1>6. n \in S
  <2>. HIDE DEF S
  <2>1. \A m \in 0 .. n : m \in S
    BY <1>4, <1>5, Climb
  <2>. QED
    BY <2>1
<1>7. n \in 0 .. n
  OBVIOUS
<1>. QED
  BY <1>2, <1>3, <1>6, <1>7

\* A buffer more.
LEMMA JoinsAppend ==
    ASSUME NEW bufs, BufsOK(bufs), NEW b, BufferOK(b), NEW q, Joins(bufs, q)
    PROVE  Joins(Append(bufs, b), q \o Unread(b))
<1>1. PICK n \in Nat : n = Len(bufs)
  BY LenProperties DEF BufsOK
<1>2. PICK f \in [0 .. n -> Seq(Nat)] :
        f[0] = <<>> /\ f[n] = q /\ \A i \in 1 .. n : f[i] = f[i - 1] \o Unread(bufs[i])
  BY <1>1 DEF Joins
<1>3. PICK more : /\ more = Append(bufs, b) /\ Len(more) = n + 1 /\ more[n + 1] = b
                  /\ \A i \in 1 .. n : more[i] = bufs[i]
  <2>1. b \in Buffers /\ bufs \in Seq(Buffers)
    BY DEF BufferOK, BufsOK
  <2>. QED
    BY <1>1, <2>1, AppendProperties
<1>4. PICK new : new = q \o Unread(b) /\ new \in Seq(Nat)
  <2>1. q \in Seq(Nat)
    BY <1>2
  <2>2. q \o Unread(b) \in Seq(Nat)
    BY Zenon, <2>1, UnreadType, ConcatBytes
  <2>. QED
    BY <2>2
<1> DEFINE g == [i \in 0 .. n + 1 |-> IF i = n + 1 THEN new ELSE f[i]]
<1>5. g \in [0 .. n + 1 -> Seq(Nat)]
  BY <1>4
<1>6. g[n + 1] = new /\ g[0] = <<>> /\ \A i \in 0 .. n : g[i] = f[i]
  BY <1>2
<1> HIDE DEF g
<1>7. ASSUME NEW i \in 1 .. n + 1 PROVE g[i] = g[i - 1] \o Unread(more[i])
  <2>1. CASE i = n + 1
    <3>1. g[i] = new /\ g[i - 1] = q /\ more[i] = b
      BY <1>2, <1>3, <1>6, <2>1
    <3>. QED
      BY <1>4, <3>1
  <2>2. CASE i # n + 1
    <3>1. i \in 1 .. n /\ i \in 0 .. n /\ i - 1 \in 0 .. n
      BY <2>2
    <3>2. g[i] = f[i] /\ g[i - 1] = f[i - 1] /\ more[i] = bufs[i]
      BY <1>3, <1>6, <3>1
    <3>. QED
      BY Zenon, <1>2, <3>1, <3>2
  <2>. QED
    BY <2>1, <2>2
<1>8. Joins(more, new)
  BY Zenon, <1>3, <1>5, <1>6, <1>7 DEF Joins
<1>. QED
  BY <1>3, <1>4, <1>8

\* More in the last buffer.
LEMMA JoinsLast ==
    ASSUME NEW bufs, BufsOK(bufs), Len(bufs) > 0, NEW b, BufferOK(b), NEW q, Joins(bufs, q),
           NEW part \in Seq(Nat), Unread(b) = Unread(bufs[Len(bufs)]) \o part
    PROVE  Joins([bufs EXCEPT ![Len(bufs)] = b], q \o part)
<1>1. PICK n \in Nat : n = Len(bufs) /\ n # 0
  BY LenProperties DEF BufsOK
<1>2. PICK f \in [0 .. n -> Seq(Nat)] :
        f[0] = <<>> /\ f[n] = q /\ \A i \in 1 .. n : f[i] = f[i - 1] \o Unread(bufs[i])
  BY <1>1 DEF Joins
<1>3. PICK more : /\ more = [bufs EXCEPT ![n] = b] /\ Len(more) = n
                  /\ \A i \in 1 .. n : more[i] = IF i = n THEN b ELSE bufs[i]
  <2>1. b \in Buffers /\ bufs \in Seq(Buffers) /\ n \in 1 .. Len(bufs)
    BY <1>1 DEF BufferOK, BufsOK
  <2>2. /\ Len([bufs EXCEPT ![n] = b]) = Len(bufs)
        /\ \A j \in 1 .. Len(bufs) : [bufs EXCEPT ![n] = b][j] = IF j = n THEN b ELSE bufs[j]
    BY <2>1, ExceptSeq
  <2>. QED
    BY Zenon, <1>1, <2>2
<1>4. PICK new, u : new = q \o part /\ u = Unread(bufs[n])
  OBVIOUS
<1>5. n \in 1 .. n /\ n \in 0 .. n /\ n - 1 \in 0 .. n
  BY <1>1
<1>6. u \in Seq(Nat) /\ q \in Seq(Nat) /\ f[n - 1] \in Seq(Nat)
  BY <1>1, <1>2, <1>4, <1>5, UnreadType DEF BufsOK
<1>7. new \in Seq(Nat)
  BY Zenon, <1>4, <1>6, ConcatBytes
<1>8. new = f[n - 1] \o Unread(b)
  <2>1. q = f[n - 1] \o u
    BY Zenon, <1>2, <1>4, <1>5
  <2>2. (f[n - 1] \o u) \o part = f[n - 1] \o (u \o part)
    BY Zenon, <1>6, ConcatBytes
  <2>. QED
    BY Zenon, <1>1, <1>4, <2>1, <2>2
<1> DEFINE g == [i \in 0 .. n |-> IF i = n THEN new ELSE f[i]]
<1>9. g \in [0 .. n -> Seq(Nat)]
  BY <1>7
<1>10. g[n] = new /\ g[0] = <<>> /\ \A i \in 0 .. n : i # n => g[i] = f[i]
  BY <1>1, <1>2, <1>5
<1> HIDE DEF g
<1>11. ASSUME NEW i \in 1 .. n PROVE g[i] = g[i - 1] \o Unread(more[i])
  <2>0. i \in 0 .. n /\ i - 1 \in 0 .. n /\ i - 1 # n
    OBVIOUS
  <2>1. CASE i = n
    <3>1. g[i] = new /\ g[i - 1] = f[n - 1] /\ more[i] = b
      BY <1>3, <1>10, <2>0, <2>1
    <3>. QED
      BY <1>8, <3>1
  <2>2. CASE i # n
    <3>1. g[i] = f[i] /\ g[i - 1] = f[i - 1] /\ more[i] = bufs[i]
      BY <1>3, <1>10, <2>0, <2>2
    <3>. QED
      BY Zenon, <1>2, <3>1
  <2>. QED
    BY <2>1, <2>2
<1>12. Joins(more, new)
  BY Zenon, <1>3, <1>9, <1>10, <1>11 DEF Joins
<1>. QED
  BY <1>1, <1>3, <1>4, <1>12

\* The first buffer, and the others.
LEMMA JoinsFirst ==
    ASSUME NEW bufs, BufsOK(bufs), Len(bufs) > 0, NEW q, Joins(bufs, q),
           NEW rest, Len(rest) = Len(bufs) - 1,
           \A i \in 1 .. Len(rest) : rest[i] = bufs[i + 1],
           NEW r, Joins(rest, r)
    PROVE  q = Unread(bufs[1]) \o r
<1>1. PICK n \in Nat : n + 1 = Len(bufs) /\ n = Len(rest)
  <2>1. Len(bufs) \in Nat /\ Len(bufs) - 1 \in Nat /\ (Len(bufs) - 1) + 1 = Len(bufs)
    BY LenProperties DEF BufsOK
  <2>. QED
    BY <2>1
<1>2. PICK f \in [0 .. n + 1 -> Seq(Nat)] :
        f[0] = <<>> /\ f[n + 1] = q /\ \A i \in 1 .. n + 1 : f[i] = f[i - 1] \o Unread(bufs[i])
  BY <1>1 DEF Joins
<1>3. PICK g \in [0 .. n -> Seq(Nat)] :
        g[0] = <<>> /\ g[n] = r /\ \A i \in 1 .. n : g[i] = g[i - 1] \o Unread(rest[i])
  BY <1>1 DEF Joins
<1>4. PICK u : u = Unread(bufs[1]) /\ u \in Seq(Nat)
  <2>1. 1 \in 1 .. Len(bufs)
    BY <1>1
  <2>. QED
    BY <2>1, UnreadType DEF BufsOK
<1> DEFINE S == {i \in 0 .. n : f[i + 1] = u \o g[i]}
<1>5. 0 \in S
  <2>1. 1 \in 1 .. n + 1 /\ 1 - 1 = 0 /\ 0 + 1 = 1 /\ 0 \in 0 .. n
    OBVIOUS
  <2>2. f[1] = <<>> \o u
    BY <1>2, <1>4, <2>1
  <2>3. <<>> \o u = u /\ u \o <<>> = u
    BY Zenon, <1>4, ConcatBytes
  <2>. QED
    BY <1>3, <2>1, <2>2, <2>3
<1>6. ASSUME NEW m \in 0 .. n - 1, m \in S PROVE m + 1 \in S
  <2>1. /\ m + 1 \in 1 .. n /\ m + 1 \in 0 .. n /\ m \in 0 .. n /\ (m + 1) - 1 = m
        /\ (m + 1) + 1 \in 1 .. n + 1 /\ ((m + 1) + 1) - 1 = m + 1
    OBVIOUS
  <2>2. PICK v, x : v = Unread(bufs[(m + 1) + 1]) /\ x = g[m]
    OBVIOUS
  <2>3. v \in Seq(Nat) /\ x \in Seq(Nat)
    BY <1>1, <2>1, <2>2, UnreadType DEF BufsOK
  <2>4. rest[m + 1] = bufs[(m + 1) + 1]
    BY <1>1, <2>1
  <2>5. g[m + 1] = x \o v
    BY Zenon, <1>3, <2>1, <2>2, <2>4
  <2>6. f[(m + 1) + 1] = f[m + 1] \o v
    BY Zenon, <1>2, <2>1, <2>2
  <2>7. f[m + 1] = u \o x
    BY <1>6, <2>2
  <2>8. (u \o x) \o v = u \o (x \o v)
    BY Zenon, <1>4, <2>3, ConcatBytes
  <2>9. f[(m + 1) + 1] = u \o g[m + 1]
    BY Zenon, <2>5, <2>6, <2>7, <2>8
  <2>. QED
    BY <2>1, <2>9
<1>7. n \in S
  <2>. HIDE DEF S
  <2>1. \A m \in 0 .. n : m \in S
    BY <1>5, <1>6, Climb
  <2>. QED
    BY <2>1
<1>. QED
  BY <1>2, <1>3, <1>4, <1>7

-----------------------------------------------------------------------------
(* The steps.                                                                 *)

LEMMA Capacities ==
    /\ MinCap \in 1 .. MaxCap /\ MaxCap \in Nat \ {0}
    /\ Threshold \in Nat \ {0} /\ Sizes \subseteq Nat
    /\ NoOne \notin Goroutines /\ Writers \subseteq Goroutines /\ Readers \subseteq Goroutines
    /\ \A r \in Readers : r \notin Writers
BY BytesPipeAssumption DEF Goroutines

\* Whoever slept no longer does; all others stay where they are.
LEMMA BroadcastWakes ==
    ASSUME PlaceOK
    PROVE  /\ Broadcast(at) \in [Goroutines -> Places]
           /\ \A g \in Goroutines :
                 /\ Broadcast(at)[g] \notin Asleep
                 /\ at[g] \notin Asleep => Broadcast(at)[g] = at[g]
                 /\ at[g] \in Asleep => Broadcast(at)[g] \in {"wwoken", "rwoken"}
                 /\ Broadcast(at)[g] = "wwoken" => at[g] \in {"wsleep", "wwoken"}
                 /\ Broadcast(at)[g] \in Inside <=> at[g] \in Inside
<1>1. ASSUME NEW g \in Goroutines
      PROVE  /\ Broadcast(at)[g] \in Places \ Asleep
             /\ at[g] \notin Asleep => Broadcast(at)[g] = at[g]
             /\ at[g] \in Asleep => Broadcast(at)[g] \in {"wwoken", "rwoken"}
             /\ Broadcast(at)[g] = "wwoken" => at[g] \in {"wsleep", "wwoken"}
             /\ Broadcast(at)[g] \in Inside <=> at[g] \in Inside
  <2>0. at[g] \in Places
    BY DEF PlaceOK
  <2>1. CASE at[g] = "wsleep"
    BY <2>1 DEF Broadcast, Places, Asleep, Inside
  <2>2. CASE at[g] = "rsleep"
    BY <2>2 DEF Broadcast, Places, Asleep, Inside
  <2>3. CASE at[g] \notin {"wsleep", "rsleep"}
    <3>1. Broadcast(at)[g] = at[g]
      BY <2>3 DEF Broadcast
    <3>. QED
      BY <2>0, <2>3, <3>1 DEF Places, Asleep, Inside
  <2>. QED
    BY <2>1, <2>2, <2>3
<1>2. DOMAIN Broadcast(at) = Goroutines /\ Broadcast(at) = [g \in Goroutines |-> Broadcast(at)[g]]
  BY DEF Broadcast
<1>. QED
  BY <1>1, <1>2

\* A goroutine comes in or out, or goes on inside.
LEMMA Moves ==
    ASSUME PlaceOK, NEW g \in Goroutines, NEW place \in Places,
           Go(g, place), closeErr' = closeErr,
           \/ mu = g /\ mu' = g /\ place \in Inside
           \/ mu = NoOne /\ mu' = g /\ place \in Inside
           \/ mu \in {g, NoOne} /\ mu' = NoOne /\ place \notin Inside,
           closeErr => place \notin Asleep \cup {"full"}
    PROVE  PlaceOK' /\ \A h \in Goroutines : at'[h] = IF h = g THEN place ELSE at[h]
<1>1. /\ at' \in [Goroutines -> Places]
      /\ \A h \in Goroutines : at'[h] = IF h = g THEN place ELSE at[h]
  BY DEF PlaceOK, Go
<1>2. mu' \in Goroutines \cup {NoOne}
  BY DEF PlaceOK
<1>3. \A h \in Goroutines : at'[h] \in Inside <=> mu' = h
  BY <1>1, Capacities DEF PlaceOK
<1>4. closeErr' => \A h \in Goroutines : at'[h] \notin Asleep \cup {"full"}
  BY <1>1 DEF PlaceOK
<1>. QED
  BY <1>1, <1>2, <1>3, <1>4 DEF PlaceOK

\* The mutex is given back and the others are woken.
LEMMA Returns ==
    ASSUME PlaceOK, NEW g \in Goroutines, mu = g, BroadcastReturn(g), closeErr' = closeErr
    PROVE  /\ PlaceOK'
           /\ \A h \in Goroutines :
                 at'[h] \in {"full", "wsleep", "wwoken"} => at[h] \in {"full", "wsleep", "wwoken"}
<1>1. /\ at' \in [Goroutines -> Places] /\ mu' = NoOne
      /\ \A h \in Goroutines : at'[h] = IF h = g THEN "idle" ELSE Broadcast(at)[h]
  BY BroadcastWakes DEF BroadcastReturn, Places
<1>2. \A h \in Goroutines : at'[h] \notin Inside
  BY <1>1, BroadcastWakes, Capacities DEF PlaceOK, Inside
<1>3. \A h \in Goroutines : at'[h] \notin Asleep \cup {"full"}
  BY <1>1, <1>2, BroadcastWakes DEF Asleep, Inside
<1>4. \A h \in Goroutines :
         at'[h] \in {"full", "wsleep", "wwoken"} => at[h] \in {"full", "wsleep", "wwoken"}
  BY <1>1, BroadcastWakes DEF Asleep
<1>. QED
  BY <1>1, <1>2, <1>3, <1>4, Capacities DEF PlaceOK

\* While nobody who found no room is new, what is known of lastCap stays.
LEMMA ArgKept ==
    ASSUME ArgOK, UNCHANGED <<arg, lastCap, sent>>,
           \A w \in Writers :
              at'[w] \in {"full", "wsleep", "wwoken"} => at[w] \in {"full", "wsleep", "wwoken"}
    PROVE  ArgOK'
BY DEF ArgOK

LEMMA BufKept == ASSUME BufOK, UNCHANGED <<buf, bufLen>> PROVE BufOK'
BY DEF BufOK, Sums, Left

LEMMA InitPipe == PipeInit => PipeInv
<1> SUFFICES ASSUME PipeInit PROVE PipeInv
  OBVIOUS
<1>1. PlaceOK
  BY Capacities DEF PipeInit, PipeFrom, PlaceOK, Places, Inside
<1>2. FlagsOK
  BY Zenon DEF PipeInit, PipeFrom, FlagsOK
<1>3. ArgOK
  <2>1. /\ DOMAIN arg = Goroutines
        /\ \A g \in Goroutines : arg[g] = IF g \in Writers THEN <<>> ELSE 0
    BY DEF PipeInit, PipeFrom
  <2>2. <<>> \in Seq(Nat)
    OBVIOUS
  <2>3. \A w \in Writers : at[w] = "idle"
    BY Capacities DEF PipeInit, PipeFrom
  <2>. QED
    BY <2>1, <2>2, <2>3, Capacities DEF PipeInit, PipeFrom, ArgOK
<1>4. BufOK
  <2>1. BufferOK(getBuffer(MinCap)) /\ Left(getBuffer(MinCap)) = 0
    BY NewBuffer, Capacities
  <2>2. PICK b : b = getBuffer(MinCap)
    OBVIOUS
  <2>3. buf = <<b>> /\ bufLen = 0 /\ b \in Buffers /\ Left(b) = 0 /\ BufferOK(b)
    BY <2>1, <2>2 DEF PipeInit, PipeFrom, BufferOK
  <2>4. Sums(<<b>>, 0)
    BY <2>3, SumsOfOne
  <2>5. /\ <<b>> \in Seq(Buffers) /\ Len(<<b>>) = 1
        /\ \A i \in 1 .. 1 : <<b>>[i] = b
    BY <2>3
  <2>. QED
    BY <2>3, <2>4, <2>5, Capacities DEF BufOK
<1>. QED
  BY <1>1, <1>2, <1>3, <1>4 DEF PipeInv

\* Steps that only move a goroutine.
LEMMA KeptByMove ==
    ASSUME PipeInv, NEW g \in Goroutines, NEW place \in Places,
           Go(g, place), UNCHANGED <<arg, lastCap, pipe, sent>>, ended' \in BOOLEAN,
           \/ mu = g /\ mu' = g /\ place \in Inside
           \/ mu = NoOne /\ mu' = g /\ place \in Inside
           \/ mu \in {g, NoOne} /\ mu' = NoOne /\ place \notin Inside,
           closeErr => place \notin Asleep \cup {"full"},
           place \in {"full", "wsleep", "wwoken"} => at[g] \in {"full", "wsleep", "wwoken"}
    PROVE  PipeInv'
<1>1. closeErr' = closeErr /\ UNCHANGED <<buf, bufLen>>
  BY DEF pipe
<1>2. PlaceOK' /\ \A h \in Goroutines : at'[h] = IF h = g THEN place ELSE at[h]
  BY <1>1, Moves DEF PipeInv
<1>3. FlagsOK'
  BY Zenon, <1>1 DEF PipeInv, FlagsOK
<1>4. ArgOK'
  BY <1>2, ArgKept, Capacities DEF PipeInv
<1>5. BufOK'
  BY <1>1, BufKept DEF PipeInv
<1>. QED
  BY <1>2, <1>3, <1>4, <1>5 DEF PipeInv

LEMMA KeptByWriteClosed ==
    ASSUME PipeInv, NEW w \in Writers, WriteClosed(w) PROVE PipeInv'
<1>1. /\ mu = w /\ mu' = NoOne /\ Go(w, "idle") /\ UNCHANGED <<arg, lastCap, pipe, sent>>
      /\ ended' = ended
  BY DEF WriteClosed, Has, Return, history
<1>2. ended' \in BOOLEAN
  BY Zenon, <1>1 DEF PipeInv, FlagsOK
<1>. QED
  BY <1>1, <1>2, KeptByMove, Capacities DEF Places, Inside, Asleep

LEMMA KeptByWriterWaits ==
    ASSUME PipeInv, NEW w \in Writers, WriterWaits(w) PROVE PipeInv'
<1>1. /\ mu = w /\ mu' = NoOne /\ Go(w, "wsleep") /\ UNCHANGED <<arg, lastCap, pipe, sent>>
      /\ at[w] = "full" /\ ended' = ended
  BY DEF WriterWaits, Has, history
<1>2. ended' \in BOOLEAN
  BY Zenon, <1>1 DEF PipeInv, FlagsOK
<1>3. ~closeErr
  BY <1>1, Capacities DEF PipeInv, PlaceOK
<1>. QED
  BY <1>1, <1>2, <1>3, KeptByMove, Capacities DEF Places, Inside

LEMMA KeptByWriterResumes ==
    ASSUME PipeInv, NEW w \in Writers, WriterResumes(w) PROVE PipeInv'
<1>1. /\ mu = NoOne /\ mu' = w /\ UNCHANGED <<arg, lastCap, pipe, sent>>
      /\ at[w] = "wwoken" /\ ended' = ended
  BY DEF WriterResumes, Lock, history
<1>2. ended' \in BOOLEAN
  BY Zenon, <1>1 DEF PipeInv, FlagsOK
<1>3. CASE closeErr
  <2>1. Go(w, "write")
    BY <1>3 DEF WriterResumes
  <2>. QED
    BY <1>1, <1>2, <2>1, KeptByMove, Capacities DEF Places, Inside, Asleep
<1>4. CASE ~closeErr
  <2>1. Go(w, "full")
    BY <1>4 DEF WriterResumes
  <2>. QED
    BY <1>1, <1>2, <1>4, <2>1, KeptByMove, Capacities DEF Places, Inside, Asleep
<1>. QED
  BY <1>3, <1>4

LEMMA KeptByReadEnds ==
    ASSUME PipeInv, NEW r \in Readers, ReadEnds(r) PROVE PipeInv'
<1>1. /\ mu = NoOne /\ mu' = NoOne /\ Go(r, "idle") /\ UNCHANGED <<arg, lastCap, pipe, sent>>
      /\ ended' = TRUE
  BY DEF ReadEnds
<1>2. ended' \in BOOLEAN
  BY <1>1
<1>. QED
  BY <1>1, <1>2, KeptByMove, Capacities DEF Places, Inside, Asleep

LEMMA KeptByReaderResumes ==
    ASSUME PipeInv, NEW r \in Readers, ReaderResumes(r) PROVE PipeInv'
<1>1. /\ mu = NoOne /\ mu' = r /\ Go(r, "read") /\ UNCHANGED <<arg, lastCap, pipe, sent>>
      /\ ended' = ended
  BY DEF ReaderResumes, Lock, history
<1>2. ended' \in BOOLEAN
  BY Zenon, <1>1 DEF PipeInv, FlagsOK
<1>. QED
  BY <1>1, <1>2, KeptByMove, Capacities DEF Places, Inside, Asleep

LEMMA KeptByReadReturns ==
    ASSUME PipeInv, NEW r \in Readers, ReadReturns(r) PROVE PipeInv'
<1>1. /\ mu = r /\ BroadcastReturn(r) /\ UNCHANGED <<arg, lastCap, buf, bufLen, closeErr, sent, ended>>
  BY DEF ReadReturns, Has, pipe, history
<1>2. /\ PlaceOK'
      /\ \A h \in Goroutines :
            at'[h] \in {"full", "wsleep", "wwoken"} => at[h] \in {"full", "wsleep", "wwoken"}
  BY <1>1, Returns, Capacities DEF PipeInv
<1>3. FlagsOK'
  BY Zenon, <1>1 DEF PipeInv, FlagsOK
<1>4. ArgOK' /\ BufOK'
  BY <1>1, <1>2, ArgKept, BufKept, Capacities DEF PipeInv
<1>. QED
  BY <1>2, <1>3, <1>4 DEF PipeInv

LEMMA KeptByCallWrite ==
    ASSUME PipeInv, NEW w \in Writers, NEW size \in Sizes, CallWrite(w, size) PROVE PipeInv'
<1>1. /\ mu = NoOne /\ mu' = w /\ Go(w, "write")
      /\ UNCHANGED <<lastCap, buf, bufLen, closeErr, ended>>
      /\ sent' = sent + size
      /\ arg' = [arg EXCEPT ![w] = [i \in 1 .. size |-> sent + i]]
  BY DEF CallWrite, Lock, pipe
<1>2. PlaceOK' /\ \A h \in Goroutines : at'[h] = IF h = w THEN "write" ELSE at[h]
  BY <1>1, Moves, Capacities DEF PipeInv, Places, Inside, Asleep
<1>3. FlagsOK'
  BY Zenon, <1>1 DEF PipeInv, FlagsOK
<1>4. ArgOK'
  <2>1. size \in Nat /\ sent \in Nat
    BY Capacities DEF PipeInv, ArgOK
  <2>2. PICK p : p = [i \in 1 .. size |-> sent + i]
    OBVIOUS
  <2>3. p \in Seq(Nat)
    <3>1. p \in [1 .. size -> Nat]
      BY <2>1, <2>2
    <3>. QED
      BY Zenon, <2>1, <3>1, SeqDef
  <2>4. arg' = [arg EXCEPT ![w] = p]
    BY <1>1, <2>2
  <2>5. /\ DOMAIN arg' = Goroutines
        /\ \A v \in Writers : arg'[v] \in Seq(Nat)
        /\ \A r \in Readers : arg'[r] \in Nat
    BY <2>3, <2>4, Capacities DEF PipeInv, ArgOK
  <2>6. sent' \in Nat
    BY <1>1, <2>1
  <2>. QED
    BY <1>1, <1>2, <2>5, <2>6, Capacities DEF PipeInv, ArgOK
<1>5. BufOK'
  BY <1>1, BufKept DEF PipeInv
<1>. QED
  BY <1>2, <1>3, <1>4, <1>5 DEF PipeInv

LEMMA KeptByCallRead ==
    ASSUME PipeInv, NEW r \in Readers, NEW size \in Sizes, CallRead(r, size) PROVE PipeInv'
<1>1. /\ UNCHANGED <<lastCap, buf, bufLen, closeErr, sent, ended>>
      /\ arg' = [arg EXCEPT ![r] = size]
      /\ \/ mu = NoOne /\ mu' = r /\ Go(r, "read")
         \/ ~closeErr /\ mu = NoOne /\ mu' = NoOne /\ Go(r, "rsleep")
  BY DEF CallRead, Lock, pipe, history
<1>2. /\ PlaceOK'
      /\ \A h \in Goroutines :
            at'[h] \in {"full", "wsleep", "wwoken"} => at[h] \in {"full", "wsleep", "wwoken"}
  <2>1. CASE mu = NoOne /\ mu' = r /\ Go(r, "read")
    BY <1>1, <2>1, Moves, Capacities DEF PipeInv, Places, Inside, Asleep
  <2>2. CASE ~closeErr /\ mu = NoOne /\ mu' = NoOne /\ Go(r, "rsleep")
    BY <1>1, <2>2, Moves, Capacities DEF PipeInv, Places, Inside, Asleep
  <2>. QED
    BY <1>1, <2>1, <2>2
<1>3. FlagsOK'
  BY Zenon, <1>1 DEF PipeInv, FlagsOK
<1>4. ArgOK'
  BY <1>1, <1>2, Capacities DEF PipeInv, ArgOK
<1>5. BufOK'
  BY <1>1, BufKept DEF PipeInv
<1>. QED
  BY <1>2, <1>3, <1>4, <1>5 DEF PipeInv

LEMMA KeptByCloseWithError ==
    ASSUME PipeInv, CloseWithError PROVE PipeInv'
<1>1. /\ mu = NoOne /\ mu' = NoOne /\ at' = Broadcast(at) /\ closeErr' = TRUE
      /\ UNCHANGED <<arg, lastCap, buf, bufLen, sent, ended>>
  BY DEF CloseWithError, history
<1>2. PlaceOK'
  <2>1. \A g \in Goroutines : at'[g] \notin Inside
    BY <1>1, BroadcastWakes, Capacities DEF PipeInv, PlaceOK
  <2>. QED
    BY <1>1, <2>1, BroadcastWakes, Capacities DEF PipeInv, PlaceOK, Inside
<1>3. FlagsOK'
  BY Zenon, <1>1 DEF PipeInv, FlagsOK
<1>4. ArgOK'
  <2>1. \A w \in Writers :
           at'[w] \in {"full", "wsleep", "wwoken"} => at[w] \in {"full", "wsleep", "wwoken"}
    BY <1>1, BroadcastWakes, Capacities DEF PipeInv, Asleep, Inside
  <2>. QED
    BY <1>1, <2>1, ArgKept DEF PipeInv
<1>5. BufOK'
  BY <1>1, BufKept DEF PipeInv
<1>. QED
  BY <1>2, <1>3, <1>4, <1>5 DEF PipeInv

\* The next buffer: below the limit there is room for it.
LEMMA KeptByGrow ==
    ASSUME PipeInv, NEW w \in Writers, Grow(w) PROVE PipeInv'
<1>1. /\ mu = w /\ mu' = w /\ at[w] = "full" /\ Go(w, "write") /\ bufLen < Threshold
      /\ UNCHANGED <<arg, lastCap, bufLen, closeErr, sent, ended>>
      /\ buf' = Append(buf, getBuffer(Least(2 * lastCap[w], MaxCap)))
  BY DEF Grow, Has, history
<1>2. PlaceOK' /\ \A h \in Goroutines : at'[h] = IF h = w THEN "write" ELSE at[h]
  BY <1>1, Moves, Capacities DEF PipeInv, Places, Inside, Asleep
<1>3. FlagsOK'
  BY Zenon, <1>1 DEF PipeInv, FlagsOK
<1>4. ArgOK'
  BY <1>1, <1>2, ArgKept, Capacities DEF PipeInv
<1>5. BufOK'
  <2>1. lastCap[w] \in Nat /\ lastCap[w] > 0
    BY <1>1 DEF PipeInv, ArgOK
  <2>2. Least(2 * lastCap[w], MaxCap) \in 1 .. MaxCap
    BY <2>1, Capacities DEF Least
  <2>3. PICK b : /\ b = getBuffer(Least(2 * lastCap[w], MaxCap))
                 /\ BufferOK(b) /\ Left(b) = 0
    BY <2>2, NewBuffer
  <2>4. /\ buf \in Seq(Buffers) /\ \A i \in 1 .. Len(buf) : BufferOK(buf[i])
        /\ bufLen \in Int /\ Sums(buf, bufLen) /\ Len(buf) \in Nat
    BY LenProperties DEF PipeInv, BufOK
  <2>5. b \in Buffers
    BY <2>3 DEF BufferOK
  <2>6. /\ buf' \in Seq(Buffers) /\ Len(buf') = Len(buf) + 1
        /\ \A i \in 1 .. Len(buf) : buf'[i] = buf[i]
        /\ buf'[Len(buf) + 1] = b
    BY <1>1, <2>3, <2>4, <2>5, AppendProperties
  <2>7. \A i \in 1 .. Len(buf') : BufferOK(buf'[i])
    <3>. SUFFICES ASSUME NEW i \in 1 .. Len(buf) + 1 PROVE BufferOK(buf'[i])
      BY <2>6
    <3>1. CASE i = Len(buf) + 1
      BY <2>3, <2>6, <3>1
    <3>2. CASE i # Len(buf) + 1
      <4>1. i \in 1 .. Len(buf)
        BY <2>4, <3>2
      <4>. QED
        BY <2>4, <2>6, <4>1
    <3>. QED
      BY <3>1, <3>2
  <2>8. Sums(buf', bufLen')
    <3>1. Sums(Append(buf, b), bufLen + Left(b))
      BY <2>3, <2>4, <2>5, SumsAppend
    <3>2. bufLen + Left(b) = bufLen
      BY <2>3, <2>4
    <3>. QED
      BY <1>1, <2>3, <3>1, <3>2
  <2>9. bufLen' - Left(buf'[Len(buf')]) < Threshold
    BY <1>1, <2>3, <2>4, <2>6
  <2>. QED
    BY <1>1, <2>4, <2>6, <2>7, <2>8, <2>9 DEF BufOK
<1>. QED
  BY <1>2, <1>3, <1>4, <1>5 DEF PipeInv

\* A buffer is replaced by another that holds d bytes more, or d less.
LEMMA Replaced ==
    ASSUME BufOK, NEW k \in 1 .. Len(buf), NEW b, BufferOK(b), NEW d \in Int,
           Left(b) = Left(buf[k]) + d, k = Len(buf) \/ d <= 0,
           buf' = [buf EXCEPT ![k] = b], bufLen' = bufLen + d
    PROVE  BufOK'
<1>1. /\ buf \in Seq(Buffers) /\ \A i \in 1 .. Len(buf) : BufferOK(buf[i])
      /\ bufLen \in Int /\ Sums(buf, bufLen) /\ Len(buf) \in Nat
  BY LenProperties DEF BufOK
<1>2. b \in Buffers
  BY DEF BufferOK
<1>3. /\ buf' \in Seq(Buffers) /\ Len(buf') = Len(buf)
      /\ \A i \in 1 .. Len(buf) : buf'[i] = IF i = k THEN b ELSE buf[i]
  BY <1>1, <1>2, ExceptSeq
<1>4. \A i \in 1 .. Len(buf) : Left(buf[i]) \in Int
  BY <1>1, BufferFacts
<1>5. Left(b) \in Int
  BY BufferFacts
<1>6. Sums(buf', bufLen')
  <2>1. Sums([buf EXCEPT ![k] = b], bufLen - Left(buf[k]) + Left(b))
    BY <1>1, <1>2, <1>4, <1>5, SumsChange
  <2>2. Left(buf[k]) \in Int
    BY <1>4
  <2>3. bufLen - Left(buf[k]) + Left(b) = bufLen + d
    BY <1>1, <2>2
  <2>. QED
    BY <2>1, <2>3
<1>7. bufLen' - Left(buf'[Len(buf')]) < Threshold
  <2>0. Len(buf) \in 1 .. Len(buf) /\ bufLen - Left(buf[Len(buf)]) < Threshold
        /\ Left(buf[Len(buf)]) \in Int
    BY <1>1, <1>4 DEF BufOK
  <2>1. CASE k = Len(buf)
    <3>1. buf'[Len(buf')] = b
      BY <1>3, <2>0, <2>1
    <3>2. bufLen' - Left(b) = bufLen - Left(buf[Len(buf)])
      BY <1>1, <2>0, <2>1
    <3>. QED
      BY <2>0, <3>1, <3>2
  <2>2. CASE k # Len(buf)
    <3>1. buf'[Len(buf')] = buf[Len(buf)] /\ d <= 0
      BY <1>3, <2>0, <2>2
    <3>2. (bufLen + d) - Left(buf[Len(buf)]) < Threshold
      BY <1>1, <2>0, <3>1, Capacities
    <3>. QED
      BY <3>1, <3>2
  <2>. QED
    BY <2>1, <2>2
<1>8. \A i \in 1 .. Len(buf') : BufferOK(buf'[i])
  BY <1>1, <1>3
<1>9. bufLen' \in Int
  BY <1>1
<1>. QED
  BY <1>3, <1>6, <1>7, <1>8, <1>9 DEF BufOK

\* What fits goes into the last buffer, or into the first one.
\* What a Write finds, and what it does to the buffers: bufs are the buffers it
\* starts from, b the last of them, and n bytes of p fit.
Writing(w, bufs, b, p, n) ==
    /\ bufs = IF buf = <<>> THEN <<getBuffer(MinCap)>> ELSE buf
    /\ BufsOK(bufs) /\ Sums(bufs, bufLen) /\ Len(bufs) \in Nat \ {0}
    /\ b = bufs[Len(bufs)] /\ p = arg[w]
    /\ BufferOK(b) /\ bufLen - Left(b) < Threshold
    /\ p \in Seq(Nat) /\ n \in Nat /\ n <= Len(p) /\ n <= Room(b)
    /\ buf' = [bufs EXCEPT ![Len(bufs)] = BufferWrite(b, p, n)]
    /\ bufLen' = bufLen + n
    /\ arg' = [arg EXCEPT ![w] = SubSeq(@, n + 1, Len(@))]
    /\ lastCap' = [lastCap EXCEPT ![w] = b.cap]
    /\ IF n = Len(p) THEN BroadcastReturn(w) ELSE Go(w, "full") /\ UNCHANGED mu

LEMMA WriteFacts ==
    ASSUME PipeInv, NEW w \in Writers, Write(w)
    PROVE  \E bufs, b, p, n : Writing(w, bufs, b, p, n)
<1> DEFINE Bufs == IF buf = <<>> THEN <<getBuffer(MinCap)>> ELSE buf
           Fits == Least(Len(arg[w]), Room(Bufs[Len(Bufs)]))
<1>0. /\ buf' = [Bufs EXCEPT ![Len(Bufs)] = BufferWrite(@, arg[w], Fits)]
      /\ bufLen' = bufLen + Fits
      /\ arg' = [arg EXCEPT ![w] = SubSeq(@, Fits + 1, Len(@))]
      /\ lastCap' = [lastCap EXCEPT ![w] = Bufs[Len(Bufs)].cap]
      /\ IF Fits = Len(arg[w]) THEN BroadcastReturn(w) ELSE Go(w, "full") /\ UNCHANGED mu
  BY Zenon DEF Write
<1> HIDE DEF Bufs
<1>a. PICK bufs : bufs = Bufs
  OBVIOUS
<1>b. PICK last : last = Len(bufs)
  OBVIOUS
<1>c. PICK n : n = Least(Len(arg[w]), Room(bufs[last]))
  OBVIOUS
<1>1. /\ bufs = IF buf = <<>> THEN <<getBuffer(MinCap)>> ELSE buf
      /\ last = Len(bufs)
      /\ n = Least(Len(arg[w]), Room(bufs[last]))
      /\ buf' = [bufs EXCEPT ![last] = BufferWrite(@, arg[w], n)]
      /\ bufLen' = bufLen + n
      /\ arg' = [arg EXCEPT ![w] = SubSeq(@, n + 1, Len(@))]
      /\ lastCap' = [lastCap EXCEPT ![w] = bufs[last].cap]
      /\ IF n = Len(arg[w]) THEN BroadcastReturn(w) ELSE Go(w, "full") /\ UNCHANGED mu
  <2>1. Bufs = IF buf = <<>> THEN <<getBuffer(MinCap)>> ELSE buf
    BY DEF Bufs
  <2>2. Fits = n /\ last = Len(Bufs)
    BY <1>a, <1>b, <1>c
  <2>. HIDE DEF Fits
  <2>. QED
    BY <1>0, <1>a, <1>b, <1>c, <2>1, <2>2
<1>5. /\ buf \in Seq(Buffers) /\ \A i \in 1 .. Len(buf) : BufferOK(buf[i])
      /\ bufLen \in Int /\ Sums(buf, bufLen) /\ Len(buf) \in Nat
      /\ Len(buf) > 0 => bufLen - Left(buf[Len(buf)]) < Threshold
  BY LenProperties DEF PipeInv, BufOK
<1>6. /\ bufs \in Seq(Buffers) /\ \A i \in 1 .. Len(bufs) : BufferOK(bufs[i])
      /\ Sums(bufs, bufLen) /\ Len(bufs) \in Nat \ {0}
      /\ bufLen - Left(bufs[Len(bufs)]) < Threshold
  <2>1. CASE buf = <<>>
    <3>1. PICK b : b = getBuffer(MinCap) /\ BufferOK(b) /\ Left(b) = 0
      BY NewBuffer, Capacities
    <3>2. bufs = <<b>> /\ b \in Buffers
      BY <1>1, <2>1, <3>1 DEF BufferOK
    <3>3. bufLen = 0
      BY <1>5, <2>1, SumsOfNone
    <3>4. Sums(<<b>>, 0)
      BY <3>1, SumsOfOne
    <3>5. /\ <<b>> \in Seq(Buffers) /\ Len(<<b>>) = 1
          /\ \A i \in 1 .. 1 : <<b>>[i] = b
      BY <3>2
    <3>. QED
      BY <3>1, <3>2, <3>3, <3>4, <3>5, Capacities
  <2>2. CASE buf # <<>>
    <3>1. bufs = buf /\ Len(buf) # 0
      BY <1>1, <1>5, <2>2, EmptySeq
    <3>. QED
      BY <1>5, <3>1
  <2>. QED
    BY <2>1, <2>2
<1>7. PICK b, p : /\ b = bufs[last] /\ p = arg[w] /\ BufferOK(b) /\ p \in Seq(Nat)
                  /\ Len(p) \in Nat
  <2>1. arg[w] \in Seq(Nat) /\ Len(arg[w]) \in Nat
    BY LenProperties DEF PipeInv, ArgOK
  <2>2. last \in 1 .. Len(bufs) /\ BufferOK(bufs[last])
    BY <1>1, <1>6
  <2>. QED
    BY <2>1, <2>2
<1>8. n \in Nat /\ n <= Len(p) /\ n <= Room(b)
  BY <1>1, <1>7, BufferFacts, LeastFacts
<1>9. PICK c : c = BufferWrite(b, p, n)
  OBVIOUS
<1>10. buf' = [bufs EXCEPT ![Len(bufs)] = c]
  BY <1>1, <1>7, <1>9
<1>11. BufsOK(bufs) /\ Sums(bufs, bufLen) /\ Len(bufs) \in Nat \ {0}
  BY <1>6 DEF BufsOK
<1>12. b = bufs[Len(bufs)] /\ bufLen - Left(b) < Threshold
  BY Zenon, <1>1, <1>6, <1>7
<1>13. /\ bufLen' = bufLen + n
       /\ arg' = [arg EXCEPT ![w] = SubSeq(@, n + 1, Len(@))]
       /\ lastCap' = [lastCap EXCEPT ![w] = b.cap]
       /\ IF n = Len(p) THEN BroadcastReturn(w) ELSE Go(w, "full") /\ UNCHANGED mu
  BY Zenon, <1>1, <1>7
<1>14. Writing(w, bufs, b, p, n)
  BY Zenon, <1>1, <1>7, <1>8, <1>9, <1>10, <1>11, <1>12, <1>13 DEF Writing
<1>. QED
  BY <1>14

LEMMA KeptByWrite ==
    ASSUME PipeInv, NEW w \in Writers, Write(w) PROVE PipeInv'
<1>0. PICK bufs, b, p, n : Writing(w, bufs, b, p, n)
  BY Zenon, WriteFacts
<1>a. PICK last : last = Len(bufs)
  OBVIOUS
<1>1. /\ last = Len(bufs)
      /\ buf' = [bufs EXCEPT ![last] = BufferWrite(b, p, n)]
      /\ bufLen' = bufLen + n
      /\ arg' = [arg EXCEPT ![w] = SubSeq(@, n + 1, Len(@))]
      /\ lastCap' = [lastCap EXCEPT ![w] = b.cap]
      /\ IF n = Len(p) THEN BroadcastReturn(w) ELSE Go(w, "full") /\ UNCHANGED mu
  BY Zenon, <1>0, <1>a DEF Writing
<1>2. /\ mu = w /\ at[w] = "write" /\ ~closeErr /\ UNCHANGED <<closeErr, sent, ended>>
  BY DEF Write, Has, history
<1>3. FlagsOK'
  BY Zenon, <1>2 DEF PipeInv, FlagsOK
<1>4. /\ PlaceOK'
      /\ \A h \in Goroutines \ {w} :
            at'[h] \in {"full", "wsleep", "wwoken"} => at[h] \in {"full", "wsleep", "wwoken"}
  <2>1. CASE BroadcastReturn(w)
    BY <1>2, <2>1, Returns, Capacities DEF PipeInv
  <2>2. CASE Go(w, "full") /\ UNCHANGED mu
    BY <1>2, <2>2, Moves, Capacities DEF PipeInv, Places, Inside
  <2>. QED
    BY <1>1, <2>1, <2>2
<1>5. bufLen \in Int
  BY DEF PipeInv, BufOK
<1>6. /\ bufs \in Seq(Buffers) /\ \A i \in 1 .. Len(bufs) : BufferOK(bufs[i])
      /\ Sums(bufs, bufLen) /\ Len(bufs) \in Nat \ {0}
      /\ bufLen - Left(b) < Threshold
  BY <1>0 DEF Writing, BufsOK
<1>7. b = bufs[last] /\ p = arg[w] /\ BufferOK(b) /\ p \in Seq(Nat) /\ Len(p) \in Nat
  BY <1>0, <1>a, LenProperties DEF Writing
<1>8. n \in Nat /\ n <= Len(p) /\ n <= Room(b)
  BY <1>0 DEF Writing
<1>9. PICK c : c = BufferWrite(b, p, n) /\ BufferOK(c) /\ Left(c) = Left(b) + n
  BY <1>7, <1>8, WrittenBuffer
<1>10. ArgOK'
  <2>1. b.cap \in 1 .. MaxCap
    BY <1>7, BufferFacts
  <2>2. SubSeq(p, n + 1, Len(p)) \in Seq(Nat)
    BY <1>7, <1>8
  <2>3. PICK rest \in Seq(Nat) : arg' = [arg EXCEPT ![w] = rest]
    BY <1>1, <1>7, <2>2
  <2>4. /\ DOMAIN arg' = Goroutines
        /\ \A v \in Writers : arg'[v] \in Seq(Nat)
        /\ \A r \in Readers : arg'[r] \in Nat
    BY <2>3, Capacities DEF PipeInv, ArgOK
  <2>5. PICK k : k = b.cap
    OBVIOUS
  <2>6. k \in Nat \ {0} /\ lastCap' = [lastCap EXCEPT ![w] = k]
    BY <1>1, <1>7, <2>1, <2>5, Capacities
  <2>7. /\ lastCap' \in [Writers -> Nat]
        /\ \A v \in Writers : lastCap'[v] = IF v = w THEN k ELSE lastCap[v]
    BY <2>6 DEF PipeInv, ArgOK
  <2>. QED
    BY <1>2, <1>4, <2>4, <2>6, <2>7, Capacities DEF PipeInv, ArgOK
<1>11. BufOK'
  <2>1. buf' = [bufs EXCEPT ![last] = c] /\ bufLen' = bufLen + n /\ last \in 1 .. Len(bufs)
    BY <1>1, <1>6, <1>7, <1>9
  <2>2. c \in Buffers
    BY <1>9 DEF BufferOK
  <2>3. /\ buf' \in Seq(Buffers) /\ Len(buf') = Len(bufs)
        /\ \A i \in 1 .. Len(bufs) : buf'[i] = IF i = last THEN c ELSE bufs[i]
    BY <1>6, <2>1, <2>2, ExceptSeq
  <2>4. \A i \in 1 .. Len(bufs) : Left(bufs[i]) \in Int
    BY <1>6, BufferFacts
  <2>5. Left(c) \in Int /\ Left(b) \in Int
    BY <1>7, <1>9, BufferFacts
  <2>6. Sums([bufs EXCEPT ![last] = c], bufLen - Left(bufs[last]) + Left(c))
    BY <1>5, <1>6, <2>1, <2>2, <2>4, <2>5, SumsChange
  <2>7. bufLen - Left(bufs[last]) + Left(c) = bufLen + n
    BY <1>5, <1>7, <1>8, <1>9, <2>5
  <2>8. \A i \in 1 .. Len(buf') : BufferOK(buf'[i])
    BY <1>6, <1>9, <2>3
  <2>9. (bufLen + n) - Left(c) = bufLen - Left(b)
    BY <1>5, <1>8, <1>9, <2>5
  <2>10. buf'[Len(buf')] = c
    BY <1>1, <2>1, <2>3
  <2>11. bufLen' - Left(buf'[Len(buf')]) < Threshold
    BY <1>1, <1>6, <1>7, <2>1, <2>9, <2>10
  <2>12. Sums(buf', bufLen')
    BY Zenon, <2>1, <2>6, <2>7
  <2>13. bufLen' \in Int
    BY <1>5, <1>8, <2>1
  <2>. QED
    BY Zenon, <2>3, <2>8, <2>11, <2>12, <2>13 DEF BufOK
<1>. QED
  BY <1>3, <1>4, <1>10, <1>11 DEF PipeInv

LEMMA KeptByRead ==
    ASSUME PipeInv, NEW r \in Readers, Read(r) PROVE PipeInv'
<1> DEFINE First == buf[1]
           Gets == Least(arg[r], Len(Unread(First)))
<1>0. /\ bufLen > 0 /\ bufLen' = bufLen - Gets
      /\ buf' = IF Gets = Len(Unread(First)) THEN Tail(buf)
                ELSE [buf EXCEPT ![1] = BufferRead(@, Gets)]
      /\ arg' = [arg EXCEPT ![r] = @ - Gets]
      /\ IF Gets = arg[r] THEN BroadcastReturn(r) ELSE UNCHANGED <<mu, at>>
      /\ mu = r /\ UNCHANGED <<lastCap, closeErr, sent, ended>>
  BY DEF Read, Has
<1>a. PICK b : b = First
  OBVIOUS
<1>b. PICK n : n = Least(arg[r], Len(Unread(b)))
  OBVIOUS
<1>1. /\ b = buf[1] /\ n = Least(arg[r], Len(Unread(b)))
      /\ bufLen > 0 /\ bufLen' = bufLen - n
      /\ buf' = IF n = Len(Unread(b)) THEN Tail(buf) ELSE [buf EXCEPT ![1] = BufferRead(b, n)]
      /\ arg' = [arg EXCEPT ![r] = @ - n]
      /\ BroadcastReturn(r) \/ UNCHANGED <<mu, at>>
      /\ mu = r /\ UNCHANGED <<lastCap, closeErr, sent, ended>>
  BY <1>0, <1>a, <1>b
<1> HIDE DEF First, Gets
<1>2. /\ PlaceOK'
      /\ \A h \in Goroutines :
            at'[h] \in {"full", "wsleep", "wwoken"} => at[h] \in {"full", "wsleep", "wwoken"}
  <2>1. CASE BroadcastReturn(r)
    BY <1>1, <2>1, Returns, Capacities DEF PipeInv
  <2>2. CASE UNCHANGED <<mu, at>>
    BY <1>1, <2>2 DEF PipeInv, PlaceOK
  <2>. QED
    BY <1>1, <2>1, <2>2
<1>3. FlagsOK'
  BY Zenon, <1>1 DEF PipeInv, FlagsOK
<1>4. /\ buf \in Seq(Buffers) /\ \A i \in 1 .. Len(buf) : BufferOK(buf[i])
      /\ bufLen \in Int /\ Sums(buf, bufLen) /\ Len(buf) \in Nat
      /\ Len(buf) > 0 => bufLen - Left(buf[Len(buf)]) < Threshold
  BY LenProperties DEF PipeInv, BufOK
<1>5. Len(buf) > 0
  <2>1. CASE buf = <<>>
    <3>1. bufLen = 0
      BY <1>4, <2>1, SumsOfNone
    <3>. QED
      BY <1>1, <3>1
  <2>2. CASE buf # <<>>
    BY <1>4, <2>2, EmptySeq
  <2>. QED
    BY <2>1, <2>2
<1>6. BufferOK(b) /\ Left(b) = Len(Unread(b)) /\ Left(b) \in Nat
  BY <1>1, <1>4, <1>5, BufferFacts
<1>7. arg[r] \in Nat
  BY DEF PipeInv, ArgOK
<1>8. n \in Nat /\ n <= arg[r] /\ n <= Left(b)
  BY <1>1, <1>6, <1>7, LeastFacts
<1>9. ArgOK'
  <2>1. arg[r] - n \in Nat
    BY <1>7, <1>8
  <2>2. PICK k \in Nat : arg' = [arg EXCEPT ![r] = k]
    BY <1>1, <2>1
  <2>3. /\ DOMAIN arg' = Goroutines
        /\ \A w \in Writers : arg'[w] \in Seq(Nat)
        /\ \A q \in Readers : arg'[q] \in Nat
    BY <2>2, Capacities DEF PipeInv, ArgOK
  <2>. QED
    BY <1>1, <1>2, <2>3, Capacities DEF PipeInv, ArgOK
<1>10. BufOK'
  <2>1. CASE n = Len(Unread(b))
    <3>1. n = Left(b) /\ buf' = Tail(buf) /\ bufLen' = bufLen - n
      BY <1>1, <1>6, <2>1
    <3>2. /\ Tail(buf) \in Seq(Buffers) /\ Len(Tail(buf)) = Len(buf) - 1
          /\ \A i \in 1 .. Len(buf) - 1 : Tail(buf)[i] = buf[i + 1]
      BY <1>4, <1>5, HeadTailProperties, EmptySeq
    <3>3. \A i \in 1 .. Len(buf) : Left(buf[i]) \in Int
      BY <1>4, BufferFacts
    <3>4. Sums(buf', bufLen')
      BY <1>1, <1>4, <1>5, <3>1, <3>3, SumsTail
    <3>5. ASSUME NEW i \in 1 .. Len(Tail(buf)) PROVE BufferOK(Tail(buf)[i])
      <4>1. i \in 1 .. Len(buf) - 1 /\ i + 1 \in 1 .. Len(buf)
        BY <1>4, <3>2
      <4>. QED
        BY <1>4, <3>2, <4>1
    <3>6. ASSUME Len(buf') > 0 PROVE bufLen' - Left(buf'[Len(buf')]) < Threshold
      <4>1. /\ Len(buf') \in 1 .. Len(buf) - 1 /\ Len(buf') + 1 = Len(buf)
            /\ Len(buf) \in 1 .. Len(buf)
        BY <1>4, <1>5, <3>1, <3>2, <3>6
      <4>2. buf'[Len(buf')] = buf[Len(buf)] /\ Left(buf[Len(buf)]) \in Int
        BY <3>1, <3>2, <3>3, <4>1
      <4>3. (bufLen - n) - Left(buf[Len(buf)]) < Threshold
        BY <1>4, <1>5, <1>8, <4>2, Capacities
      <4>. QED
        BY <3>1, <4>2, <4>3
    <3>7. bufLen' \in Int
      BY <1>4, <1>8, <3>1
    <3>. QED
      BY <3>1, <3>2, <3>4, <3>5, <3>6, <3>7 DEF BufOK
  <2>2. CASE n # Len(Unread(b))
    <3>1. PICK c : c = BufferRead(b, n) /\ BufferOK(c) /\ Left(c) = Left(b) - n
      BY <1>6, <1>8, ReadBuffer
    <3>2. PICK d \in Int : d = 0 - n
      BY <1>8
    <3>3. /\ Left(c) = Left(buf[1]) + d /\ d <= 0
          /\ buf' = [buf EXCEPT ![1] = c] /\ bufLen' = bufLen + d
          /\ 1 \in 1 .. Len(buf)
      <4>1. Left(b) \in Nat /\ n \in Nat /\ bufLen \in Int /\ Left(c) = Left(b) - n
        BY <1>4, <1>6, <1>8, <3>1
      <4>2. Left(c) = Left(b) + d /\ d <= 0 /\ bufLen - n = bufLen + d
        BY <3>2, <4>1
      <4>3. buf' = [buf EXCEPT ![1] = c] /\ bufLen' = bufLen - n /\ b = buf[1]
        BY <1>1, <2>2, <3>1
      <4>4. 1 \in 1 .. Len(buf)
        BY <1>4, <1>5
      <4>. QED
        BY <4>2, <4>3, <4>4
    <3>. QED
      BY <3>1, <3>3, Replaced DEF PipeInv
  <2>. QED
    BY <2>1, <2>2
<1>. QED
  BY <1>2, <1>3, <1>9, <1>10 DEF PipeInv

\* PipeInv is inductive.
LEMMA PipeInductive == PipeSpec => []PipeInv
<1>1. ASSUME PipeInv, [PipeNext]_pipeVars PROVE PipeInv'
  <2>1. CASE UNCHANGED pipeVars
    <3>1. UNCHANGED <<mu, at, arg, lastCap, buf, bufLen, closeErr, sent, ended>>
      BY <2>1 DEF pipeVars, pipe, history
    <3>2. PlaceOK' /\ ArgOK' /\ BufOK'
      BY <1>1, <3>1, ArgKept, BufKept DEF PipeInv, PlaceOK
    <3>3. FlagsOK'
      BY Zenon, <1>1, <3>1 DEF PipeInv, FlagsOK
    <3>. QED
      BY <3>2, <3>3 DEF PipeInv
  <2>2. ASSUME NEW w \in Writers, WriteStep(w) \/ \E size \in Sizes : CallWrite(w, size)
        PROVE  PipeInv'
    BY <1>1, <2>2, KeptByWriteClosed, KeptByWrite, KeptByGrow, KeptByWriterWaits,
       KeptByWriterResumes, KeptByCallWrite
    DEF WriteStep
  <2>3. ASSUME NEW r \in Readers, ReadStep(r) \/ \E size \in Sizes : CallRead(r, size)
        PROVE  PipeInv'
    BY <1>1, <2>3, KeptByReadEnds, KeptByReaderResumes, KeptByRead, KeptByReadReturns,
       KeptByCallRead
    DEF ReadStep
  <2>. QED
    BY <1>1, <2>1, <2>2, <2>3, KeptByCloseWithError DEF PipeNext
<1>. QED
  BY <1>1, InitPipe, PTL DEF PipeSpec

-----------------------------------------------------------------------------
(* Theorems.                                                                  *)

\* Type correctness of the pipe and of its buffers (bytespipe.go:50-164, buffer.go).
THEOREM PipeTypeCorrect == PipeSpec => []PipeTypeOK
<1>1. PipeInv => PipeTypeOK
  <2>. SUFFICES ASSUME PipeInv PROVE PipeTypeOK
    OBVIOUS
  <2>1. closeErr \in BOOLEAN /\ ended \in BOOLEAN
    BY Zenon DEF PipeInv, FlagsOK
  <2>2. /\ at \in [Goroutines -> Places] /\ mu \in Goroutines \cup {NoOne}
        /\ \A g \in Goroutines : at[g] \in {"write", "full", "read"} <=> mu = g
    BY DEF PipeInv, PlaceOK, Inside
  <2>3. \A i \in DOMAIN buf : buf[i].read <= Len(buf[i].bytes) /\ Len(buf[i].bytes) <= buf[i].cap
    <3>1. DOMAIN buf = 1 .. Len(buf) /\ \A i \in 1 .. Len(buf) : BufferOK(buf[i])
      BY LenProperties DEF PipeInv, BufOK
    <3>. QED
      BY <3>1 DEF BufferOK
  <2>. QED
    BY <2>1, <2>2, <2>3 DEF PipeInv, ArgOK, BufOK, PipeTypeOK
<1>. QED
  BY <1>1, PipeInductive, PTL

\* Whoever writes, and however many wait, the pipe holds less than its limit and
\* one buffer (bytespipe.go:88-100).
THEOREM PipeIsBounded == PipeSpec => []Bounded
<1>1. ASSUME PipeInv PROVE Bounded
  <2>1. /\ \A i \in 1 .. Len(buf) : BufferOK(buf[i])
        /\ bufLen \in Int /\ Sums(buf, bufLen) /\ Len(buf) \in Nat
        /\ Len(buf) > 0 => bufLen - Left(buf[Len(buf)]) < Threshold
    BY <1>1, LenProperties DEF PipeInv, BufOK
  <2>2. CASE Len(buf) > 0
    <3>1. Len(buf) \in 1 .. Len(buf)
      BY <2>1, <2>2
    <3>2. Left(buf[Len(buf)]) \in Nat /\ Left(buf[Len(buf)]) <= MaxCap
      BY <2>1, <3>1, BufferFacts
    <3>3. bufLen - Left(buf[Len(buf)]) < Threshold
      BY <2>1, <2>2
    <3>. QED
      BY <2>1, <3>2, <3>3, Capacities DEF Bounded
  <2>3. CASE ~(Len(buf) > 0)
    <3>1. buf = <<>>
      BY <1>1, <2>1, <2>3, EmptySeq DEF PipeInv, BufOK
    <3>2. bufLen = 0
      BY <2>1, <3>1, SumsOfNone
    <3>. QED
      BY <3>2, Capacities DEF Bounded
  <2>. QED
    BY <2>2, <2>3
<1>2. PipeInv => Bounded
  BY <1>1
<1>. QED
  BY <1>2, PipeInductive, PTL

\* Nobody sleeps on a closed pipe: whoever is about to sleep has the mutex and
\* has seen it open, and the close wakes all (bytespipe.go:88-92, 108-118, 129-139).
THEOREM NobodySleepsAfterClose == PipeSpec => []NoSleepAfterClose
<1>1. PipeInv => NoSleepAfterClose
  BY DEF PipeInv, PlaceOK, Asleep, NoSleepAfterClose
<1>. QED
  BY <1>1, PipeInductive, PTL

-----------------------------------------------------------------------------
(* The pipe is a stream.                                                      *)

LEMMA ContentFacts ==
    ASSUME PipeInv
    PROVE  /\ BufsOK(buf) /\ Sums(buf, bufLen) /\ Joins(buf, Content)
           /\ Content \in Seq(Nat) /\ Len(Content) = bufLen
<1>1. BufsOK(buf) /\ Sums(buf, bufLen)
  BY DEF PipeInv, BufOK, BufsOK
<1>2. Joins(buf, Content)
  BY <1>1, JoinsContents DEF Content, Contents
<1>. QED
  BY <1>1, <1>2, JoinsLen

\* bufLen, by which writers and readers decide to wait, is the number of bytes
\* that the buffers hold (bytespipe.go:69, 75, 149).
THEOREM BufLenIsExact == PipeSpec => []BufLenExact
<1>1. PipeInv => BufLenExact
  BY ContentFacts DEF BufLenExact
<1>. QED
  BY <1>1, PipeInductive, PTL

\* A Write that is over has put in everything, or met a closed pipe.
AllWritten == \A w \in Writers : at[w] = "idle" /\ ~closeErr => arg[w] = <<>>

StreamInv == PipeInv /\ got \in Seq(Nat) /\ AllWritten

\* A Write puts the first of its bytes that are left behind the rest, and leaves
\* the others.
LEMMA WriteAppends ==
    ASSUME PipeInv, PipeInv', NEW w \in Writers, Write(w)
    PROVE  \E p \in Seq(Nat), n \in Nat :
              /\ p = arg[w] /\ n <= Len(p)
              /\ Content' = Content \o SubSeq(p, 1, n)
              /\ arg' = [arg EXCEPT ![w] = SubSeq(p, n + 1, Len(p))]
              /\ IF n = Len(p) THEN BroadcastReturn(w) ELSE Go(w, "full")
<1>1. PICK bufs, b, p, n : Writing(w, bufs, b, p, n)
  BY Zenon, WriteFacts
<1>a. /\ p = arg[w] /\ n <= Len(p) /\ p \in Seq(Nat) /\ n \in Nat
      /\ arg' = [arg EXCEPT ![w] = SubSeq(p, n + 1, Len(p))]
      /\ IF n = Len(p) THEN BroadcastReturn(w) ELSE Go(w, "full")
  BY Zenon, <1>1 DEF Writing
<1>2. /\ bufs = IF buf = <<>> THEN <<getBuffer(MinCap)>> ELSE buf
      /\ BufsOK(bufs) /\ Len(bufs) > 0 /\ b = bufs[Len(bufs)]
      /\ BufferOK(b) /\ p \in Seq(Nat) /\ n \in Nat /\ n <= Len(p) /\ n <= Room(b)
      /\ buf' = [bufs EXCEPT ![Len(bufs)] = BufferWrite(b, p, n)]
  BY <1>1 DEF Writing
<1>3. Joins(bufs, Content) /\ Content \in Seq(Nat)
  <2>1. CASE buf = <<>>
    <3>1. PICK new : new = getBuffer(MinCap) /\ BufferOK(new) /\ Unread(new) = <<>>
      BY NewBuffer, NewUnread, Capacities
    <3>2. bufs = Append(buf, new)
      BY <1>2, <2>1, <3>1
    <3>3. Joins(bufs, Content \o <<>>)
      BY Zenon, <3>1, <3>2, ContentFacts, JoinsAppend
    <3>. QED
      BY Zenon, <3>3, ContentFacts, ConcatBytes
  <2>2. CASE buf # <<>>
    BY Zenon, <1>2, <2>2, ContentFacts
  <2>. QED
    BY <2>1, <2>2
<1>4. PICK c, part :
         /\ c = BufferWrite(b, p, n) /\ BufferOK(c) /\ part = SubSeq(p, 1, n)
         /\ part \in Seq(Nat) /\ Unread(c) = Unread(b) \o part
  <2>1. BufferOK(BufferWrite(b, p, n))
    BY <1>2, WrittenBuffer
  <2>2. /\ SubSeq(p, 1, n) \in Seq(Nat)
        /\ Unread(BufferWrite(b, p, n)) = Unread(b) \o SubSeq(p, 1, n)
    BY Zenon, <1>2, WrittenUnread
  <2>. QED
    BY Zenon, <2>1, <2>2
<1>5. Joins(buf', Content \o part)
  <2>1. Joins([bufs EXCEPT ![Len(bufs)] = c], Content \o part)
    BY Zenon, <1>2, <1>3, <1>4, JoinsLast
  <2>. QED
    BY Zenon, <1>2, <1>4, <2>1
<1>6. Joins(buf', Content') /\ Len(buf') \in Nat
  <2>1. BufsOK(buf')
    BY DEF PipeInv, BufOK, BufsOK
  <2>2. Joins(buf', Contents(buf'))
    BY Zenon, <2>1, JoinsContents
  <2>3. Content' = Contents(buf')
    BY DEF Content, Contents
  <2>. QED
    BY <2>1, <2>2, <2>3, LenProperties DEF BufsOK
<1>7. PICK new, q : new = buf' /\ q = Content' /\ Joins(new, Content \o part) /\ Joins(new, q)
                    /\ Len(new) \in Nat
  BY Zenon, <1>5, <1>6
<1>8. q = Content \o part
  BY Zenon, <1>7, JoinsSame
<1>9. Content' = Content \o SubSeq(p, 1, n)
  BY Zenon, <1>4, <1>7, <1>8
<1>. QED
  BY Zenon, <1>a, <1>9

\* A Read takes its bytes from the front of the content.
LEMMA ReadTakes ==
    ASSUME PipeInv, PipeInv', NEW r \in Readers, Read(r)
    PROVE  \E part \in Seq(Nat) : got' = got \o part /\ Content = part \o Content'
<1> DEFINE First == buf[1]
           Gets == Least(arg[r], Len(Unread(First)))
<1>0. /\ bufLen > 0
      /\ got' = got \o SubSeq(Unread(First), 1, Gets)
      /\ buf' = IF Gets = Len(Unread(First)) THEN Tail(buf)
                ELSE [buf EXCEPT ![1] = BufferRead(@, Gets)]
  BY DEF Read
<1>a. PICK b : b = First
  OBVIOUS
<1>b. PICK n : n = Least(arg[r], Len(Unread(b)))
  OBVIOUS
<1>1. /\ b = buf[1] /\ n = Least(arg[r], Len(Unread(b)))
      /\ got' = got \o SubSeq(Unread(b), 1, n)
      /\ buf' = IF n = Len(Unread(b)) THEN Tail(buf) ELSE [buf EXCEPT ![1] = BufferRead(b, n)]
  BY <1>0, <1>a, <1>b
<1> HIDE DEF First, Gets
<1>2. BufsOK(buf) /\ Len(buf) \in Nat /\ Sums(buf, bufLen)
  BY ContentFacts, LenProperties DEF BufsOK
<1>3. Len(buf) > 0 /\ buf # <<>>
  <2>1. buf # <<>>
    BY <1>0, <1>2, SumsOfNone
  <2>. QED
    BY <1>2, <2>1, EmptySeq DEF BufsOK
<1>4. BufferOK(b) /\ Left(b) = Len(Unread(b)) /\ Left(b) \in Nat /\ arg[r] \in Nat
  BY <1>1, <1>2, <1>3, BufferFacts DEF BufsOK, PipeInv, ArgOK
<1>5. n \in Nat /\ n <= Left(b)
  BY <1>1, <1>4, LeastFacts
<1>6. PICK part, c : /\ part = SubSeq(Unread(b), 1, n) /\ part \in Seq(Nat) /\ Len(part) = n
                     /\ c = BufferRead(b, n) /\ BufferOK(c) /\ Unread(b) = part \o Unread(c)
  <2>1. BufferOK(BufferRead(b, n))
    BY <1>4, <1>5, ReadBuffer
  <2>2. /\ SubSeq(Unread(b), 1, n) \in Seq(Nat) /\ Len(SubSeq(Unread(b), 1, n)) = n
        /\ Unread(b) = SubSeq(Unread(b), 1, n) \o Unread(BufferRead(b, n))
    BY Zenon, <1>4, <1>5, ReadUnread
  <2>. QED
    BY Zenon, <2>1, <2>2
<1>7. PICK rest : /\ rest = Tail(buf) /\ BufsOK(rest) /\ Len(rest) = Len(buf) - 1
                  /\ \A i \in 1 .. Len(rest) : rest[i] = buf[i + 1]
  <2>1. /\ Tail(buf) \in Seq(Buffers) /\ Len(Tail(buf)) = Len(buf) - 1
        /\ \A i \in 1 .. Len(buf) - 1 : Tail(buf)[i] = buf[i + 1]
    BY <1>2, <1>3, HeadTailProperties DEF BufsOK
  <2>2. ASSUME NEW i \in 1 .. Len(Tail(buf)) PROVE BufferOK(Tail(buf)[i])
    <3>1. i \in 1 .. Len(buf) - 1 /\ i + 1 \in 1 .. Len(buf)
      BY <1>2, <2>1
    <3>. QED
      BY <1>2, <2>1, <3>1 DEF BufsOK
  <2>. QED
    BY <2>1, <2>2 DEF BufsOK
<1>8. PICK q : q = Contents(rest) /\ Joins(rest, q) /\ q \in Seq(Nat)
  <2>1. Joins(rest, Contents(rest))
    BY Zenon, <1>7, JoinsContents
  <2>2. Contents(rest) \in Seq(Nat)
    BY <1>7, <2>1, LenProperties DEF Joins, BufsOK
  <2>. QED
    BY <2>1, <2>2
<1>9. Content = Unread(b) \o q
  BY Zenon, <1>1, <1>2, <1>3, <1>7, <1>8, ContentFacts, JoinsFirst
<1>10. Unread(c) \in Seq(Nat) /\ Len(Unread(c)) = Left(c)
  BY <1>6, UnreadType
<1>11. Content = part \o (Unread(c) \o q)
  <2>1. (part \o Unread(c)) \o q = part \o (Unread(c) \o q)
    BY Zenon, <1>6, <1>8, <1>10, ConcatBytes
  <2>. QED
    BY Zenon, <1>6, <1>9, <2>1
<1>12. BufsOK(buf') /\ Content' = Contents(buf')
  BY DEF PipeInv, BufOK, BufsOK, Content, Contents
<1>13. Content' = Unread(c) \o q
  <2>1. CASE n = Len(Unread(b))
    <3>1. buf' = rest
      BY Zenon, <1>1, <1>7, <2>1
    <3>2. Content' = q
      <4>1. Content' = FlattenSeq([i \in DOMAIN rest |-> Unread(rest[i])])
        BY <3>1 DEF Content
      <4>. QED
        BY Zenon, <1>8, <4>1 DEF Contents
    <3>3. Left(c) = 0
      <4>1. Left(c) = Left(b) - n
        BY Zenon, <1>4, <1>5, <1>6, ReadBuffer
      <4>. QED
        BY <1>4, <2>1, <4>1
    <3>4. Unread(c) = <<>>
      BY <1>10, <3>3, EmptySeq
    <3>. QED
      BY Zenon, <1>8, <3>2, <3>4, ConcatBytes
  <2>2. CASE n # Len(Unread(b))
    <3>1. PICK bufs : bufs = buf' /\ bufs = [buf EXCEPT ![1] = c]
      BY Zenon, <1>1, <1>6, <2>2
    <3>2. /\ Len(bufs) = Len(buf) /\ bufs[1] = c
          /\ \A i \in 1 .. Len(rest) : rest[i] = bufs[i + 1]
      <4>1. /\ Len(bufs) = Len(buf)
            /\ \A i \in 1 .. Len(buf) : bufs[i] = IF i = 1 THEN c ELSE buf[i]
        <5>1. c \in Buffers /\ 1 \in 1 .. Len(buf) /\ buf \in Seq(Buffers)
          BY <1>2, <1>3, <1>6 DEF BufferOK, BufsOK
        <5>. QED
          BY <3>1, <5>1, ExceptSeq
      <4>. QED
        BY <1>2, <1>3, <1>7, <4>1
    <3>3. BufsOK(bufs) /\ Joins(bufs, Content')
      BY Zenon, <1>12, <3>1, JoinsContents
    <3>4. Content' = Unread(bufs[1]) \o q
      <4>1. Len(bufs) > 0 /\ Len(rest) = Len(bufs) - 1
        BY <1>3, <1>7, <3>2
      <4>. QED
        BY Zenon, <1>8, <3>2, <3>3, <4>1, JoinsFirst
    <3>. QED
      BY <3>2, <3>4
  <2>. QED
    BY <2>1, <2>2
<1>. QED
  BY Zenon, <1>1, <1>6, <1>11, <1>13

\* What is appended leaves what was there at the front.
LEMMA FrontOfConcat ==
    ASSUME NEW x \in Seq(Nat), NEW y \in Seq(Nat)
    PROVE  SubSeq(x \o y, 1, Len(x)) = x
<1>1. PICK s : s = x \o y
  OBVIOUS
<1>2. /\ s \in Seq(Nat) /\ Len(s) = Len(x) + Len(y) /\ Len(x) \in Nat /\ Len(y) \in Nat
      /\ \A i \in 1 .. Len(x) : s[i] = x[i]
  BY <1>1, ConcatProperties, LenProperties
<1>3. PICK k : k = Len(x) /\ k \in Nat /\ k <= Len(s)
  BY <1>2
<1>4. PICK front, back \in Seq(Nat) :
         front = SubSeq(s, 1, k) /\ Len(front) = k /\ s = front \o back
  BY Zenon, <1>2, <1>3, Halves
<1>5. \A i \in 1 .. k : front[i] = s[i]
  BY <1>3, <1>4, ConcatProperties
<1>6. \A i \in 1 .. k : front[i] = x[i]
  BY <1>2, <1>3, <1>5
<1>7. front = x
  BY <1>3, <1>4, <1>6, SeqEqual
<1>. QED
  BY Zenon, <1>1, <1>3, <1>4, <1>7

\* What the writers have left, while a step leaves it to them, and when one of
\* them has other bytes.
LEMMA UnwrittenKept ==
    ASSUME \A w \in Writers : arg'[w] = arg[w] PROVE Unwritten' = Unwritten
BY DEF Unwritten

LEMMA UnwrittenOf ==
    ASSUME NEW w \in Writers, NEW p, DOMAIN arg = Goroutines, arg' = [arg EXCEPT ![w] = p]
    PROVE  /\ Unwritten' = [Unwritten EXCEPT ![w] = p]
           /\ Unwritten'[w] = p /\ Unwritten[w] = arg[w]
BY Capacities DEF Unwritten

\* The two parts of a Write's bytes, when they are not all or nothing.
LEMMA NothingPut ==
    ASSUME NEW p \in Seq(Nat)
    PROVE  SubSeq(p, 1, 0) = <<>> /\ SubSeq(p, 0 + 1, Len(p)) = p
<1>1. Len(p) \in Nat /\ p = [i \in 1 .. Len(p) |-> p[i]]
  BY SeqDef, LenProperties
<1>2. SubSeq(p, 1, Len(p)) = p
  BY <1>1
<1>. QED
  BY <1>1, <1>2

LEMMA AllPut ==
    ASSUME NEW p \in Seq(Nat) PROVE SubSeq(p, Len(p) + 1, Len(p)) = <<>>
BY LenProperties

\* What is put in is put in the open pipe.
LEMMA Puts ==
    ASSUME StreamInv, PipeInv', NEW w \in Writers, Write(w)
    PROVE  [AsStream!Next]_(AsStream!vars) /\ got' \in Seq(Nat)
<1>1. PICK p \in Seq(Nat), n \in Nat :
         /\ p = arg[w] /\ n <= Len(p)
         /\ Content' = Content \o SubSeq(p, 1, n)
         /\ arg' = [arg EXCEPT ![w] = SubSeq(p, n + 1, Len(p))]
  BY Zenon, WriteAppends DEF StreamInv
<1>2. ~closeErr /\ UNCHANGED <<got, closeErr, ended>>
  BY DEF Write, history
<1>3. Content \in Seq(Nat)
  BY ContentFacts DEF StreamInv
<1>4. /\ Unwritten' = [Unwritten EXCEPT ![w] = SubSeq(p, n + 1, Len(p))]
      /\ Unwritten[w] = p
  <2>1. DOMAIN arg = Goroutines
    BY DEF StreamInv, PipeInv, ArgOK
  <2>. QED
    BY Zenon, <1>1, <2>1, UnwrittenOf
<1>5. CASE n = 0
  <2>1. SubSeq(p, 1, n) = <<>> /\ SubSeq(p, n + 1, Len(p)) = p
    BY Zenon, <1>5, NothingPut
  <2>2. Content' = Content
    BY Zenon, <1>1, <1>3, <2>1, ConcatBytes
  <2>3. Unwritten' = Unwritten
    <3>1. Unwritten' = [Unwritten EXCEPT ![w] = Unwritten[w]]
      BY Zenon, <1>4, <2>1
    <3>. QED
      BY <3>1 DEF Unwritten
  <2>. QED
    BY <1>2, <2>2, <2>3 DEF AsStream!vars, StreamInv
<1>6. CASE n # 0
  <2>1. n \in 1 .. Len(Unwritten[w])
    BY <1>1, <1>4, <1>6, LenProperties
  <2>2. Unwritten' = [Unwritten EXCEPT ![w] = SubSeq(@, n + 1, Len(@))]
    BY Zenon, <1>4
  <2>3. Content' = Content \o SubSeq(Unwritten[w], 1, n)
    BY Zenon, <1>1, <1>4
  <2>4. AsStream!Put(w)
    BY Zenon, <1>2, <2>1, <2>2, <2>3 DEF AsStream!Put
  <2>. QED
    BY <1>2, <2>4 DEF AsStream!Next, StreamInv
<1>. QED
  BY <1>5, <1>6

\* A new Write has bytes, and its writer none left.
LEMMA Offers ==
    ASSUME StreamInv, NEW w \in Writers, NEW size \in Sizes, CallWrite(w, size)
    PROVE  [AsStream!Next]_(AsStream!vars) /\ got' = got
<1>1. /\ at[w] = "idle" /\ UNCHANGED <<buf, closeErr, got, ended>>
      /\ arg' = [arg EXCEPT ![w] = [i \in 1 .. size |-> sent + i]]
  BY DEF CallWrite, pipe
<1>2. PICK p : p = [i \in 1 .. size |-> sent + i]
  OBVIOUS
<1>3. p # <<>>
  <2>1. size \in Nat /\ size # 0
    BY BytesPipeAssumption
  <2>2. DOMAIN p = 1 .. size
    BY <1>2
  <2>. QED
    BY <2>1, <2>2
<1>4. /\ Unwritten' = [Unwritten EXCEPT ![w] = p]
      /\ Unwritten'[w] = p /\ Unwritten[w] = arg[w]
  <2>1. DOMAIN arg = Goroutines
    BY DEF StreamInv, PipeInv, ArgOK
  <2>. QED
    BY Zenon, <1>1, <1>2, <2>1, UnwrittenOf
<1>5. Unwritten[w] = <<>> \/ closeErr
  BY <1>1, <1>4 DEF StreamInv, AllWritten
<1>6. Unwritten' = [Unwritten EXCEPT ![w] = Unwritten'[w]] /\ Unwritten'[w] # <<>>
  BY Zenon, <1>3, <1>4
<1>7. Content' = Content
  BY <1>1 DEF Content
<1>8. AsStream!Offer(w)
  BY Zenon, <1>1, <1>5, <1>6, <1>7 DEF AsStream!Offer
<1>. QED
  BY <1>1, <1>8 DEF AsStream!Next

\* What is read was at the front.
LEMMA Takes ==
    ASSUME StreamInv, PipeInv', NEW r \in Readers, Read(r)
    PROVE  [AsStream!Next]_(AsStream!vars) /\ got' \in Seq(Nat)
<1>1. PICK part \in Seq(Nat) : got' = got \o part /\ Content = part \o Content'
  BY ReadTakes DEF StreamInv
<1>2. UNCHANGED <<closeErr, ended>> /\ Unwritten' = Unwritten
  <2>1. \A w \in Writers : arg'[w] = arg[w]
    BY Capacities DEF Read, StreamInv, PipeInv, ArgOK
  <2>. QED
    BY <2>1, UnwrittenKept DEF Read
<1>3. PICK x, y : x = Content /\ y = Content' /\ x = part \o y /\ x \in Seq(Nat) /\ y \in Seq(Nat)
  <2>1. BufsOK(buf') /\ Content' = Contents(buf')
    BY DEF PipeInv, BufOK, BufsOK, Content, Contents
  <2>2. Joins(buf', Contents(buf')) /\ Sums(buf', bufLen')
    BY Zenon, <2>1, JoinsContents DEF PipeInv, BufOK
  <2>3. Content' \in Seq(Nat)
    BY Zenon, <2>1, <2>2, JoinsLen
  <2>. QED
    BY Zenon, <1>1, <2>3, ContentFacts DEF StreamInv
<1>4. PICK old, new : old = got /\ new = got' /\ new = old \o part
                      /\ old \in Seq(Nat) /\ new \in Seq(Nat)
  BY Zenon, <1>1, ConcatBytes DEF StreamInv
<1>5. CASE part = <<>>
  <2>1. Content' = Content /\ got' = got
    BY Zenon, <1>3, <1>4, <1>5, ConcatBytes
  <2>. QED
    BY <1>2, <1>4, <2>1 DEF AsStream!vars
<1>6. CASE part # <<>>
  <2>1. Len(y) < Len(x)
    <3>1. Len(x) = Len(part) + Len(y) /\ Len(y) \in Nat /\ Len(part) \in Nat
      BY Zenon, <1>1, <1>3, ConcatBytes
    <3>2. Len(part) # 0
      BY <1>6, EmptySeq
    <3>. QED
      BY <3>1, <3>2
  <2>2. new \o y = old \o x
    <3>1. (old \o part) \o y = old \o (part \o y)
      BY Zenon, <1>1, <1>3, <1>4, ConcatBytes
    <3>. QED
      BY Zenon, <1>3, <1>4, <3>1
  <2>3. AsStream!Take
    BY Zenon, <1>2, <1>3, <1>4, <2>1, <2>2 DEF AsStream!Take
  <2>. QED
    BY <1>4, <2>3 DEF AsStream!Next
<1>. QED
  BY <1>5, <1>6

\* A buffer that is added holds nothing yet.
LEMMA Grows ==
    ASSUME StreamInv, PipeInv', NEW w \in Writers, Grow(w)
    PROVE  UNCHANGED AsStream!vars /\ got' \in Seq(Nat)
<1>1. /\ UNCHANGED <<got, closeErr, ended>> /\ at[w] = "full" /\ Unwritten' = Unwritten
      /\ buf' = Append(buf, getBuffer(Least(2 * lastCap[w], MaxCap)))
  BY UnwrittenKept DEF Grow, Has, history
<1>2. Least(2 * lastCap[w], MaxCap) \in 1 .. MaxCap
  <2>1. lastCap[w] \in Nat /\ lastCap[w] > 0
    BY <1>1 DEF StreamInv, PipeInv, ArgOK
  <2>. QED
    BY <2>1, Capacities DEF Least
<1>3. PICK b : /\ b = getBuffer(Least(2 * lastCap[w], MaxCap))
               /\ BufferOK(b) /\ Unread(b) = <<>>
  BY <1>2, NewBuffer, NewUnread
<1>4. /\ BufsOK(buf) /\ Joins(buf, Content) /\ Content \in Seq(Nat)
  BY ContentFacts DEF StreamInv
<1>5. Joins(Append(buf, b), Content \o <<>>) /\ Content \o <<>> = Content
  BY Zenon, <1>3, <1>4, JoinsAppend, ConcatBytes
<1>6. PICK bufs, q : /\ bufs = Append(buf, b) /\ q = Content'
                     /\ Joins(bufs, Content) /\ BufsOK(bufs) /\ Joins(bufs, q)
  <2>1. BufsOK(buf') /\ Content' = Contents(buf')
    BY DEF PipeInv, BufOK, BufsOK, Content, Contents
  <2>2. Joins(buf', Content')
    BY Zenon, <2>1, JoinsContents
  <2>. QED
    BY Zenon, <1>1, <1>3, <1>5, <2>1, <2>2
<1>7. q = Content
  <2>1. Len(bufs) \in Nat
    BY <1>6, LenProperties DEF BufsOK
  <2>. QED
    BY Zenon, <1>6, <2>1, JoinsSame
<1>. QED
  BY Zenon, <1>1, <1>6, <1>7 DEF AsStream!vars, StreamInv

\* A reader is only told of the end when all was read.
LEMMA Ends ==
    ASSUME StreamInv, NEW r \in Readers, ReadEnds(r)
    PROVE  AsStream!End /\ got' = got
<1>1. /\ bufLen = 0 /\ closeErr /\ ended' = TRUE
      /\ UNCHANGED <<buf, closeErr, got>> /\ Unwritten' = Unwritten
  BY UnwrittenKept DEF ReadEnds, pipe
<1>2. Content = <<>>
  <2>1. Content \in Seq(Nat) /\ Len(Content) = 0
    BY <1>1, ContentFacts DEF StreamInv
  <2>. QED
    BY <2>1, EmptySeq
<1>3. Content' = Content
  BY <1>1 DEF Content
<1>. QED
  BY Zenon, <1>1, <1>2, <1>3 DEF AsStream!End

LEMMA Closes ==
    ASSUME CloseWithError PROVE AsStream!Close /\ got' = got
<1>1. closeErr' = TRUE /\ UNCHANGED <<buf, got, ended>> /\ Unwritten' = Unwritten
  BY UnwrittenKept DEF CloseWithError, history
<1>2. Content' = Content
  BY <1>1 DEF Content
<1>. QED
  BY Zenon, <1>1, <1>2 DEF AsStream!Close

LEMMA SameStream ==
    ASSUME UNCHANGED <<buf, got, closeErr, ended>>, \A w \in Writers : arg'[w] = arg[w]
    PROVE  UNCHANGED AsStream!vars
BY UnwrittenKept DEF AsStream!vars, Content

\* Every step of a goroutine is one of the stream, or none.
LEMMA StreamStep ==
    ASSUME StreamInv, PipeInv', [PipeNext]_pipeVars
    PROVE  [AsStream!Next]_(AsStream!vars) /\ got' \in Seq(Nat)
<1>1. CASE UNCHANGED <<buf, got, closeErr, ended>> /\ \A w \in Writers : arg'[w] = arg[w]
  BY <1>1, SameStream DEF StreamInv
<1>2. CASE UNCHANGED pipeVars
  BY <1>1, <1>2 DEF pipeVars, pipe, history
<1>3. ASSUME NEW w \in Writers, WriteStep(w) \/ \E size \in Sizes : CallWrite(w, size)
      PROVE  [AsStream!Next]_(AsStream!vars) /\ got' \in Seq(Nat)
  <2>1. CASE Write(w)
    BY <2>1, Puts
  <2>2. CASE Grow(w)
    BY <2>2, Grows
  <2>3. CASE WriteClosed(w) \/ WriterWaits(w) \/ WriterResumes(w)
    BY <1>1, <2>3 DEF WriteClosed, WriterWaits, WriterResumes, pipe, history
  <2>4. CASE \E size \in Sizes : CallWrite(w, size)
    BY <2>4, Offers DEF StreamInv
  <2>. QED
    BY <1>3, <2>1, <2>2, <2>3, <2>4 DEF WriteStep
<1>4. ASSUME NEW r \in Readers, ReadStep(r) \/ \E size \in Sizes : CallRead(r, size)
      PROVE  [AsStream!Next]_(AsStream!vars) /\ got' \in Seq(Nat)
  <2>1. CASE Read(r)
    BY <2>1, Takes
  <2>2. CASE ReadEnds(r)
    BY <2>2, Ends DEF AsStream!Next, StreamInv
  <2>3. CASE ReaderResumes(r) \/ ReadReturns(r)
    BY <1>1, <2>3 DEF ReaderResumes, ReadReturns, pipe, history
  <2>4. CASE \E size \in Sizes : CallRead(r, size)
    <3>1. UNCHANGED <<buf, got, closeErr, ended>> /\ \A w \in Writers : arg'[w] = arg[w]
      BY <2>4, Capacities DEF CallRead, pipe, history, StreamInv, PipeInv, ArgOK
    <3>. QED
      BY <1>1, <3>1
  <2>. QED
    BY <1>4, <2>1, <2>2, <2>3, <2>4 DEF ReadStep
<1>5. CASE CloseWithError
  BY <1>5, Closes DEF AsStream!Next, StreamInv
<1>. QED
  BY <1>2, <1>3, <1>4, <1>5 DEF PipeNext

\* Whose Write is over stays as it is while nobody comes to rest.
LEMMA RestKeeps ==
    ASSUME AllWritten, closeErr' = closeErr,
           \A w \in Writers : at'[w] = "idle" => at[w] = "idle" /\ arg'[w] = arg[w]
    PROVE  AllWritten'
BY DEF AllWritten

\* A goroutine moves, perhaps waking others, and no other comes to rest.
LEMMA OthersRest ==
    ASSUME PlaceOK, NEW g \in Goroutines, NEW place,
           \/ Go(g, place)
           \/ at' = [Broadcast(at) EXCEPT ![g] = place]
    PROVE  /\ \A h \in Goroutines \ {g} : at'[h] = "idle" => at[h] = "idle"
           /\ at'[g] = place
<1>1. CASE Go(g, place)
  BY <1>1 DEF Go, PlaceOK
<1>2. CASE at' = [Broadcast(at) EXCEPT ![g] = place]
  <2>1. \A h \in Goroutines \ {g} : at'[h] = Broadcast(at)[h]
    BY <1>2, BroadcastWakes
  <2>2. at'[g] = place
    BY <1>2, BroadcastWakes
  <2>3. \A h \in Goroutines : Broadcast(at)[h] = "idle" => at[h] = "idle"
    BY BroadcastWakes DEF Asleep
  <2>. QED
    BY <2>1, <2>2, <2>3
<1>. QED
  BY <1>1, <1>2

\* A Write ends when all its bytes are in, or when the pipe is closed.
LEMMA WritesComplete ==
    ASSUME StreamInv, PipeInv', [PipeNext]_pipeVars PROVE AllWritten'
<1>0. AllWritten /\ PlaceOK /\ DOMAIN arg = Goroutines
  BY DEF StreamInv, PipeInv, ArgOK
<1>1. CASE UNCHANGED pipeVars
  BY <1>0, <1>1 DEF pipeVars, pipe, AllWritten
<1>2. ASSUME NEW w \in Writers, Write(w) PROVE AllWritten'
  <2>1. PICK p \in Seq(Nat), n \in Nat :
           /\ arg' = [arg EXCEPT ![w] = SubSeq(p, n + 1, Len(p))]
           /\ IF n = Len(p) THEN BroadcastReturn(w) ELSE Go(w, "full")
    BY Zenon, <1>2, WriteAppends DEF StreamInv
  <2>2. closeErr' = closeErr
    BY <1>2 DEF Write
  <2>3. \A v \in Writers \ {w} : arg'[v] = arg[v] /\ (at'[v] = "idle" => at[v] = "idle")
    BY <1>0, <2>1, OthersRest, Capacities DEF BroadcastReturn
  <2>4. at'[w] = "idle" => arg'[w] = <<>>
    <3>1. CASE n = Len(p)
      <4>1. SubSeq(p, n + 1, Len(p)) = <<>>
        BY Zenon, <3>1, AllPut
      <4>2. arg' = [arg EXCEPT ![w] = <<>>]
        BY Zenon, <2>1, <4>1
      <4>. QED
        BY <1>0, <4>2, Capacities
    <3>2. CASE n # Len(p)
      BY <1>0, <2>1, <3>2, OthersRest, Capacities
    <3>. QED
      BY <3>1, <3>2
  <2>. QED
    BY <1>0, <2>2, <2>3, <2>4 DEF AllWritten
<1>3. ASSUME NEW w \in Writers,
             Grow(w) \/ WriterWaits(w) \/ WriterResumes(w)
      PROVE  AllWritten'
  <2>1. PICK place : Go(w, place) /\ place # "idle" /\ UNCHANGED <<arg, closeErr>>
    BY <1>3 DEF Grow, WriterWaits, WriterResumes, pipe
  <2>2. \A v \in Writers : at'[v] = "idle" => at[v] = "idle" /\ arg'[v] = arg[v]
    BY <1>0, <2>1, OthersRest, Capacities
  <2>. QED
    BY <1>0, <2>1, <2>2, RestKeeps
<1>4. ASSUME NEW w \in Writers, WriteClosed(w) PROVE AllWritten'
  BY <1>4 DEF WriteClosed, pipe, AllWritten
<1>5. ASSUME NEW w \in Writers, NEW size \in Sizes, CallWrite(w, size) PROVE AllWritten'
  <2>1. Go(w, "write") /\ closeErr' = closeErr /\ \A v \in Writers \ {w} : arg'[v] = arg[v]
    BY <1>0, <1>5, Capacities DEF CallWrite, pipe
  <2>2. \A v \in Writers : at'[v] = "idle" => at[v] = "idle" /\ arg'[v] = arg[v]
    BY <1>0, <2>1, OthersRest, Capacities
  <2>. QED
    BY <1>0, <2>1, <2>2, RestKeeps
<1>6. ASSUME NEW r \in Readers, ReadStep(r) \/ \E size \in Sizes : CallRead(r, size)
      PROVE  AllWritten'
  <2>0. r \in Goroutines /\ \A v \in Writers : v \in Goroutines /\ v # r
    BY Capacities
  <2>1. closeErr' = closeErr /\ \A v \in Writers : arg'[v] = arg[v]
    <3>1. CASE \E size \in Sizes : CallRead(r, size)
      BY <1>0, <2>0, <3>1 DEF CallRead, pipe
    <3>2. CASE ReadStep(r)
      BY <1>0, <2>0, <3>2 DEF ReadStep, ReadEnds, ReaderResumes, Read, ReadReturns, pipe
    <3>. QED
      BY <1>6, <3>1, <3>2
  <2>2. \/ \E place : Go(r, place)
        \/ \E place : at' = [Broadcast(at) EXCEPT ![r] = place]
        \/ at' = at
    <3>1. CASE \E size \in Sizes : CallRead(r, size)
      BY <3>1 DEF CallRead
    <3>2. CASE ReadStep(r)
      BY <3>2 DEF ReadStep, ReadEnds, ReaderResumes, Read, ReadReturns, BroadcastReturn
    <3>. QED
      BY <1>6, <3>1, <3>2
  <2>3. \A v \in Writers : at'[v] = "idle" => at[v] = "idle"
    BY <1>0, <2>0, <2>2, OthersRest
  <2>. QED
    BY <1>0, <2>1, <2>3, RestKeeps
<1>7. CASE CloseWithError
  BY <1>7 DEF CloseWithError, AllWritten
<1>. QED
  BY <1>1, <1>2, <1>3, <1>4, <1>5, <1>6, <1>7 DEF PipeNext, WriteStep

\* The pipe implements the stream: with any number of goroutines that write,
\* wait and read, the bytes of a Write go in in their order and once, what is read
\* is what went in, in that order and once; nothing is accepted after
\* CloseWithError, and Read reports the end only when all was read
\* (bytespipe.go:50-164).
THEOREM PipeImplementsStream == PipeSpec => PipeIsStream
<1>1. PipeInit => AsStream!Init /\ StreamInv
  <2>. SUFFICES ASSUME PipeInit PROVE AsStream!Init /\ StreamInv
    OBVIOUS
  <2>1. \A w \in Writers : arg[w] = <<>>
    BY Capacities DEF PipeInit, PipeFrom
  <2>2. Unwritten = [w \in Writers |-> <<>>]
    BY <2>1 DEF Unwritten
  <2>3. StreamInv
    BY <2>1, InitPipe DEF PipeInit, PipeFrom, StreamInv, AllWritten
  <2>. QED
    BY <2>2, <2>3 DEF PipeInit, PipeFrom, AsStream!Init
<1>2. StreamInv /\ PipeInv' /\ [PipeNext]_pipeVars
      => StreamInv' /\ [AsStream!Next]_(AsStream!vars)
  BY StreamStep, WritesComplete DEF StreamInv
<1>. QED
  BY <1>1, <1>2, PipeInductive, PTL DEF PipeSpec, PipeIsStream, AsStream!Spec

=============================================================================
