---------------------------- MODULE ChannelProofs ---------------------------
(***************************************************************************)
(* Theorems of the specifications of five of the parts of MCChannels, each *)
(* for any values of its constants: PQueueChannel, which implements the    *)
(* stream of ByteStream and strands no thread, PSpoolDirectory,            *)
(* PIndirectChannel, PInterfaceMonitor and PMonitoredSocketBundle.         *)
(*                                                                         *)
(* For the refinement the invariant places the two positions in the ring;  *)
(* with it a Read takes a prefix of the contents and a Write adds to their *)
(* end, wherever the ring wraps.                                           *)
(***************************************************************************)
EXTENDS MCChannels, SequenceTheorems, FiniteSetTheorems, TLAPS

RingInv ==
  /\ open \in BOOLEAN
  /\ queueBuffer \in [Positions -> Nat] /\ queueLength \in 0 .. QueueSize
  /\ enqueuePos \in Positions /\ dequeuePos \in Positions
  /\ enqueuePos = Advance(dequeuePos, queueLength)
  /\ count \in [Readers \cup Writers -> Nat]
  /\ accepted \in Nat /\ got \in Seq(Nat)

LEMMA Sizes == QueueSize \in Nat /\ QueueSize > 0 /\ MaxCount \in Nat
BY SizesAssumption

\* Advance stays in the ring, and two advances are one.
LEMMA AdvanceInRing ==
  ASSUME NEW p \in Positions, NEW n \in 0 .. QueueSize
  PROVE  Advance(p, n) \in Positions
BY Sizes DEF Positions, Advance

LEMMA AdvanceTwice ==
  ASSUME NEW p \in Positions, NEW m \in Nat, NEW n \in Nat, m + n <= QueueSize
  PROVE  Advance(Advance(p, m), n) = Advance(p, m + n)
BY Sizes DEF Positions, Advance

\* What Contents is: as many bytes as there are queued.
ContentsInRing ==
  /\ Contents \in Seq(Nat) /\ Len(Contents) = queueLength
  /\ \A i \in 1 .. queueLength : Contents[i] = queueBuffer[Advance(dequeuePos, i - 1)]

LEMMA ContentsFacts == RingInv => ContentsInRing
<1> SUFFICES ASSUME RingInv PROVE ContentsInRing
  OBVIOUS
<1>1. queueLength \in Nat /\ queueLength <= QueueSize
  BY Sizes DEF RingInv
<1>2. ASSUME NEW i \in 1 .. queueLength PROVE queueBuffer[Advance(dequeuePos, i - 1)] \in Nat
  <2>1. Advance(dequeuePos, i - 1) \in Positions
    BY <1>1, Sizes, AdvanceInRing DEF RingInv
  <2>2. QED
    BY <2>1 DEF RingInv
<1>3. QED
  BY <1>1, <1>2 DEF Contents, ContentsInRing

\* A part of a sequence.
LEMMA PartFacts ==
  ASSUME NEW s \in Seq(Nat), NEW m \in 1 .. Len(s) + 1, NEW n \in m - 1 .. Len(s)
  PROVE  /\ SubSeq(s, m, n) \in Seq(Nat) /\ Len(SubSeq(s, m, n)) = n - m + 1
         /\ \A i \in 1 .. n - m + 1 : SubSeq(s, m, n)[i] = s[m + i - 1]
<1>1. Len(s) \in Nat /\ m \in Int /\ n \in Int /\ m >= 1 /\ n <= Len(s) /\ m <= n + 1
  OBVIOUS
<1>2. \A i \in m .. n : s[i] \in Nat
  BY <1>1, ElementOfSeq
<1>3. QED
  BY <1>1, <1>2, SubSeqProperties

\* A Read takes the first n bytes out.
LEMMA TakeOutIsPrefix ==
  ASSUME RingInv, NEW n \in 0 .. queueLength,
         dequeuePos' = Advance(dequeuePos, n), queueLength' = queueLength - n,
         got' = got \o SubSeq(Contents, 1, n),
         UNCHANGED <<open, queueBuffer, enqueuePos, accepted>>,
         count' \in [Readers \cup Writers -> Nat]
  PROVE  /\ RingInv'
         /\ Contents' = SubSeq(Contents, n + 1, Len(Contents))
<1>0. queueLength \in Nat /\ queueLength <= QueueSize /\ n \in Nat /\ n <= queueLength
  BY Sizes DEF RingInv
<1>1. ContentsInRing
  BY ContentsFacts
<1>2. SubSeq(Contents, 1, n) \in Seq(Nat)
  <2>1. Contents \in Seq(Nat) /\ 1 \in 1 .. Len(Contents) + 1 /\ n \in 1 - 1 .. Len(Contents)
    BY <1>0, <1>1 DEF ContentsInRing
  <2>2. QED
    BY <2>1, PartFacts
<1>3. dequeuePos' \in Positions /\ queueLength' \in 0 .. QueueSize
  <2>1. n \in 0 .. QueueSize /\ queueLength - n \in 0 .. QueueSize
    BY <1>0, Sizes
  <2>2. QED
    BY <2>1, AdvanceInRing DEF RingInv
<1>4. enqueuePos = Advance(dequeuePos', queueLength')
  BY <1>0, AdvanceTwice DEF RingInv
<1>5. got' \in Seq(Nat)
  BY <1>2, ConcatProperties DEF RingInv
<1>6. RingInv'
  BY <1>3, <1>4, <1>5 DEF RingInv, Advance, Positions
<1>7. ContentsInRing'
  BY <1>6, ContentsFacts, PTL
<1> DEFINE rest == SubSeq(Contents, n + 1, Len(Contents))
<1>8. /\ rest \in Seq(Nat) /\ Len(rest) = queueLength - n
      /\ \A i \in 1 .. queueLength - n : rest[i] = Contents[n + i]
  <2>1. Contents \in Seq(Nat) /\ Len(Contents) = queueLength
    BY <1>1 DEF ContentsInRing
  <2>2. /\ n + 1 \in 1 .. Len(Contents) + 1 /\ Len(Contents) \in (n + 1) - 1 .. Len(Contents)
        /\ Len(Contents) - (n + 1) + 1 = queueLength - n
    BY <1>0, <2>1
  <2>3. /\ rest \in Seq(Nat) /\ Len(rest) = queueLength - n
        /\ \A i \in 1 .. queueLength - n : rest[i] = Contents[n + 1 + i - 1]
    BY <2>1, <2>2, PartFacts
  <2>4. \A i \in 1 .. queueLength - n : n + 1 + i - 1 = n + i
    BY <1>0
  <2>5. QED
    BY <2>3, <2>4
<1>9. ASSUME NEW i \in 1 .. queueLength - n PROVE Contents'[i] = rest[i]
  <2>1. Contents'[i] = queueBuffer[Advance(dequeuePos', i - 1)]
    BY <1>7, <1>0 DEF ContentsInRing, Advance
  <2>2. n + i \in 1 .. queueLength /\ n + (i - 1) = (n + i) - 1
        /\ i - 1 \in Nat /\ n + (i - 1) <= QueueSize
    BY <1>0, Sizes
  <2>3. rest[i] = queueBuffer[Advance(dequeuePos, (n + i) - 1)]
    BY <1>1, <1>8, <2>2 DEF ContentsInRing
  <2>4. Advance(dequeuePos', i - 1) = Advance(dequeuePos, n + (i - 1))
    BY <1>0, <2>2, AdvanceTwice DEF RingInv
  <2>5. QED
    BY <2>1, <2>2, <2>3, <2>4
<1>10. QED
  BY <1>0, <1>6, <1>7, <1>8, <1>9, SeqEqual DEF ContentsInRing

\* What n accepted bytes are, and where PutIn puts them.
NewBytes(n) == [i \in 1 .. n |-> accepted + i]

LEMMA ConcatFacts ==
  ASSUME NEW s \in Seq(Nat), NEW t \in Seq(Nat)
  PROVE  /\ s \o t \in Seq(Nat) /\ Len(s \o t) = Len(s) + Len(t)
         /\ \A i \in 1 .. Len(s) + Len(t) :
              (s \o t)[i] = IF i <= Len(s) THEN s[i] ELSE t[i - Len(s)]
BY ConcatProperties

\* A Write adds n bytes to the end.
LEMMA PutInAppends ==
  ASSUME RingInv, NEW n \in 1 .. QueueSize, queueLength + n <= QueueSize, PutIn(n),
         UNCHANGED <<open, dequeuePos, got>>,
         count' \in [Readers \cup Writers -> Nat]
  PROVE  /\ RingInv'
         /\ Contents' = Contents \o NewBytes(n)
<1>0. /\ queueLength \in Nat /\ queueLength <= QueueSize /\ n \in Nat /\ accepted \in Nat
      /\ dequeuePos \in Nat /\ dequeuePos < QueueSize /\ QueueSize \in Nat
      /\ enqueuePos \in Nat /\ enqueuePos < QueueSize
  BY Sizes DEF RingInv, Positions
<1> DEFINE Ahead(i) == IF i >= enqueuePos THEN i - enqueuePos ELSE i + QueueSize - enqueuePos
<1>1. /\ \A i \in Positions : queueBuffer'[i] = IF Ahead(i) < n THEN accepted + 1 + Ahead(i)
                                                ELSE queueBuffer[i]
      /\ DOMAIN queueBuffer' = Positions
      /\ enqueuePos' = Advance(enqueuePos, n)
      /\ queueLength' = queueLength + n /\ accepted' = accepted + n
  BY DEF PutIn
<1>2. queueBuffer' \in [Positions -> Nat]
  <2>1. \A i \in Positions : Ahead(i) \in Int /\ Ahead(i) >= 0
    BY <1>0 DEF Positions
  <2>2. ASSUME NEW i \in Positions PROVE queueBuffer'[i] \in Nat
    <3>0. queueBuffer[i] \in Nat /\ Ahead(i) \in Nat
      BY <2>1 DEF RingInv
    <3> HIDE DEF Ahead
    <3>1. queueBuffer[i] \in Nat /\ accepted + 1 + Ahead(i) \in Nat
      BY <1>0, <3>0
    <3>2. QED
      BY <1>1, <3>1
  <2>3. queueBuffer' = [i \in Positions |-> queueBuffer'[i]]
    BY DEF PutIn
  <2>4. QED
    BY <2>2, <2>3
<1>3. enqueuePos' \in Positions /\ enqueuePos' = Advance(dequeuePos, queueLength')
  BY <1>0, <1>1, AdvanceInRing, AdvanceTwice DEF RingInv
<1>4. RingInv'
  BY <1>0, <1>1, <1>2, <1>3 DEF RingInv, Advance, Positions
<1>5. ContentsInRing /\ ContentsInRing'
  BY <1>4, ContentsFacts, PTL
<1>6. NewBytes(n) \in Seq(Nat) /\ Len(NewBytes(n)) = n /\ \A i \in 1 .. n : NewBytes(n)[i] = accepted + i
  BY <1>0 DEF NewBytes
<1> DEFINE whole == Contents \o NewBytes(n)
<1>7. /\ whole \in Seq(Nat) /\ Len(whole) = queueLength + n
      /\ \A i \in 1 .. queueLength + n :
           whole[i] = IF i <= queueLength THEN Contents[i] ELSE NewBytes(n)[i - queueLength]
  <2>1. Contents \in Seq(Nat) /\ Len(Contents) = queueLength
    BY <1>5 DEF ContentsInRing
  <2>2. NewBytes(n) \in Seq(Nat) /\ Len(NewBytes(n)) = n
    BY <1>6
  <2>3. /\ whole \in Seq(Nat) /\ Len(whole) = Len(Contents) + Len(NewBytes(n))
        /\ \A i \in 1 .. Len(Contents) + Len(NewBytes(n)) :
             whole[i] = IF i <= Len(Contents) THEN Contents[i]
                        ELSE NewBytes(n)[i - Len(Contents)]
    BY <2>1, <2>2, ConcatFacts
  <2>4. QED
    BY <2>1, <2>2, <2>3
<1>8. ASSUME NEW i \in 1 .. queueLength + n PROVE Contents'[i] = whole[i]
  <2> DEFINE at == Advance(dequeuePos, i - 1)
  <2>1. at \in Positions /\ Contents'[i] = queueBuffer'[at]
    <3>1. i - 1 \in 0 .. QueueSize /\ i \in 1 .. queueLength'
      BY <1>0, <1>1
    <3>2. Advance(dequeuePos, i - 1)' = Advance(dequeuePos, i - 1)
      BY DEF Advance
    <3>3. QED
      BY <1>5, <3>1, <3>2, AdvanceInRing DEF ContentsInRing, RingInv
  <2>2. enqueuePos = IF dequeuePos + queueLength >= QueueSize
                     THEN dequeuePos + queueLength - QueueSize ELSE dequeuePos + queueLength
    BY DEF RingInv, Advance
  <2>3. CASE i <= queueLength
    <3>1. Ahead(at) >= n
      BY <1>0, <2>2, <2>3 DEF Advance
    <3>2. queueBuffer'[at] = queueBuffer[at]
      BY <1>0, <1>1, <2>1, <2>2, <3>1 DEF Positions
    <3>3. Contents[i] = queueBuffer[at]
      BY <1>5, <1>0, <2>3 DEF ContentsInRing
    <3>4. QED
      BY <1>7, <2>1, <2>3, <3>2, <3>3
  <2>4. CASE i > queueLength
    <3>1. Ahead(at) = i - queueLength - 1
      BY <1>0, <2>2, <2>4 DEF Advance
    <3>2. queueBuffer'[at] = accepted + 1 + (i - queueLength - 1)
      BY <1>0, <1>1, <2>1, <3>1
    <3>3. whole[i] = accepted + (i - queueLength)
      BY <1>0, <1>6, <1>7, <2>4
    <3>4. QED
      BY <1>0, <2>1, <3>2, <3>3
  <2>5. i \in Nat
    BY <1>0
  <2> HIDE DEF at, Ahead, whole
  <2>6. QED
    BY <1>0, <2>3, <2>4, <2>5
<1>9. Contents' \in Seq(Nat) /\ Len(Contents') = queueLength + n
  BY <1>1, <1>5 DEF ContentsInRing
<1>10. whole \in Seq(Nat) /\ Len(whole) = queueLength + n
  BY <1>7
<1> HIDE DEF whole
<1>11. Contents' = whole
  BY <1>8, <1>9, <1>10, SeqEqual
<1>12. QED
  BY <1>4, <1>11 DEF whole

-----------------------------------------------------------------------------
(* Every step keeps the invariant and is a step of the stream or a stutter. *)

StreamStep == RingInv' /\ [Stream!StreamNext]_(Stream!streamVars)

LEMMA NothingQueued == RingInv /\ queueLength = 0 => Contents = <<>>
<1> SUFFICES ASSUME RingInv, queueLength = 0 PROVE Contents = <<>>
  OBVIOUS
<1>1. Contents \in Seq(Nat) /\ Len(Contents) = 0
  BY ContentsFacts DEF ContentsInRing
<1>2. QED
  BY <1>1, EmptySeq

LEMMA InitRefines == Init => RingInv /\ Stream!StreamInit
<1> SUFFICES ASSUME Init PROVE RingInv /\ Stream!StreamInit
  OBVIOUS
<1>1. RingInv
  BY Sizes DEF Init, RingInv, Positions, Advance
<1>2. Contents = <<>>
  BY <1>1, NothingQueued DEF Init
<1>3. QED
  BY <1>1, <1>2 DEF Init, Stream!StreamInit

\* A step that leaves the queue and what was accepted and read alone.
LEMMA RestOfChannel ==
  ASSUME RingInv, UNCHANGED <<queue, accepted, got>>, count' \in [Readers \cup Writers -> Nat]
  PROVE  StreamStep
<1>1. RingInv'
  BY DEF RingInv, queue, Positions, Advance
<1>2. UNCHANGED Contents
  BY DEF queue, Contents, Advance
<1>3. QED
  BY <1>1, <1>2 DEF StreamStep, queue, Stream!streamVars

LEMMA ReadRefines ==
  ASSUME RingInv, NEW r \in Readers, NEW wanted \in Nat, ReadLocked(r, wanted), UNCHANGED accepted
  PROVE  StreamStep
<1>1. queueLength \in Nat /\ queueLength <= QueueSize
  BY Sizes DEF RingInv
<1>2. count' \in [Readers \cup Writers -> Nat]
  BY DEF ReadLocked, RingInv
<1>3. CASE UNCHANGED <<queue, got>>
  BY <1>2, <1>3, RestOfChannel
<1>4. CASE /\ open /\ queueLength > 0 /\ TakeOut(r, Smaller(wanted, queueLength))
           /\ UNCHANGED <<open, queueBuffer, enqueuePos>>
  <2> DEFINE n == Smaller(wanted, queueLength)
  <2>1. n \in 0 .. queueLength
    BY <1>1 DEF Smaller
  <2> HIDE DEF n
  <2>2. TakeOut(r, n) /\ UNCHANGED <<open, queueBuffer, enqueuePos, accepted>>
    BY <1>4 DEF n
  <2>3. RingInv' /\ Contents' = SubSeq(Contents, n + 1, Len(Contents))
    BY <1>2, <2>1, <2>2, TakeOutIsPrefix DEF TakeOut
  <2>4. Contents \in Seq(Nat) /\ Len(Contents) = queueLength
    BY ContentsFacts DEF ContentsInRing
  <2>5. CASE n = 0
    <3>1. SubSeq(Contents, 1, 0) = <<>> /\ SubSeq(Contents, 1, Len(Contents)) = Contents
      BY <2>4
    <3>2. got' = got
      BY <2>2, <2>5, <3>1 DEF TakeOut, RingInv
    <3>3. Contents' = Contents
      BY <2>3, <2>5, <3>1
    <3>4. QED
      BY <2>2, <2>3, <3>2, <3>3 DEF StreamStep, Stream!streamVars
  <2>6. CASE n # 0
    <3>1. n \in 1 .. Len(Contents)
      BY <1>1, <2>1, <2>4, <2>6
    <3>2. got' = got \o SubSeq(Contents, 1, n)
      BY <2>2 DEF TakeOut
    <3>3. open /\ open' /\ open' = open
      BY <1>4
    <3>4. Stream!Take
      BY <2>2, <2>3, <3>1, <3>2, <3>3 DEF Stream!Take
    <3>5. QED
      BY <2>3, <3>4 DEF StreamStep, Stream!StreamNext
  <2>7. QED
    BY <2>5, <2>6
<1>5. QED
  BY <1>3, <1>4 DEF ReadLocked

LEMMA WriteRefines ==
  ASSUME RingInv, NEW w \in Writers, NEW left \in Nat, NEW done, WriteLocked(w, left, done),
         UNCHANGED got
  PROVE  StreamStep
<1> DEFINE n == Smaller(left, QueueSize - queueLength)
<1>1. /\ queueLength \in Nat /\ queueLength <= QueueSize
      /\ n \in Nat /\ n <= left /\ queueLength + n <= QueueSize /\ left - n \in Nat
  BY Sizes DEF RingInv, Smaller
<1> HIDE DEF n
<1>2. count' \in [Readers \cup Writers -> Nat]
  <2>1. count' = [count EXCEPT ![w] = 0] \/ count' = [count EXCEPT ![w] = left - n]
    BY DEF WriteLocked, n
  <2>2. count \in [Readers \cup Writers -> Nat] /\ left - n \in Nat
    BY <1>1 DEF RingInv
  <2>3. QED
    BY <2>1, <2>2
<1>3. CASE UNCHANGED <<queue, accepted>>
  BY <1>2, <1>3, RestOfChannel
<1>4. CASE open /\ n # 0 /\ PutIn(n) /\ UNCHANGED <<open, dequeuePos>>
  <2>1. n \in 1 .. QueueSize
    BY <1>1, <1>4, Sizes
  <2>2. RingInv' /\ Contents' = Contents \o NewBytes(n)
    BY <1>1, <1>2, <1>4, <2>1, PutInAppends
  <2>3. Len(Contents) = queueLength
    BY ContentsFacts DEF ContentsInRing
  <2>4. n \in 1 .. QueueSize - Len(Contents)
    BY <1>1, <2>1, <2>3, Sizes
  <2>5. accepted' = accepted + n
    BY <1>4 DEF PutIn
  <2>6. Stream!Put
    BY <1>4, <2>2, <2>4, <2>5 DEF Stream!Put, NewBytes
  <2>7. QED
    BY <2>2, <2>6 DEF StreamStep, Stream!StreamNext
<1>5. UNCHANGED <<queue, accepted>> \/ (open /\ n # 0 /\ PutIn(n) /\ UNCHANGED <<open, dequeuePos>>)
  BY DEF WriteLocked, n, queue
<1>6. QED
  BY <1>3, <1>4, <1>5

LEMMA ControllerRefines ==
  ASSUME RingInv, NEW c \in Controllers, ControllerStep(c)
  PROVE  StreamStep
<1>1. CASE CloseLocked(c)
  <2>1. RingInv'
    BY <1>1 DEF CloseLocked, RingInv, history, Positions, Advance
  <2>2. Stream!Close
    BY <1>1 DEF CloseLocked, Stream!Close, history
  <2>3. QED
    BY <2>1, <2>2 DEF StreamStep, Stream!StreamNext
<1>2. CASE CloseWakesReader(c) \/ CloseWakesWriter(c)
  <2>1. UNCHANGED <<queue, accepted, got, count>>
    BY <1>2 DEF CloseWakesReader, CloseWakesWriter, history
  <2>2. QED
    BY <2>1, RestOfChannel DEF RingInv
<1>3. CASE Open(c)
  <2>1. RingInv' /\ (queueLength = 0)'
    <3>1. queueBuffer' \in [Positions -> Nat]
      BY <1>3 DEF Open
    <3>2. QED
      BY <1>3, <3>1, Sizes DEF Open, RingInv, history, Positions, Advance
  <2>2. (Contents = <<>>)'
    BY <2>1, NothingQueued, PTL
  <2>3. Stream!Open
    BY <1>3, <2>2 DEF Open, Stream!Open, history
  <2>4. QED
    BY <2>1, <2>3 DEF StreamStep, Stream!StreamNext
<1>4. QED
  BY <1>1, <1>2, <1>3 DEF ControllerStep

LEMMA NextRefines == RingInv /\ [Next]_vars => StreamStep
<1> SUFFICES ASSUME RingInv, [Next]_vars PROVE StreamStep
  OBVIOUS
<1>1. ASSUME NEW r \in Readers, Read(r) PROVE StreamStep
  <2>1. PICK n \in 1 .. MaxCount : ReadLocked(r, n)
    BY <1>1 DEF Read
  <2>2. n \in Nat /\ UNCHANGED accepted
    BY <1>1, Sizes DEF Read
  <2>3. QED
    BY <2>1, <2>2, ReadRefines
<1>2. ASSUME NEW r \in Readers, ReaderStep(r) PROVE StreamStep
  <2>1. CASE ReadAgain(r)
    <3>1. count[r] \in Nat /\ ReadLocked(r, count[r]) /\ UNCHANGED accepted
      BY <2>1 DEF ReadAgain, RingInv
    <3>2. QED
      BY <3>1, ReadRefines
  <2>2. CASE ReaderSleeps(r) \/ ReaderWakes(r) \/ ReaderGivesUp(r)
    <3>1. UNCHANGED <<queue, accepted, got>> /\ count' \in [Readers \cup Writers -> Nat]
      BY <2>2 DEF ReaderSleeps, ReaderWakes, ReaderGivesUp, history, RingInv
    <3>2. QED
      BY <3>1, RestOfChannel
  <2>3. QED
    BY <1>2, <2>1, <2>2 DEF ReaderStep
<1>3. ASSUME NEW w \in Writers, Write(w) PROVE StreamStep
  <2>1. PICK n \in 1 .. MaxCount : WriteLocked(w, n, 0)
    BY <1>3 DEF Write
  <2>2. n \in Nat /\ UNCHANGED got
    BY <1>3, Sizes DEF Write
  <2>3. QED
    BY <2>1, <2>2, WriteRefines
<1>4. ASSUME NEW w \in Writers, WriterStep(w) PROVE StreamStep
  <2>1. CASE WriteAgain(w)
    <3>1. count[w] \in Nat /\ WriteLocked(w, count[w], copied[w]) /\ UNCHANGED got
      BY <2>1 DEF WriteAgain, RingInv
    <3>2. QED
      BY <3>1, WriteRefines
  <2>2. CASE WriterSleeps(w) \/ WriterWakes(w) \/ WriterGivesUp(w)
    <3>1. UNCHANGED <<queue, accepted, got>> /\ count' \in [Readers \cup Writers -> Nat]
      BY <2>2 DEF WriterSleeps, WriterWakes, WriterGivesUp, history, RingInv
    <3>2. QED
      BY <3>1, RestOfChannel
  <2>3. QED
    BY <1>4, <2>1, <2>2 DEF WriterStep
<1>5. ASSUME NEW c \in Controllers, CloseCalled(c) \/ ControllerStep(c) PROVE StreamStep
  <2>1. CASE CloseCalled(c)
    <3>1. UNCHANGED <<queue, accepted, got, count>>
      BY <2>1 DEF CloseCalled
    <3>2. QED
      BY <3>1, RestOfChannel DEF RingInv
  <2>2. QED
    BY <1>5, <2>1, ControllerRefines
<1>6. CASE Spurious \/ UNCHANGED vars
  <2>1. UNCHANGED <<queue, accepted, got, count>>
    BY <1>6 DEF Spurious, vars, history
  <2>2. QED
    BY <2>1, RestOfChannel DEF RingInv
<1>7. QED
  BY <1>1, <1>2, <1>3, <1>4, <1>5, <1>6 DEF Next

\* PQueueChannel implements the stream: the bytes read are those accepted, each
\* once and in order, less what Close and Open throw away, however Read and Write
\* (qchannel.cxx:101-262) cut them up and wherever the ring wraps.
THEOREM ChannelImplementsByteStream == Spec => ImplementsByteStream
<1>1. RingInv /\ [Next]_vars => RingInv' /\ [Stream!StreamNext]_(Stream!streamVars)
  BY NextRefines DEF StreamStep
<1>2. QED
  BY InitRefines, <1>1, PTL DEF Spec, ImplementsByteStream, Stream!StreamSpec

-----------------------------------------------------------------------------
(* Nobody is stranded.  What places the signals: the threads that open the  *)
(* channel find it closed, so none of them clears a queue that is in use.   *)

OpenerAlone ==
  /\ \A c \in Controllers : pc[c] = "open" => c \in Openers
  /\ OneOpener => \A c \in Openers : pc[c] \in {"unempty", "unfull", "open"} => ~open

WakeInv == DOMAIN pc = Threads /\ OpenerAlone /\ NoStrandedThread

LEMMA InitWake == Init => WakeInv
BY ThreadsAssumption DEF Init, WakeInv, OpenerAlone, NoStrandedThread, ReaderNotStranded,
      WriterNotStranded, Threads, Controllers

LEMMA ThreadsDiffer ==
  /\ \A t \in Readers \cup Writers : t \in Threads /\ t \notin Controllers
  /\ \A r \in Readers : r \notin Writers
  /\ \A c \in Controllers : c \in Threads
BY ThreadsAssumption DEF Threads, Controllers

\* A thread moves and the signals that were due before are still due.
LEMMA DueKept ==
  ASSUME DOMAIN pc = Threads, NEW t \in Threads, NEW s, pc' = [pc EXCEPT ![t] = s], NEW stages,
         t \in Controllers => pc[t] \notin stages, SignalDue(stages)
  PROVE  SignalDue(stages)'
<1>1. PICK c \in Controllers : pc[c] \in stages
  BY DEF SignalDue
<1>2. c # t /\ c \in Threads
  BY <1>1, ThreadsDiffer
<1>3. pc'[c] = pc[c]
  BY <1>2
<1>4. QED
  BY <1>1, <1>3 DEF SignalDue

\* A signal is not lost while the thread it is for waits: what a step does that is
\* neither a signal nor the end of the wait.
LEMMA ReaderKept ==
  ASSUME DOMAIN pc = Threads, NEW t \in Threads, NEW s, pc' = [pc EXCEPT ![t] = s],
         t \in Controllers => pc[t] # "unempty",
         NEW r \in Readers, r # t \/ s = pc[t], ReaderNotStranded(r),
         UNCHANGED <<open, unempty>>, queueLength' > 0 => queueLength > 0
  PROVE  ReaderNotStranded(r)'
<1>1. r \in Threads /\ pc'[r] = pc[r]
  BY ThreadsDiffer
<1>2. SignalDue({"unempty"}) => SignalDue({"unempty"})'
  BY DueKept
<1>3. QED
  BY <1>1, <1>2 DEF ReaderNotStranded

LEMMA WriterKept ==
  ASSUME DOMAIN pc = Threads, NEW t \in Threads, NEW s, pc' = [pc EXCEPT ![t] = s],
         t \in Controllers => pc[t] \notin {"unempty", "unfull"} \/ s \in {"unempty", "unfull"},
         NEW w \in Writers, w # t \/ s = pc[t], WriterNotStranded(w),
         UNCHANGED <<open, unfull>>, queueLength' < QueueSize => queueLength < QueueSize
  PROVE  WriterNotStranded(w)'
<1>1. w \in Threads /\ pc'[w] = pc[w]
  BY ThreadsDiffer
<1>2. SignalDue({"unempty", "unfull"}) => SignalDue({"unempty", "unfull"})'
  <2>1. CASE t \in Controllers /\ s \in {"unempty", "unfull"}
    BY <2>1 DEF SignalDue
  <2>2. CASE t \in Controllers => pc[t] \notin {"unempty", "unfull"}
    BY <2>2, DueKept
  <2>3. QED
    BY <2>1, <2>2
<1>3. QED
  BY <1>1, <1>2 DEF WriterNotStranded

\* The readers and the writers: what their steps do to the reader that waits.
LEMMA ReaderSideOfQueue ==
  ASSUME RingInv, WakeInv, NEW r \in Readers, Readers = {r},
         \/ \E t \in Readers : Read(t) \/ ReaderStep(t)
         \/ \E t \in Writers : Write(t) \/ WriterStep(t)
  PROVE  ReaderNotStranded(r)'
<1> USE DEF WakeInv
<1>0. /\ ReaderNotStranded(r) /\ r \in Threads /\ r \notin Controllers /\ r \notin Writers
      /\ queueLength \in Nat /\ queueLength <= QueueSize
  BY ThreadsDiffer, Sizes DEF NoStrandedThread, RingInv
<1>1. ASSUME NEW wanted, ReadLocked(r, wanted) PROVE ReaderNotStranded(r)'
  <2>1. pc'[r] = "idle" \/ (open /\ open' = open /\ queueLength = 0 /\ queueLength' = queueLength)
    BY <1>0, <1>1 DEF ReadLocked, queue
  <2>2. QED
    BY <2>1 DEF ReaderNotStranded
<1>2. CASE ReaderSleeps(r)
  <2>1. UNCHANGED <<open, queueLength, unempty, pc>>
    BY <1>2 DEF ReaderSleeps, queue, Unempty!WaitBlocks, Unempty!WakeBlocks,
             Unempty!TimedWaitBlocks, Unempty!Expire
  <2>2. QED
    BY <1>0, <2>1 DEF ReaderNotStranded, SignalDue
<1>3. CASE ReaderWakes(r) \/ ReaderGivesUp(r)
  <2>1. pc'[r] \in {"lock", "idle"}
    BY <1>0, <1>3 DEF ReaderWakes, ReaderGivesUp, Goto
  <2>2. QED
    BY <2>1 DEF ReaderNotStranded
<1>4. ASSUME NEW w \in Writers, NEW left \in Nat, NEW done, WriteLocked(w, left, done)
      PROVE  ReaderNotStranded(r)'
  <2> DEFINE n == Smaller(left, QueueSize - queueLength)
  <2>1. /\ w \in Threads /\ w # r /\ w \notin Controllers
        /\ \E s : pc' = [pc EXCEPT ![w] = s]
        /\ open' = open
    BY <1>0, <1>4, ThreadsDiffer DEF WriteLocked, queue
  <2>2. CASE UNCHANGED <<unempty, queueLength>>
    BY <1>0, <2>1, <2>2, ReaderKept
  <2>3. CASE PutIn(n)
    <3>1. CASE queueLength = 0
      BY <2>3, <3>1 DEF PutIn, Unempty!Signal, ReaderNotStranded
    <3>2. CASE queueLength > 0
      <4>1. unempty' = unempty
        BY <2>3, <3>2 DEF PutIn
      <4>2. QED
        BY <1>0, <2>1, <3>2, <4>1, ReaderKept
    <3>3. QED
      BY <1>0, <3>1, <3>2
  <2>4. QED
    BY <1>4, <2>2, <2>3 DEF WriteLocked, queue, syncPoints
<1>5. ASSUME NEW w \in Writers, WriterSleeps(w) \/ WriterWakes(w) \/ WriterGivesUp(w)
      PROVE  ReaderNotStranded(r)'
  <2>1. UNCHANGED <<open, queueLength, unempty>> /\ w \in Threads /\ w # r /\ w \notin Controllers
    BY <1>0, <1>5, ThreadsDiffer DEF WriterSleeps, WriterWakes, WriterGivesUp, queue
  <2>2. UNCHANGED pc \/ \E s : pc' = [pc EXCEPT ![w] = s]
    BY <1>5 DEF WriterSleeps, WriterWakes, WriterGivesUp, Goto
  <2>3. QED
    BY <1>0, <2>1, <2>2, ReaderKept DEF ReaderNotStranded, SignalDue
<1>6. ASSUME NEW w \in Writers, Write(w) \/ WriteAgain(w) PROVE ReaderNotStranded(r)'
  <2>1. \E left \in Nat : \E done : WriteLocked(w, left, done)
    BY <1>6, Sizes DEF Write, WriteAgain, RingInv
  <2>2. QED
    BY <1>4, <2>1
<1>7. CASE \E t \in Readers : Read(t) \/ ReaderStep(t)
  <2>1. Read(r) \/ ReaderStep(r)
    BY <1>7
  <2>2. CASE Read(r) \/ ReadAgain(r)
    BY <1>1, <2>2 DEF Read, ReadAgain
  <2>3. QED
    BY <1>2, <1>3, <2>1, <2>2 DEF ReaderStep
<1>8. QED
  BY <1>5, <1>6, <1>7 DEF WriterStep

\* And to the writer that waits.
LEMMA WriterSideOfQueue ==
  ASSUME RingInv, WakeInv, OneOpener, NEW w \in Writers, Writers = {w},
         \/ \E t \in Readers : Read(t) \/ ReaderStep(t)
         \/ \E t \in Writers : Write(t) \/ WriterStep(t)
  PROVE  WriterNotStranded(w)'
<1> USE DEF WakeInv
<1>0. /\ WriterNotStranded(w) /\ w \in Threads /\ w \notin Controllers /\ w \notin Readers
      /\ queueLength \in Nat /\ queueLength <= QueueSize
  BY ThreadsDiffer, Sizes DEF NoStrandedThread, RingInv
<1>1. ASSUME NEW left \in Nat, NEW done, WriteLocked(w, left, done) PROVE WriterNotStranded(w)'
  <2> DEFINE n == Smaller(left, QueueSize - queueLength)
  <2>1. CASE pc'[w] = "idle"
    BY <2>1 DEF WriterNotStranded
  <2>2. CASE n # left /\ open
    <3>1. n = QueueSize - queueLength
      BY <2>2 DEF Smaller
    <3>2. open' = open /\ queueLength' = queueLength + n
      BY <1>0, <1>1, <2>2 DEF WriteLocked, PutIn
    <3>3. QED
      BY <1>0, <2>2, <3>1, <3>2, Sizes DEF WriterNotStranded
  <2>3. QED
    BY <1>0, <1>1, <2>1, <2>2 DEF WriteLocked
<1>2. CASE WriterSleeps(w)
  <2>1. UNCHANGED <<open, queueLength, unfull, pc>>
    BY <1>2 DEF WriterSleeps, queue, Unfull!WaitBlocks, Unfull!WakeBlocks,
             Unfull!TimedWaitBlocks, Unfull!Expire
  <2>2. QED
    BY <1>0, <2>1 DEF WriterNotStranded, SignalDue
<1>3. CASE WriterWakes(w) \/ WriterGivesUp(w)
  <2>1. pc'[w] \in {"lock", "idle"}
    BY <1>0, <1>3 DEF WriterWakes, WriterGivesUp, Goto
  <2>2. QED
    BY <2>1 DEF WriterNotStranded
<1>4. ASSUME NEW r \in Readers, NEW wanted, ReadLocked(r, wanted) PROVE WriterNotStranded(w)'
  <2>1. /\ r \in Threads /\ w # r /\ r \notin Controllers
        /\ \E s : pc' = [pc EXCEPT ![r] = s]
        /\ open' = open
    BY <1>0, <1>4, ThreadsDiffer DEF ReadLocked, queue
  <2>2. CASE UNCHANGED <<unfull, queueLength>>
    BY <1>0, <2>1, <2>2, WriterKept
  <2>3. CASE TakeOut(r, Smaller(wanted, queueLength))
    <3>1. CASE queueLength = QueueSize
      BY <2>3, <3>1 DEF TakeOut, Unfull!Signal, WriterNotStranded
    <3>2. CASE queueLength # QueueSize
      <4>1. unfull' = unfull
        BY <2>3, <3>2 DEF TakeOut
      <4>2. queueLength < QueueSize
        BY <1>0, <3>2, Sizes
      <4>3. QED
        BY <1>0, <2>1, <4>1, <4>2, WriterKept
    <3>3. QED
      BY <3>1, <3>2
  <2>4. QED
    BY <1>4, <2>2, <2>3 DEF ReadLocked, queue, syncPoints
<1>5. ASSUME NEW r \in Readers, ReaderSleeps(r) \/ ReaderWakes(r) \/ ReaderGivesUp(r)
      PROVE  WriterNotStranded(w)'
  <2>1. UNCHANGED <<open, queueLength, unfull>> /\ r \in Threads /\ w # r /\ r \notin Controllers
    BY <1>0, <1>5, ThreadsDiffer DEF ReaderSleeps, ReaderWakes, ReaderGivesUp, queue
  <2>2. UNCHANGED pc \/ \E s : pc' = [pc EXCEPT ![r] = s]
    BY <1>5 DEF ReaderSleeps, ReaderWakes, ReaderGivesUp, Goto
  <2>3. QED
    BY <1>0, <2>1, <2>2, WriterKept DEF WriterNotStranded, SignalDue
<1>6. CASE \E t \in Readers : Read(t) \/ ReaderStep(t)
  BY <1>4, <1>5, <1>6 DEF ReaderStep, Read, ReadAgain
<1>7. CASE Write(w) \/ WriteAgain(w)
  <2>1. \E left \in Nat : \E done : WriteLocked(w, left, done)
    BY <1>7, Sizes DEF Write, WriteAgain, RingInv
  <2>2. QED
    BY <1>1, <2>1
<1>8. QED
  BY <1>2, <1>3, <1>6, <1>7 DEF WriterStep

\* Close and Open give the signals, or find nobody to give one to.
LEMMA ControllersStrandNobody ==
  ASSUME RingInv, WakeInv, NEW c \in Controllers, CloseCalled(c) \/ ControllerStep(c)
  PROVE  NoStrandedThread'
<1> USE DEF WakeInv
<1>0. /\ c \in Threads /\ queueLength \in Nat /\ queueLength <= QueueSize
      /\ \A t \in Readers \cup Writers : t # c /\ t \in Threads
  BY ThreadsDiffer, Sizes DEF RingInv
<1>1. CASE CloseCalled(c)
  <2>1. \E s : pc[c] = "idle" /\ pc' = [pc EXCEPT ![c] = s]
    BY <1>1 DEF CloseCalled, Goto
  <2>2. UNCHANGED <<open, queueLength, unempty, unfull>>
    BY <1>1 DEF CloseCalled, queue, syncPoints
  <2>3. ASSUME NEW r \in Readers PROVE ReaderNotStranded(r)'
    BY <1>0, <2>1, <2>2, ReaderKept DEF NoStrandedThread
  <2>4. ASSUME OneOpener, NEW w \in Writers PROVE WriterNotStranded(w)'
    BY <1>0, <2>1, <2>2, <2>4, WriterKept DEF NoStrandedThread
  <2>5. QED
    BY <2>3, <2>4 DEF NoStrandedThread, OneOpener
<1>2. CASE CloseLocked(c)
  <2>1. pc'[c] = "unempty"
    BY <1>0, <1>2 DEF CloseLocked, Goto
  <2>2. SignalDue({"unempty"})' /\ SignalDue({"unempty", "unfull"})'
    BY <2>1 DEF SignalDue
  <2>3. QED
    BY <2>2 DEF NoStrandedThread, ReaderNotStranded, WriterNotStranded, OneOpener
<1>3. CASE CloseWakesReader(c)
  <2>1. pc'[c] = "unfull" /\ unempty'
    BY <1>0, <1>3 DEF CloseWakesReader, Goto, Unempty!Signal
  <2>2. SignalDue({"unempty", "unfull"})'
    BY <2>1 DEF SignalDue
  <2>3. QED
    BY <2>1, <2>2 DEF NoStrandedThread, ReaderNotStranded, WriterNotStranded, OneOpener
<1>4. CASE CloseWakesWriter(c)
  <2>1. \E s : pc[c] = "unfull" /\ pc' = [pc EXCEPT ![c] = s]
    BY <1>4 DEF CloseWakesWriter, Goto
  <2>2. UNCHANGED <<open, queueLength, unempty>> /\ unfull'
    BY <1>4 DEF CloseWakesWriter, queue, Unfull!Signal
  <2>3. ASSUME NEW r \in Readers PROVE ReaderNotStranded(r)'
    BY <1>0, <2>1, <2>2, ReaderKept DEF NoStrandedThread
  <2>4. ASSUME NEW w \in Writers PROVE WriterNotStranded(w)'
    BY <2>2 DEF WriterNotStranded
  <2>5. QED
    BY <2>3, <2>4 DEF NoStrandedThread, OneOpener
<1>5. CASE Open(c)
  <2>1. open' /\ queueLength' = 0 /\ UNCHANGED <<unempty, unfull>>
    BY <1>5 DEF Open, syncPoints
  <2>2. pc[c] = "open" /\ pc' = [pc EXCEPT ![c] = "idle"]
    BY <1>5 DEF Open, Goto
  <2>3. ASSUME NEW r \in Readers PROVE ReaderNotStranded(r)'
    BY <2>1 DEF ReaderNotStranded
  <2>4. ASSUME OneOpener, NEW w \in Writers PROVE WriterNotStranded(w)'
    <3>1. ~open
      BY <2>2, <2>4 DEF OpenerAlone
    <3>2. pc'[w] = pc[w]
      BY <1>0, <2>2
    <3>3. WriterNotStranded(w)
      BY <2>4 DEF NoStrandedThread
    <3>4. SignalDue({"unempty", "unfull"}) => SignalDue({"unempty", "unfull"})'
      BY <1>0, <2>2, DueKept
    <3>5. QED
      BY <2>1, <3>1, <3>2, <3>3, <3>4 DEF WriterNotStranded
  <2>5. QED
    BY <2>3, <2>4 DEF NoStrandedThread, OneOpener
<1>6. QED
  BY <1>1, <1>2, <1>3, <1>4, <1>5 DEF ControllerStep

LEMMA ControllersOpenAlone ==
  ASSUME RingInv, WakeInv, NEW c \in Controllers, CloseCalled(c) \/ ControllerStep(c)
  PROVE  OpenerAlone'
<1> USE DEF WakeInv
<1>0. c \in Threads /\ open \in BOOLEAN /\ Controllers \subseteq Threads /\ Openers \subseteq Controllers
  BY ThreadsDiffer DEF RingInv, Controllers
<1>1. /\ \E s : pc' = [pc EXCEPT ![c] = s]
      /\ pc'[c] = "open" => c \in Openers
      /\ pc'[c] \in {"unempty", "unfull", "open"} =>
           ~open' \/ (pc[c] \in {"unempty", "unfull", "open"} /\ open' = open)
      /\ open' => open \/ pc[c] = "open"
  BY <1>0 DEF CloseCalled, ControllerStep, CloseLocked, CloseWakesReader, CloseWakesWriter, Open,
     Goto, queue
<1>2. \A d \in Controllers : d # c => pc'[d] = pc[d]
  BY <1>0, <1>1
<1>3. \A d \in Controllers : pc'[d] = "open" => d \in Openers
  BY <1>1, <1>2 DEF OpenerAlone
<1>4. ASSUME OneOpener, NEW d \in Openers, pc'[d] \in {"unempty", "unfull", "open"} PROVE ~open'
  <2>1. CASE d = c
    BY <1>1, <1>4, <2>1 DEF OpenerAlone
  <2>2. CASE d # c
    <3>1. c \notin Openers
      BY <1>4, <2>2 DEF OneOpener
    <3>2. pc[c] # "open" /\ ~open
      BY <1>0, <1>2, <1>4, <2>2, <3>1 DEF OpenerAlone
    <3>3. QED
      BY <1>1, <3>2
  <2>3. QED
    BY <2>1, <2>2
<1>5. QED
  BY <1>3, <1>4 DEF OpenerAlone, OneOpener

LEMMA StepWake == RingInv /\ WakeInv /\ [Next]_vars => WakeInv'
<1> SUFFICES ASSUME RingInv, WakeInv, [Next]_vars PROVE WakeInv'
  OBVIOUS
<1>0. DOMAIN pc = Threads
  BY DEF WakeInv
<1>1. CASE UNCHANGED vars
  BY <1>1 DEF vars, queue, syncPoints, WakeInv, OpenerAlone, OneOpener, NoStrandedThread,
     ReaderNotStranded, WriterNotStranded, SignalDue
<1>2. CASE Spurious
  <2>1. UNCHANGED <<open, queueLength, pc, unempty, unfull>>
    BY <1>2 DEF Spurious, queue, Unempty!SpuriousWake, Unfull!SpuriousWake
  <2>2. QED
    BY <2>1 DEF WakeInv, OpenerAlone, OneOpener, NoStrandedThread, ReaderNotStranded,
       WriterNotStranded, SignalDue
<1>3. ASSUME NEW c \in Controllers, CloseCalled(c) \/ ControllerStep(c) PROVE WakeInv'
  <2>1. DOMAIN pc' = Threads
    BY <1>0, <1>3 DEF CloseCalled, ControllerStep, CloseLocked, CloseWakesReader,
       CloseWakesWriter, Open, Goto
  <2>2. QED
    BY <1>3, <2>1, ControllersStrandNobody, ControllersOpenAlone DEF WakeInv
<1>4. CASE \/ \E t \in Readers : Read(t) \/ ReaderStep(t)
           \/ \E t \in Writers : Write(t) \/ WriterStep(t)
  <2>1. /\ open' = open
        /\ UNCHANGED pc \/ \E t \in Readers \cup Writers : \E s : pc' = [pc EXCEPT ![t] = s]
    BY <1>4 DEF Read, ReaderStep, ReadAgain, ReadLocked, ReaderSleeps, ReaderWakes, ReaderGivesUp,
       Write, WriterStep, WriteAgain, WriteLocked, WriterSleeps, WriterWakes, WriterGivesUp, Goto, queue
  <2>2. DOMAIN pc' = Threads /\ \A c \in Controllers : pc'[c] = pc[c]
    BY <1>0, <2>1, ThreadsDiffer
  <2>3. OpenerAlone'
    BY <2>1, <2>2 DEF WakeInv, OpenerAlone, OneOpener, Controllers
  <2>4. ASSUME NEW r \in Readers PROVE ReaderNotStranded(r)'
    <3>1. CASE Readers = {r}
      BY <1>4, <3>1, ReaderSideOfQueue
    <3>2. CASE Readers # {r}
      BY <3>2 DEF ReaderNotStranded
    <3>3. QED
      BY <3>1, <3>2
  <2>5. ASSUME OneOpener, NEW w \in Writers PROVE WriterNotStranded(w)'
    <3>1. CASE Writers = {w}
      BY <1>4, <2>5, <3>1, WriterSideOfQueue
    <3>2. CASE Writers # {w}
      BY <3>2 DEF WriterNotStranded
    <3>3. QED
      BY <3>1, <3>2
  <2>6. QED
    BY <2>2, <2>3, <2>4, <2>5 DEF WakeInv, NoStrandedThread, OneOpener
<1>5. QED
  BY <1>1, <1>2, <1>3, <1>4 DEF Next

\* The one reader and the one writer of a channel (qchannel.cxx:101-262) are not left
\* asleep beside bytes, beside room or beside a closed channel, whatever Close and
\* Open do meanwhile: the signal they wait for has been given or is about to be.
THEOREM NobodyStranded == Spec => []NoStrandedThread
<1>1. RingInv /\ WakeInv /\ [Next]_vars => RingInv' /\ WakeInv'
  BY NextRefines, StepWake DEF StreamStep
<1>2. Init => RingInv /\ WakeInv
  BY InitRefines, InitWake
<1>3. WakeInv => NoStrandedThread
  BY DEF WakeInv
<1>4. QED
  BY <1>1, <1>2, <1>3, PTL DEF Spec

-----------------------------------------------------------------------------
(* PSpoolDirectory.                                                        *)

SpoolType ==
  /\ file \in [Files -> {"absent", "partial", "complete"}]
  /\ lockFile \subseteq Files
  /\ entry \in Files /\ listed \subseteq Files

\* A file is half written only beside its lock directory, and while the scan is at an
\* entry nobody removes its file or, once the lock has been looked for, makes a lock.
SpoolInv ==
  /\ SpoolType
  /\ \A f \in Files : file[f] = "partial" => f \in lockFile
  /\ scanner \in {"locked", "process"} => file[entry] # "absent"
  /\ scanner = "process" => entry \notin lockFile

LEMMA SpoolStep == ASSUME SpoolInv, [S!SpoolNext]_(S!spoolVars) PROVE SpoolInv'
<1> USE DEF SpoolInv, SpoolType
<1>1. ASSUME NEW f \in Files, S!CreateLockFile(f) PROVE SpoolInv'
  BY <1>1 DEF S!CreateLockFile, S!scan
<1>2. ASSUME NEW f \in Files, S!WriteFile(f) PROVE SpoolInv'
  <2>1. file' \in [Files -> {"absent", "partial", "complete"}]
    BY <1>2 DEF S!WriteFile
  <2>2. QED
    BY <1>2, <2>1 DEF S!WriteFile, S!scan
<1>3. ASSUME NEW f \in Files, S!DestroyLockFile(f) PROVE SpoolInv'
  BY <1>3 DEF S!DestroyLockFile, S!scan
<1>4. CASE S!TestRunning \/ S!CopyDirectory \/ S!GetInfo \/ S!TestLock
  BY <1>4 DEF S!TestRunning, S!CopyDirectory, S!GetInfo, S!TestLock, S!Goto, S!scan, S!disk
<1>5. CASE S!OpenScanner \/ S!NextEntry
  BY <1>5 DEF S!OpenScanner, S!NextEntry, S!Present, S!disk
<1>6. CASE S!Process
  BY <1>6 DEF S!Process, S!Goto, S!scan
<1>7. ASSUME NEW c \in Spoolers, S!CallOpen(c) \/ S!CallClose(c) \/ S!ThreadGone(c)
      PROVE  SpoolInv'
  BY <1>7 DEF S!CallOpen, S!CallClose, S!ThreadGone, S!StartThread, S!scan, S!disk
<1>8. CASE UNCHANGED S!spoolVars
  BY <1>8 DEF S!spoolVars, S!scan, S!disk
<1>9. QED
  BY <1>1, <1>2, <1>3, <1>4, <1>5, <1>6, <1>7, <1>8 DEF S!SpoolNext, S!ScannerStep

\* PSpoolDirectory::ThreadMain and ProcessEntry: whatever producers do in between and
\* however often the spool is opened and closed, a file is processed when it is whole.
THEOREM SpoolProcessesWhole == S!Spec => []ProcessedWhole
<1>1. S!SpoolInit => SpoolInv
  BY DEF S!SpoolInit, SpoolInv, SpoolType
<1>2. SpoolInv => ProcessedWhole
  BY DEF SpoolInv, SpoolType, ProcessedWhole, S!ProcessedWhole
<1>3. QED
  BY <1>1, <1>2, SpoolStep, PTL DEF S!Spec

-----------------------------------------------------------------------------
(* PIndirectChannel.                                                       *)

IndType ==
  /\ indPc \in [Callers -> {"idle", "using", "close", "closing", "start", "queued", "change",
                            "leave"}]
  /\ using \in [Callers -> Channels \cup {None}]
  /\ status \in [Channels -> {"new", "open", "closed", "deleted"}]
  /\ {readChannel, writeChannel} \subseteq Channels \cup {None}
  /\ owned \subseteq Channels
  /\ holds \in [Callers -> {"none", "read", "write"}]

\* Who holds channelPointerMutex, and that one who writes is alone with it.
Holding ==
  /\ \A t \in Callers : holds[t] = CASE indPc[t] \in {"using", "closing"} -> "read"
                                     [] indPc[t] = "change" -> "write"
                                     [] OTHER -> "none"
  /\ \A t, u \in Callers : holds[t] = "write" /\ u # t => holds[u] = "none"

\* The channels of the class, and those it has given back, have been opened and are
\* not deleted; who is in a channel is in one of those of the class.
Kept == {readChannel, writeChannel} \cap Channels
IndInv ==
  /\ IndType /\ Holding
  /\ \A t \in Callers : using[t] # None => indPc[t] = "using" /\ using[t] \in Kept
  /\ Kept \cap owned = {}
  /\ \A c \in Kept \cup owned : status[c] \notin {"new", "deleted"}

LEMMA NoneIsNoChannel == None \notin Channels
BY PartsAssumption DEF I!IndirectAssumption

\* Reading, and asking for the lock, leave the channels as they are.
LEMMA IndQuiet ==
  ASSUME IndInv, IndType', Holding',
         UNCHANGED <<readChannel, writeChannel, status, owned>>,
         \A t \in Callers : using'[t] # None => indPc'[t] = "using" /\ using'[t] \in Kept
  PROVE  IndInv'
BY DEF IndInv, Kept

LEMMA IndStep == ASSUME IndInv, [I!IndNext]_(I!indVars) PROVE IndInv'
<1> USE NoneIsNoChannel
<1>1. ASSUME NEW t \in Callers, I!Begin(t) PROVE IndInv'
  <2>1. IndType' /\ Holding'
    BY <1>1 DEF IndInv, IndType, Holding, I!Begin, I!Goto, I!Lock!AcquireRead, I!pointers
  <2>2. \A u \in Callers : using'[u] # None => indPc'[u] = "using" /\ using'[u] \in Kept
    BY <1>1 DEF IndInv, IndType, Kept, I!Begin, I!Goto
  <2>3. QED
    BY <1>1, <2>1, <2>2, IndQuiet DEF I!Begin, I!pointers
<1>2. ASSUME NEW t \in Callers, I!Finish(t) PROVE IndInv'
  <2>1. IndType' /\ Holding'
    BY <1>2 DEF IndInv, IndType, Holding, I!Finish, I!Goto, I!Lock!Release, I!pointers
  <2>2. \A u \in Callers : using'[u] # None => indPc'[u] = "using" /\ using'[u] \in Kept
    BY <1>2 DEF IndInv, IndType, Kept, I!Finish, I!Goto
  <2>3. QED
    BY <1>2, <2>1, <2>2, IndQuiet DEF I!Finish, I!pointers
<1>3. ASSUME NEW t \in Callers, I!CallClose(t) \/ I!CallChange(t, "open") \/ I!CallChange(t, "detach")
      PROVE  IndInv'
  <2>1. /\ indPc[t] = "idle" /\ indPc' = [indPc EXCEPT ![t] = indPc'[t]]
        /\ indPc'[t] \in {"close", "start"}
        /\ UNCHANGED <<I!pointers, status, I!lock, using, owned>>
    BY <1>3 DEF I!CallClose, I!CallChange, I!Goto, IndInv, IndType
  <2>2. IndType' /\ Holding'
    BY <2>1 DEF IndInv, IndType, Holding, I!lock, I!pointers
  <2>3. QED
    BY <2>1, <2>2, IndQuiet DEF IndInv, IndType, I!pointers
<1>4. ASSUME NEW t \in Callers, I!CloseLocks(t) \/ I!Queue(t) \/ I!AcquireWrite(t) \/ I!Leave(t)
      PROVE  IndInv'
  <2>1. /\ indPc' = [indPc EXCEPT ![t] = indPc'[t]]
        /\ indPc[t] # "using" /\ UNCHANGED <<I!pointers, status, using, owned>>
    BY <1>4 DEF I!CloseLocks, I!Queue, I!AcquireWrite, I!Leave, I!Goto, IndInv, IndType
  <2>2. IndType'
    BY <1>4, <2>1
       DEF IndInv, IndType, I!CloseLocks, I!Queue, I!AcquireWrite, I!Leave, I!Goto, I!pointers,
       I!Lock!AcquireRead, I!Lock!AcquireWrite, I!Lock!QueueWriter, I!Lock!LeaveQueue
  <2>3. Holding'
    BY <1>4, <2>2
       DEF IndInv, IndType, Holding, I!CloseLocks, I!Queue, I!AcquireWrite, I!Leave, I!Goto,
       I!Lock!AcquireRead, I!Lock!AcquireWrite, I!Lock!QueueWriter, I!Lock!LeaveQueue
  <2>4. QED
    BY <2>1, <2>2, <2>3, IndQuiet DEF IndInv, IndType, I!pointers
<1>5. ASSUME NEW t \in Callers, I!CloseBelow(t) PROVE IndInv'
  <2>1. IndType' /\ Holding'
    BY <1>5 DEF IndInv, IndType, Holding, I!CloseBelow, I!Put, I!Goto, I!Lock!Release, I!pointers
  <2>2. QED
    BY <1>5, <2>1 DEF IndInv, IndType, Kept, I!CloseBelow, I!Put, I!Goto, I!pointers
<1>6. ASSUME NEW t \in Callers, I!Change(t) PROVE IndInv'
  <2>1. /\ indPc[t] = "change" /\ indPc' = [indPc EXCEPT ![t] = "leave"]
        /\ UNCHANGED using /\ holds' = [holds EXCEPT ![t] = "none"]
    BY <1>6
       DEF I!Change, I!CloseDelete, I!OpenChannels, I!Detach, I!DetachRead, I!Goto, I!Lock!Release
  <2>2. Holding'
    BY <2>1 DEF IndInv, IndType, Holding
  <2>3. \A u \in Callers : using'[u] = None
    BY <2>1 DEF IndInv, IndType, Holding
  <2>4. CASE I!CloseDelete(t)
    <3>1. IndType'
      BY <2>1, <2>4 DEF IndInv, IndType, I!CloseDelete, I!Put
    <3>2. Kept' = {} /\ owned' = owned
      BY <2>4 DEF I!CloseDelete, Kept
    <3>3. \A c \in Channels \ Kept : status'[c] = status[c]
      BY <2>4 DEF I!CloseDelete, I!Put, Kept
    <3>4. \A c \in owned : status'[c] \notin {"new", "deleted"}
      BY <3>3 DEF IndInv, IndType
    <3>5. QED
      BY <2>2, <2>3, <3>1, <3>2, <3>4 DEF IndInv
  <2>5. CASE I!OpenChannels(t)
    <3>1. IndType'
      BY <2>1, <2>5 DEF IndInv, IndType, I!OpenChannels
    <3>2. Kept' \cap owned' = {}
      BY <2>5 DEF IndInv, IndType, Kept, I!OpenChannels
    <3>3. \A c \in Kept' \cup owned' : status'[c] \notin {"new", "deleted"}
      BY <2>5 DEF IndInv, IndType, Kept, I!OpenChannels
    <3>4. QED
      BY <2>2, <2>3, <3>1, <3>2, <3>3 DEF IndInv
  <2>6. CASE I!Detach(t)
    <3>1. IndType'
      BY <2>1, <2>6 DEF IndInv, IndType, I!Detach
    <3>2. QED
      BY <2>2, <2>3, <2>6, <3>1 DEF IndInv, IndType, Kept, I!Detach
  <2>7. QED
    BY <1>6, <2>4, <2>5, <2>6 DEF I!Change, I!DetachRead
<1>7. CASE UNCHANGED I!indVars
  BY <1>7 DEF I!indVars, I!pointers, I!lock, IndInv, IndType, Holding, Kept
<1>8. QED
  BY <1>1, <1>2, <1>3, <1>4, <1>5, <1>6, <1>7
     DEF I!IndNext, I!Step, I!ChannelReturns, I!ChannelFails

\* PIndirectChannel, as long as Detach is not called with ShutdownRead: no Close, Open
\* or Detach, in whatever order they come, deletes a channel that is read from or
\* written to, that the class still has or that it has given back.
THEOREM IndirectDeletesUnused == I!Spec => []DeletedWhenUnused
<1>1. I!IndInit => IndInv
  BY NoneIsNoChannel DEF I!IndInit, I!Lock!RWInit, IndInv, IndType, Holding, Kept
<1>2. IndInv => DeletedWhenUnused
  BY DEF IndInv, IndType, Kept, DeletedWhenUnused, I!DeletedWhenUnused
<1>3. QED
  BY <1>1, <1>2, IndStep, PTL DEF I!Spec

-----------------------------------------------------------------------------
(* PInterfaceMonitor.                                                      *)

Stopping == {"fetch", "wait", "delete"}

MonitorType ==
  /\ monitorPc \in [Clients \cup Mains -> {"out", "in", "stop"} \cup Stopping]
  /\ awaited \in [Clients \cup Mains -> Nat]
  /\ update \in [1 .. MaxStarts -> {"none", "wait", "refresh", "notify", "ended", "deleted"}]
  /\ starts \in 0 .. MaxStarts
  /\ m_updateThread \in 0 .. starts /\ m_changedDetector = m_updateThread
  /\ \A u \in 1 .. MaxStarts : u > starts => update[u] = "none"
  /\ twoStops \in BOOLEAN /\ broken \in BOOLEAN

\* m_notifiersMutex: one update thread calls the notifiers, all of which are there.
Notifying ==
  /\ \A u, v \in 1 .. MaxStarts : update[u] = "notify" /\ update[v] = "notify" => u = v
  /\ IF \E u \in 1 .. MaxStarts : update[u] = "notify"
       THEN toCall \cup calling \subseteq m_notifiers
       ELSE calling = {}

\* The one Stop that is under way waits for the thread there is, and finds it ended.
OneStop ==
  /\ ~broken
  /\ \A t, u \in Clients \cup Mains : monitorPc[t] \in Stopping /\ monitorPc[u] \in Stopping => t = u
  /\ \A t \in Clients \cup Mains :
       /\ monitorPc[t] \in Stopping => m_updateThread # 0
       /\ monitorPc[t] \in {"wait", "delete"} => awaited[t] = m_updateThread
       /\ monitorPc[t] = "delete" => update[m_updateThread] = "ended"

MonitorInv == MonitorType /\ (twoStops \/ (Notifying /\ OneStop))

\* What the steps of the update threads change: where one of them is.
LEMMA UpdateMoves ==
  ASSUME MonitorInv, NEW u \in 1 .. MaxStarts,
         update[u] \in {"wait", "refresh", "notify"},
         NEW to \in {"wait", "refresh", "notify", "ended"}, update' = [update EXCEPT ![u] = to],
         UNCHANGED <<M!monitor, M!callers, broken>>,
         twoStops \/ Notifying'
  PROVE  MonitorInv'
<1>1. MonitorType'
  BY DEF MonitorInv, MonitorType, M!monitor, M!callers
<1>2. ~twoStops => OneStop'
  BY DEF MonitorInv, MonitorType, OneStop, M!monitor, M!callers
<1>3. QED
  BY <1>1, <1>2 DEF MonitorInv, M!callers

LEMMA UpdateKeeps ==
  ASSUME MonitorInv, NEW u \in 1 .. MaxStarts, M!Changed(u) \/ M!UpdateStep(u)
  PROVE  MonitorInv'
<1>0. UNCHANGED <<M!monitor, M!callers, broken>>
  BY DEF M!UpdateStep, M!Changed, M!Cancelled, M!Unchanged, M!OnInterfacesChanged, M!CallNotifier,
         M!NotifierReturns, M!AllNotified
<1> USE DEF M!UpdateAt
<1>1. CASE M!Changed(u) \/ M!Cancelled(u) \/ M!Unchanged(u)
  <2>1. PICK to \in {"wait", "refresh", "ended"} : /\ update' = [update EXCEPT ![u] = to]
                                                  /\ update[u] \in {"wait", "refresh"}
    BY <1>1 DEF M!Changed, M!Cancelled, M!Unchanged
  <2>2. UNCHANGED <<toCall, calling, m_notifiers>>
    BY <1>0, <1>1 DEF M!Changed, M!Cancelled, M!Unchanged, M!monitor
  <2>3. \A v \in 1 .. MaxStarts : update'[v] = "notify" <=> update[v] = "notify"
    BY <2>1 DEF MonitorInv, MonitorType
  <2>4. Notifying => Notifying'
    BY <2>2, <2>3 DEF Notifying
  <2>5. QED
    BY <1>0, <2>1, <2>4, UpdateMoves DEF MonitorInv
<1>2. CASE M!OnInterfacesChanged(u)
  <2>1. Notifying => Notifying'
    BY <1>2, <1>0 DEF M!OnInterfacesChanged, M!NotifiersFree, M!Updates, Notifying, MonitorInv,
       MonitorType, M!monitor
  <2>2. QED
    BY <1>0, <1>2, <2>1, UpdateMoves DEF M!OnInterfacesChanged, MonitorInv
<1>3. CASE M!CallNotifier(u) \/ M!NotifierReturns(u)
  <2>1. UNCHANGED update /\ update[u] = "notify" /\ toCall' \cup calling' \subseteq toCall \cup calling
    BY <1>3 DEF M!CallNotifier, M!NotifierReturns
  <2>2. Notifying => Notifying'
    BY <1>0, <2>1 DEF Notifying, M!monitor
  <2>3. MonitorType' /\ (OneStop => OneStop')
    BY <1>0, <2>1 DEF MonitorInv, MonitorType, OneStop, M!monitor, M!callers
  <2>4. QED
    BY <1>0, <2>2, <2>3 DEF MonitorInv, M!callers
<1>4. CASE M!AllNotified(u)
  <2>1. Notifying => Notifying'
    BY <1>4, <1>0 DEF M!AllNotified, Notifying, MonitorInv, MonitorType, M!monitor
  <2>2. QED
    BY <1>0, <1>4, <2>1, UpdateMoves DEF M!AllNotified, MonitorInv
<1>5. QED
  BY <1>1, <1>2, <1>3, <1>4 DEF M!UpdateStep

\* AddNotifier starts a thread only when there is none.
LEMMA AddKeeps == ASSUME MonitorInv, NEW c \in Clients, M!AddNotifier(c) PROVE MonitorInv'
<1> USE DEF MonitorInv, MonitorType
<1>0. /\ monitorPc[c] = "out" /\ monitorPc' = [monitorPc EXCEPT ![c] = "in"]
      /\ m_notifiers' = m_notifiers \cup {c}
      /\ UNCHANGED <<cancelled, toCall, calling, awaited, twoStops, broken>>
      /\ \A u \in 1 .. MaxStarts : update[u] # "notify"
  BY DEF M!AddNotifier, M!Goto, M!NotifiersFree, M!Updates
<1>1. CASE M!Start /\ m_changedDetector = 0
  <2>1. /\ starts' = starts + 1 /\ starts' \in 1 .. MaxStarts
        /\ m_changedDetector' = starts' /\ m_updateThread' = starts'
        /\ update' = [update EXCEPT ![starts'] = "wait"]
    BY <1>1, PartsAssumption DEF M!Start, M!MonitorAssumption
  <2>2. MonitorType'
    BY <1>0, <2>1
  <2>3. Notifying => Notifying'
    BY <1>0, <2>1 DEF Notifying
  <2>4. OneStop => OneStop'
    BY <1>0, <1>1, <2>1 DEF OneStop, Stopping
  <2>5. QED
    BY <1>0, <2>2, <2>3, <2>4
<1>2. CASE UNCHANGED <<starts, m_changedDetector, m_updateThread, update>>
  <2>1. MonitorType'
    BY <1>0, <1>2
  <2>2. Notifying => Notifying'
    BY <1>0, <1>2 DEF Notifying
  <2>3. OneStop => OneStop'
    BY <1>0, <1>2 DEF OneStop, Stopping
  <2>4. QED
    BY <1>0, <2>1, <2>2, <2>3
<1>3. QED
  BY <1>1, <1>2 DEF M!AddNotifier

\* No notifier is taken out while notifiers are being called.
LEMMA RemoveKeeps ==
  ASSUME MonitorInv, (\E c \in Clients : M!RemoveNotifier(c)) \/ (\E m \in Mains : M!OnShutdown(m))
  PROVE  MonitorInv'
<1> USE DEF MonitorInv, MonitorType
<1>1. PICK t \in Clients \cup Mains, to \in {"out", "stop"} :
         /\ monitorPc[t] \notin Stopping /\ monitorPc' = [monitorPc EXCEPT ![t] = to]
  BY DEF M!RemoveNotifier, M!OnShutdown, M!Goto, Stopping
<1>2. UNCHANGED <<m_updateThread, m_changedDetector, starts, update, toCall, calling, awaited,
                  twoStops, broken>>
  BY DEF M!RemoveNotifier, M!OnShutdown, M!monitor, M!thread
<1>3. MonitorType'
  BY <1>1, <1>2
<1>4. Notifying => Notifying'
  BY <1>2 DEF Notifying, M!RemoveNotifier, M!OnShutdown, M!NotifiersFree, M!Updates, M!monitor
<1>5. OneStop => OneStop'
  BY <1>1, <1>2 DEF OneStop, Stopping
<1>6. QED
  BY <1>2, <1>3, <1>4, <1>5

\* Each step of a Stop that is alone leads to the next.
LEMMA StopKeeps == ASSUME MonitorInv, NEW t \in Clients \cup Mains, M!StopStep(t) PROVE MonitorInv'
<1> USE DEF MonitorInv, MonitorType
<1>1. CASE M!StopCancels(t)
  <2>1. /\ monitorPc[t] = "stop"
        /\ monitorPc' = [monitorPc EXCEPT ![t] = IF m_updateThread = 0 THEN "out" ELSE "fetch"]
        /\ UNCHANGED <<m_notifiers, m_updateThread, m_changedDetector, starts, update, toCall,
                       calling, awaited, broken>>
    BY <1>1 DEF M!StopCancels, M!Goto, M!thread
  <2>0. twoStops' = (twoStops \/ (m_changedDetector # 0
                      /\ \E u \in Clients \cup Mains : monitorPc[u] \in {"fetch", "wait", "delete"}))
    BY <1>1, Zenon DEF M!StopCancels, M!Threads
  <2>2. MonitorType'
    BY <2>0, <2>1 DEF Stopping
  <2>3. Notifying => Notifying'
    BY <2>1 DEF Notifying
  <2>4. OneStop /\ ~twoStops' => OneStop'
    BY <2>0, <2>1 DEF OneStop, Stopping
  <2>5. QED
    BY <2>0, <2>1, <2>2, <2>3, <2>4
<1>2. CASE M!StopFetches(t)
  <2>1. /\ monitorPc[t] = "fetch" /\ monitorPc' = [monitorPc EXCEPT ![t] = "wait"]
        /\ awaited' = [awaited EXCEPT ![t] = m_updateThread]
        /\ UNCHANGED <<m_notifiers, m_updateThread, m_changedDetector, starts, update, toCall,
                       calling, twoStops>>
    BY <1>2 DEF M!StopFetches, M!Goto, M!monitor, M!thread
  <2>0. broken' = (broken \/ m_updateThread = 0)
    BY <1>2, Zenon DEF M!StopFetches
  <2>2. MonitorType'
    BY <2>0, <2>1 DEF Stopping
  <2>3. Notifying => Notifying'
    BY <2>1 DEF Notifying
  <2>4. OneStop => OneStop'
    BY <2>0, <2>1 DEF OneStop, Stopping
  <2>5. QED
    BY <2>1, <2>2, <2>3, <2>4
<1>3. CASE M!StopWaits(t)
  <2>1. /\ monitorPc[t] = "wait" /\ monitorPc' = [monitorPc EXCEPT ![t] = "delete"]
        /\ update[awaited[t]] = "ended"
        /\ UNCHANGED <<m_notifiers, m_updateThread, m_changedDetector, starts, update, toCall,
                       calling, twoStops, awaited, broken>>
    BY <1>3 DEF M!StopWaits, M!Goto, M!monitor, M!thread
  <2>2. MonitorType'
    BY <2>1 DEF Stopping
  <2>3. Notifying => Notifying'
    BY <2>1 DEF Notifying
  <2>4. OneStop => OneStop'
    BY <2>1 DEF OneStop, Stopping
  <2>5. QED
    BY <2>1, <2>2, <2>3, <2>4
<1>4. CASE M!StopDeletes(t)
  <2>1. /\ monitorPc[t] = "delete" /\ monitorPc' = [monitorPc EXCEPT ![t] = "out"]
        /\ update' = [u \in 1 .. MaxStarts |-> IF u = m_updateThread THEN "deleted" ELSE update[u]]
        /\ m_updateThread' = 0 /\ m_changedDetector' = 0
        /\ awaited' = [awaited EXCEPT ![t] = 0]
        /\ UNCHANGED <<m_notifiers, starts, toCall, calling, twoStops>>
    BY <1>4, Zenon DEF M!StopDeletes, M!Goto, M!Updates
  <2>2. broken' = (broken \/ (m_updateThread # 0 /\ update[m_updateThread] # "ended")
                     \/ \E u \in (Clients \cup Mains) \ {t} :
                            monitorPc[u] = "wait" /\ awaited[u] = m_updateThread)
    BY <1>4, Zenon DEF M!StopDeletes, M!Threads
  <2>3. MonitorType'
    BY <2>1, <2>2 DEF Stopping
  <2>4. ASSUME Notifying, OneStop PROVE Notifying' /\ OneStop'
    <3>1. update[m_updateThread] = "ended"
      BY <2>1, <2>4 DEF OneStop
    <3>2. \A u \in 1 .. MaxStarts : update'[u] = "notify" <=> update[u] = "notify"
      BY <2>1, <3>1
    <3>3. Notifying'
      BY <2>1, <2>4, <3>2 DEF Notifying
    <3>4. ~broken'
      BY <2>1, <2>2, <2>4, <3>1 DEF OneStop, Stopping
    <3>5. \A u \in Clients \cup Mains : monitorPc'[u] \notin Stopping
      BY <2>1, <2>4 DEF OneStop, Stopping
    <3>6. QED
      BY <3>3, <3>4, <3>5 DEF OneStop, Stopping
  <2>5. QED
    BY <2>1, <2>3, <2>4
<1>5. QED
  BY <1>1, <1>2, <1>3, <1>4 DEF M!StopStep

LEMMA MonitorStep == ASSUME MonitorInv, [M!MonitorNext]_(M!monitorVars) PROVE MonitorInv'
<1>1. CASE UNCHANGED M!monitorVars
  BY <1>1 DEF M!monitorVars, M!monitor, M!thread, M!callers, MonitorInv, MonitorType, Notifying,
     OneStop, Stopping
<1>2. QED
  BY <1>1, UpdateKeeps, AddKeeps, RemoveKeeps, StopKeeps DEF M!MonitorNext, M!Threads, M!Updates

\* PInterfaceMonitor: whatever clients come and go, and whenever the process is shut
\* down, a client is not called once RemoveNotifier has returned, and the update thread
\* is deleted when it has ended, as long as no two Stops run at a time.
THEOREM MonitorCallsClients == M!Spec => []NotCalledOnceRemoved
<1>1. M!MonitorInit => MonitorInv
  <2> SUFFICES ASSUME M!MonitorInit PROVE MonitorInv
    OBVIOUS
  <2>0. twoStops \in BOOLEAN /\ broken \in BOOLEAN
    BY Zenon DEF M!MonitorInit
  <2>1. MonitorType
    BY <2>0, PartsAssumption
       DEF M!MonitorInit, M!Threads, M!Updates, M!MonitorAssumption, MonitorType,
       Stopping
  <2>2. Notifying
    BY DEF M!MonitorInit, M!Updates, Notifying
  <2>3. OneStop
    <3>1. ~broken
      BY Zenon DEF M!MonitorInit
    <3>2. QED
      BY <3>1 DEF M!MonitorInit, M!Threads, OneStop, Stopping
  <2>4. QED
    BY <2>1, <2>2, <2>3 DEF MonitorInv
<1>2. MonitorInv => NotCalledOnceRemoved
  BY DEF MonitorInv, Notifying, OneStop, NotCalledOnceRemoved, M!NotCalledOnceRemoved
<1>3. QED
  BY <1>1, <1>2, MonitorStep, PTL DEF M!Spec

-----------------------------------------------------------------------------
(* PMonitoredSocketBundle.                                                 *)

Locked == {"closing", "closed", "unlock"}
Destroying == {"closing", "closed", "sleep"}

BundleType ==
  /\ bundlePc \in [B!Threads ->
       {"idle", "lock", "enter", "poll", "relock", "change", "sleep"} \cup Locked]
  /\ \A r \in BundleReaders : bundlePc[r] \in {"idle", "lock", "enter", "poll", "relock"}
  /\ sockets \in Seq({"open", "closed", "deleted"})
  /\ m_socketInfoMap \in [Ifaces -> [socket : Nat, node : Nat]]
  /\ \A i \in Ifaces : B!InMap(i) => B!SocketOf(i) \in 1 .. Len(sockets)
  /\ m_inUse \in [Ifaces -> BOOLEAN]
  /\ selected \in [BundleReaders -> SUBSET (1 .. Len(sockets))]
  /\ up \subseteq Ifaces
  /\ goal \in [B!Destroyers -> {"none", "open", "close", "add", "remove"}]
  /\ victim \in [B!Destroyers -> [iface : Ifaces \cup {B!Nowhere.iface}, node : Nat]]
  /\ naps \in [B!Destroyers -> Nat]
  /\ \A t \in B!Destroyers : bundlePc[t] = "change" => victim[t].iface \in Ifaces

\* Who has the bundle locked; readers never keep it for more than a step.
Locking ==
  /\ lock \in B!Destroyers \cup {None}
  /\ \A t \in B!Destroyers : lock = t <=> bundlePc[t] \in Locked

\* One thread at a time changes the map, its naps included.
Alone == \A t, u \in B!Destroyers :
           bundlePc[t] \in Locked \cup {"sleep"} /\ bundlePc[u] \in Locked \cup {"sleep"} => t = u

\* The entry it is about to destroy is in the map; it is patient with the reader; and it
\* knows whether the bundle is open.
Victims == \A t \in B!Destroyers :
  /\ bundlePc[t] \in {"closed", "sleep"} =>
       /\ goal[t] \in {"open", "close", "remove"} /\ naps[t] < FailSafe
       /\ victim[t].iface \in Ifaces /\ B!InMap(victim[t].iface) /\ ~B!Erased(victim[t])
  /\ bundlePc[t] = "closing" => goal[t] \in {"open", "close"}
  /\ bundlePc[t] \in Destroying => (m_opened <=> goal[t] # "close")

\* The map: one entry a socket, all that are open are there, none once closed.
Entries ==
  /\ \A i, j \in Ifaces : B!InMap(i) /\ B!InMap(j) /\ B!SocketOf(i) = B!SocketOf(j) => i = j
  /\ \A s \in 1 .. Len(sockets) : sockets[s] = "open" => \E i \in Ifaces : B!SocketOf(i) = s
  /\ ~m_opened /\ B!Settled => \A i \in Ifaces : ~B!InMap(i)

\* What a lone reader waits for is marked as in use.
Reading == (\A r, q \in BundleReaders : r = q) =>
  \A r \in BundleReaders : \A s \in B!InUse(r) :
     /\ sockets[s] # "deleted"
     /\ \A i \in Ifaces : B!InMap(i) /\ B!SocketOf(i) = s => m_inUse[i]

BundleCore == ~erased /\ Alone /\ Victims /\ Entries /\ Reading
BundleInv == BundleType /\ Locking /\ (raced \/ late \/ BundleCore)

LEMMA BundleSets ==
  /\ BundleReaders \cap B!Destroyers = {} /\ B!Threads = BundleReaders \cup B!Destroyers
  /\ None \notin B!Threads /\ Monitor \in B!Destroyers /\ Monitor \notin BundleControllers
  /\ B!Destroyers = BundleControllers \cup {Monitor}
  /\ IsFiniteSet(Ifaces) /\ FailSafe \in Nat \ {0}
<1>1. B!IsFiniteSet(Ifaces) => IsFiniteSet(Ifaces)
  BY DEF B!IsFiniteSet, IsFiniteSet
<1>2. QED
  BY <1>1, PartsAssumption DEF B!BundleAssumption, B!Threads, B!Destroyers

LEMMA SameCardinality == \A s : B!Cardinality(s) = Cardinality(s)
BY DEF B!Cardinality, Cardinality

\* Threads that destroy nothing move, and no socket and no entry changes.
DestroyersStay ==
  /\ UNCHANGED <<lock, m_opened, sockets, m_socketInfoMap, goal, victim, naps>>
  /\ \A t \in B!Destroyers : bundlePc'[t] = bundlePc[t]

LEMMA ReaderMoves ==
  ASSUME BundleInv, DestroyersStay, BundleType',
         raced \/ late => raced' \/ late', ~erased => ~erased', Reading => Reading'
  PROVE  BundleInv'
<1>1. Locking'
  BY DEF BundleInv, Locking, DestroyersStay
<1>2. Alone => Alone'
  BY DEF Alone, DestroyersStay
<1>3. Victims => Victims'
  BY DEF Victims, DestroyersStay, B!InMap, B!Erased
<1>4. Entries => Entries'
  BY DEF Entries, DestroyersStay, B!InMap, B!SocketOf, B!Settled
<1>5. QED
  BY <1>1, <1>2, <1>3, <1>4, Zenon DEF BundleInv, BundleCore

LEMMA ReaderTyped ==
  ASSUME BundleType, UNCHANGED <<sockets, m_socketInfoMap, goal, victim, naps, up>>,
         NEW r \in BundleReaders, NEW to \in {"idle", "lock", "enter", "poll", "relock"},
         bundlePc' = [bundlePc EXCEPT ![r] = to], m_inUse' \in [Ifaces -> BOOLEAN],
         selected' \in [BundleReaders -> SUBSET (1 .. Len(sockets))]
  PROVE  BundleType'
<1>1. bundlePc' \in [B!Threads -> {"idle", "lock", "enter", "poll", "relock", "change", "sleep"}
                                \cup Locked]
  BY BundleSets DEF BundleType
<1>2. \A q \in BundleReaders : bundlePc'[q] \in {"idle", "lock", "enter", "poll", "relock"}
  BY BundleSets DEF BundleType
<1>3. \A t \in B!Destroyers : bundlePc'[t] = bundlePc[t]
  BY BundleSets DEF BundleType
<1>4. QED
  BY <1>1, <1>2, <1>3 DEF BundleType, B!InMap, B!SocketOf, B!Nowhere

\* What Collect does, with the entries a reader has seen to be free.
LEMMA CollectKeeps ==
  ASSUME BundleInv, NEW r \in BundleReaders, DestroyersStay, BundleType => BundleType',
         UNCHANGED <<raced, late>>, ~erased => ~erased',
         B!Collect(r, {i \in Ifaces : B!InMap(i)})
  PROVE  BundleInv'
<1>1. BundleType'
  BY DEF BundleInv
<1>2. ~(raced \/ late) => (Reading => Reading')
  <2> SUFFICES ASSUME ~(raced \/ late), \A q, u \in BundleReaders : q = u,
                      NEW s \in B!InUse(r)'
               PROVE  /\ sockets'[s] # "deleted"
                      /\ \A i \in Ifaces : B!InMap(i)' /\ B!SocketOf(i)' = s => m_inUse'[i]
    BY DEF Reading
  <2>1. PICK k \in Ifaces : B!InMap(k) /\ s = B!SocketOf(k) /\ sockets[s] = "open"
    BY DEF B!Collect, B!InUse, BundleInv, BundleType
  <2>2. m_inUse'[k]
    BY <2>1 DEF B!Collect
  <2>3. Entries
    BY Zenon DEF BundleInv, BundleCore
  <2>4. QED
    BY <2>1, <2>2, <2>3 DEF Entries, DestroyersStay, B!InMap, B!SocketOf
<1>3. CASE raced \/ late
  <2>1. Locking'
    BY DEF BundleInv, Locking, DestroyersStay
  <2>2. QED
    BY <1>1, <1>3, <2>1, Zenon DEF BundleInv
<1>4. CASE ~(raced \/ late)
  BY <1>1, <1>2, <1>4, ReaderMoves, Zenon
<1>5. QED
  BY <1>3, <1>4

\* The steps of a reader: it changes which entries are in use and nothing of the map.
LEMMA ReaderKeeps ==
  ASSUME BundleInv, NEW r \in BundleReaders,
         B!ReadFromBundle(r) \/ B!SelectEnds(r) \/ B!ReaderStep(r)
  PROVE  BundleInv'
<1> USE BundleSets
<1>0. /\ r \notin B!Destroyers
      /\ bundlePc \in [B!Threads ->
           {"idle", "lock", "enter", "poll", "relock", "change", "sleep"} \cup Locked]
  BY DEF BundleInv, BundleType
<1>1. CASE B!ReadFromBundle(r) \/ B!EnterSelect(r)
  <2>1. /\ DestroyersStay /\ UNCHANGED <<m_inUse, selected, up>>
        /\ \/ bundlePc[r] = "idle" /\ bundlePc' = [bundlePc EXCEPT ![r] = "lock"]
           \/ bundlePc[r] = "enter" /\ bundlePc' = [bundlePc EXCEPT ![r] = "poll"]
    BY <1>0, <1>1 DEF B!ReadFromBundle, B!EnterSelect, B!Goto, B!bundle, B!changer, B!table,
       B!reader, DestroyersStay
  <2>2. UNCHANGED <<raced, late, erased>>
    BY <1>1 DEF B!ReadFromBundle, B!EnterSelect, B!record
  <2>3. BundleType'
    <3>1. /\ m_inUse' \in [Ifaces -> BOOLEAN]
          /\ selected' \in [BundleReaders -> SUBSET (1 .. Len(sockets))]
      BY <2>1 DEF BundleInv, BundleType
    <3>2. QED
      BY <2>1, <3>1, ReaderTyped DEF BundleInv, DestroyersStay
  <2>4. Reading => Reading'
    BY <1>0, <2>1 DEF Reading, B!InUse, DestroyersStay, B!InMap, B!SocketOf
  <2>5. QED
    BY <2>1, <2>2, <2>3, <2>4, ReaderMoves, Zenon
<1>2. CASE B!SelectEnds(r) \/ B!SelectAborted(r)
  <2>1. DestroyersStay /\ UNCHANGED <<m_inUse, selected, up>> /\ bundlePc[r] = "poll"
        /\ bundlePc' = [bundlePc EXCEPT ![r] = "relock"]
    BY <1>0, <1>2 DEF B!SelectEnds, B!SelectAborted, B!Select, B!Goto, B!bundle, B!changer,
       B!table, DestroyersStay
  <2>2. UNCHANGED <<raced, late, erased>>
    BY <1>2 DEF B!SelectEnds, B!SelectAborted, B!Select, B!record
  <2>3. BundleType'
    <3>1. /\ m_inUse' \in [Ifaces -> BOOLEAN]
          /\ selected' \in [BundleReaders -> SUBSET (1 .. Len(sockets))]
      BY <2>1 DEF BundleInv, BundleType
    <3>2. QED
      BY <2>1, <3>1, ReaderTyped DEF BundleInv, DestroyersStay
  <2>4. Reading => Reading'
    BY <1>0, <2>1 DEF Reading, B!InUse, DestroyersStay, B!InMap, B!SocketOf
  <2>5. QED
    BY <2>1, <2>2, <2>3, <2>4, ReaderMoves, Zenon
<1>3. CASE B!StartRead(r)
  <2>1. /\ bundlePc[r] = "lock"
        /\ UNCHANGED <<lock, m_opened, sockets, m_socketInfoMap, goal, victim, naps, up>>
    BY <1>3 DEF B!StartRead, B!changer, B!table
  <2>2. UNCHANGED <<raced, late, erased>>
    BY <1>3 DEF B!StartRead, B!record
  <2>3. CASE B!Collect(r, {i \in Ifaces : B!InMap(i)})
    <3>1. DestroyersStay
      BY <1>0, <2>1, <2>3 DEF B!Collect, DestroyersStay
    <3>2. BundleType => BundleType'
      <4> SUFFICES ASSUME BundleType PROVE BundleType'
        OBVIOUS
      <4>1. m_inUse' \in [Ifaces -> BOOLEAN]
        BY <2>3 DEF B!Collect
      <4>2. selected' \in [BundleReaders -> SUBSET (1 .. Len(sockets))]
        BY <2>3 DEF B!Collect, BundleType
      <4>3. QED
        BY <2>1, <2>3, <4>1, <4>2, ReaderTyped DEF B!Collect
    <3>3. QED
      BY <2>2, <2>3, <3>1, <3>2, CollectKeeps
  <2>4. CASE /\ bundlePc' = [bundlePc EXCEPT ![r] = "idle"]
             /\ \E before \in SUBSET Ifaces : m_inUse' = [i \in Ifaces |-> m_inUse[i] \/ i \in before]
             /\ UNCHANGED selected
    <3>1. DestroyersStay
      BY <1>0, <2>1, <2>4 DEF DestroyersStay
    <3>2. BundleType'
      <4>1. /\ m_inUse' \in [Ifaces -> BOOLEAN]
            /\ selected' \in [BundleReaders -> SUBSET (1 .. Len(sockets))]
        BY <2>4 DEF BundleInv, BundleType
      <4>2. QED
        BY <2>1, <2>4, <4>1, ReaderTyped DEF BundleInv
    <3>3. Reading => Reading'
      BY <1>0, <2>1, <2>4 DEF Reading, B!InUse, B!InMap, B!SocketOf
    <3>4. QED
      BY <2>2, <3>1, <3>2, <3>3, ReaderMoves, Zenon
  <2>5. QED
    BY <1>3, <2>3, <2>4 DEF B!StartRead
<1>4. CASE B!ReadAfterSelect(r)
  <2>1. /\ bundlePc[r] = "relock"
        /\ UNCHANGED <<lock, m_opened, sockets, m_socketInfoMap, goal, victim, naps, up>>
    BY <1>4 DEF B!ReadAfterSelect, B!changer, B!table
  <2>2. UNCHANGED <<raced, late>> /\ (~erased => ~erased')
    BY <1>4, Zenon DEF B!ReadAfterSelect
  <2>3. CASE B!Collect(r, {i \in Ifaces : B!InMap(i)})
    <3>1. DestroyersStay
      BY <1>0, <2>1, <2>3 DEF B!Collect, DestroyersStay
    <3>2. BundleType => BundleType'
      <4> SUFFICES ASSUME BundleType PROVE BundleType'
        OBVIOUS
      <4>1. m_inUse' \in [Ifaces -> BOOLEAN]
        BY <2>3 DEF B!Collect
      <4>2. selected' \in [BundleReaders -> SUBSET (1 .. Len(sockets))]
        BY <2>3 DEF B!Collect, BundleType
      <4>3. QED
        BY <2>1, <2>3, <4>1, <4>2, ReaderTyped DEF B!Collect
    <3>3. QED
      BY <2>2, <2>3, <3>1, <3>2, CollectKeeps
  <2>4. CASE /\ bundlePc' = [bundlePc EXCEPT ![r] = "idle"]
             /\ \E kept \in SUBSET Ifaces : m_inUse' = [i \in Ifaces |-> m_inUse[i] /\ i \in kept]
             /\ selected' = [selected EXCEPT ![r] = {}]
    <3>1. DestroyersStay
      BY <1>0, <2>1, <2>4 DEF DestroyersStay
    <3>2. BundleType'
      <4>1. /\ m_inUse' \in [Ifaces -> BOOLEAN]
            /\ selected' \in [BundleReaders -> SUBSET (1 .. Len(sockets))]
        BY <2>4 DEF BundleInv, BundleType
      <4>2. QED
        BY <2>1, <2>4, <4>1, ReaderTyped DEF BundleInv
    <3>3. Reading'
      BY <1>0, <2>1, <2>4 DEF Reading, B!InUse
    <3>4. QED
      BY <2>2, <3>1, <3>2, <3>3, ReaderMoves, Zenon
  <2>5. ASSUME m_inUse' = [i \in Ifaces |-> m_inUse[i] /\ (i \notin {j \in Ifaces : B!InMap(j)} \/ FALSE)]
        PROVE  \E kept \in SUBSET Ifaces : m_inUse' = [i \in Ifaces |-> m_inUse[i] /\ i \in kept]
    <3>1. WITNESS Ifaces \ {j \in Ifaces : B!InMap(j)} \in SUBSET Ifaces
    <3>2. QED
      BY <2>5
  <2>6. QED
    BY <1>4, <2>3, <2>4, <2>5 DEF B!ReadAfterSelect
<1>5. QED
  BY <1>1, <1>2, <1>3, <1>4 DEF B!ReaderStep

\* OpenSockets numbers the new sockets one after the other, each with its entry.
LEMMA Numbered ==
  ASSUME NEW free \in SUBSET Ifaces
  PROVE  /\ B!Cardinality(free) \in Nat
         /\ \E f \in [free -> 1 .. B!Cardinality(free)] : \A i, j \in free : i # j => f[i] # f[j]
         /\ \A f \in [free -> 1 .. B!Cardinality(free)] :
              (\A i, j \in free : i # j => f[i] # f[j])
              => \A n \in 1 .. B!Cardinality(free) : \E i \in free : f[i] = n
<1> DEFINE size == B!Cardinality(free)
<1>1. IsFiniteSet(free) /\ size = Cardinality(free)
  BY BundleSets, SameCardinality, FS_Subset
<1>2. size \in Nat
  BY <1>1, FS_CardinalityType
<1>3. IsFiniteSet(1 .. size) /\ Cardinality(1 .. size) = size
  BY <1>2, FS_Interval
<1>4. PICK f \in Bijection(free, 1 .. size) : TRUE
  BY <1>1, <1>3, FS_SameCardinalityBij DEF ExistsBijection
<1>5. f \in [free -> 1 .. size] /\ \A i, j \in free : i # j => f[i] # f[j]
  BY <1>4 DEF Bijection, Injection, IsInjective
<1>6. ASSUME NEW g \in [free -> 1 .. size], \A i, j \in free : i # j => g[i] # g[j]
      PROVE  \A n \in 1 .. size : \E i \in free : g[i] = n
  <2>1. g \in Injection(free, 1 .. size)
    BY <1>6 DEF Injection, IsInjective
  <2>2. g \in Surjection(free, 1 .. size)
    BY <1>1, <1>3, <2>1, FS_Injection
  <2>3. QED
    BY <2>2 DEF Surjection
<1>7. QED
  BY <1>2, <1>5, <1>6

\* The entries in free get new sockets, the one of i being the number[i]th ever made.
Opened(free, number) ==
  /\ sockets' \in Seq({"open", "closed", "deleted"}) /\ Len(sockets') >= Len(sockets)
  /\ \A n \in 1 .. Len(sockets) : sockets'[n] = sockets[n]
  /\ \A n \in Len(sockets) + 1 .. Len(sockets') :
        sockets'[n] = "open" /\ \E i \in free : number[i] = n
  /\ \A i \in free : number[i] \in Len(sockets) + 1 .. Len(sockets')
  /\ \A i, j \in free : number[i] = number[j] => i = j
  /\ \A i \in free : B!InMap(i) => sockets[B!SocketOf(i)] # "open"
  /\ m_socketInfoMap' = [i \in Ifaces |->
       IF i \in free THEN [socket |-> number[i],
                          node |-> IF B!InMap(i) THEN m_socketInfoMap[i].node ELSE number[i]]
                    ELSE m_socketInfoMap[i]]
  /\ m_inUse' = [i \in Ifaces |-> m_inUse[i] /\ i \notin free]

LEMMA OpenSocketsFacts ==
  ASSUME BundleType, NEW ifaces \in SUBSET Ifaces, B!OpenSockets(ifaces)
  PROVE  \E free \in SUBSET ifaces, number \in [Ifaces -> Nat] : Opened(free, number)
<1> DEFINE free == {i \in ifaces : B!InMap(i) => FALSE \/ sockets[B!SocketOf(i)] # "open"}
           f == CHOOSE g \in [free -> 1 .. B!Cardinality(free)] :
                  \A i, j \in free : i # j => g[i] # g[j]
           size == B!Cardinality(free)
           new == [n \in 1 .. size |-> "open"]
           number == [i \in Ifaces |-> IF i \in free THEN Len(sockets) + f[i] ELSE 0]
<1>1. /\ sockets' = sockets \o new
      /\ m_socketInfoMap' = [i \in Ifaces |->
           IF i \in free THEN [socket |-> Len(sockets) + f[i],
                              node |-> IF B!InMap(i) THEN m_socketInfoMap[i].node
                                                     ELSE Len(sockets) + f[i]]
                        ELSE m_socketInfoMap[i]]
      /\ m_inUse' = [i \in Ifaces |-> m_inUse[i] /\ i \notin free]
  BY Zenon DEF B!OpenSockets
<1>2. free \in SUBSET ifaces /\ free \in SUBSET Ifaces
      /\ \A i \in free : B!InMap(i) => sockets[B!SocketOf(i)] # "open"
  OBVIOUS
<1> HIDE DEF free
<1>3. f = CHOOSE g \in [free -> 1 .. B!Cardinality(free)] :
                  \A i, j \in free : i # j => g[i] # g[j]
  OBVIOUS
<1> HIDE DEF f
<1>4. /\ size \in Nat /\ f \in [free -> 1 .. size]
      /\ \A i, j \in free : f[i] = f[j] => i = j
      /\ \A n \in 1 .. size : \E i \in free : f[i] = n
  <2>1. \E g \in [free -> 1 .. B!Cardinality(free)] : \A i, j \in free : i # j => g[i] # g[j]
    BY <1>2, Numbered
  <2>2. f \in [free -> 1 .. B!Cardinality(free)] /\ \A i, j \in free : i # j => f[i] # f[j]
    BY <1>3, <2>1
  <2>3. QED
    BY <1>2, <2>2, Numbered
<1> HIDE DEF size
<1>5. sockets \in Seq({"open", "closed", "deleted"}) /\ Len(sockets) \in Nat
  BY DEF BundleType
<1>6. new \in Seq({"open", "closed", "deleted"}) /\ Len(new) = size
  BY <1>4
<1>7. /\ sockets' \in Seq({"open", "closed", "deleted"})
      /\ Len(sockets') = Len(sockets) + size
      /\ \A n \in 1 .. Len(sockets) : sockets'[n] = sockets[n]
      /\ \A n \in Len(sockets) + 1 .. Len(sockets) + size : sockets'[n] = "open"
  BY <1>1, <1>4, <1>5, <1>6
<1>8. \A n \in Len(sockets) + 1 .. Len(sockets) + size : \E i \in free : number[i] = n
  <2> TAKE n \in Len(sockets) + 1 .. Len(sockets) + size
  <2>1. n - Len(sockets) \in 1 .. size
    BY <1>4, <1>5
  <2>2. PICK i \in free : f[i] = n - Len(sockets)
    BY <1>4, <2>1
  <2>3. QED
    BY <1>2, <1>4, <1>5, <2>2
<1>9. /\ number \in [Ifaces -> Nat]
      /\ \A i \in free : number[i] \in Len(sockets) + 1 .. Len(sockets) + size
      /\ \A i, j \in free : number[i] = number[j] => i = j
  BY <1>2, <1>4, <1>5
<1>10. m_socketInfoMap' = [i \in Ifaces |->
           IF i \in free THEN [socket |-> number[i],
                              node |-> IF B!InMap(i) THEN m_socketInfoMap[i].node ELSE number[i]]
                        ELSE m_socketInfoMap[i]]
  BY <1>1
<1>11. /\ \A n \in Len(sockets) + 1 .. Len(sockets') :
             sockets'[n] = "open" /\ \E i \in free : number[i] = n
       /\ \A i \in free : number[i] \in Len(sockets) + 1 .. Len(sockets')
  BY <1>7, <1>8, <1>9
<1>12. Len(sockets') >= Len(sockets)
  BY <1>4, <1>5, <1>7
<1> HIDE DEF number, new
<1> free \in SUBSET ifaces /\ number \in [Ifaces -> Nat]
  BY <1>2, <1>9
<1>13. WITNESS free \in SUBSET ifaces, number \in [Ifaces -> Nat]
<1>14. QED
  BY <1>1, <1>2, <1>7, <1>9, <1>10, <1>11, <1>12, Zenon DEF Opened

ReadersStay == UNCHANGED selected /\ \A r \in BundleReaders : bundlePc'[r] = bundlePc[r]

LEMMA CoreKept ==
  ASSUME BundleInv, BundleType', Locking', raced \/ late => raced' \/ late',
         ~(raced' \/ late') /\ BundleCore => BundleCore'
  PROVE  BundleInv'
BY Zenon DEF BundleInv

LEMMA AloneKept ==
  ASSUME BundleType, Alone, NEW t \in B!Destroyers,
         NEW to, bundlePc' = [bundlePc EXCEPT ![t] = to],
         bundlePc[t] \in Locked \cup {"sleep"} \/ to \notin Locked \cup {"sleep"}
  PROVE  Alone'
<1>1. \A u \in B!Destroyers : bundlePc'[u] \in Locked \cup {"sleep"}
                            => bundlePc[u] \in Locked \cup {"sleep"}
  BY BundleSets DEF BundleType
<1>2. QED
  BY <1>1 DEF Alone

\* Type correctness of the steps that leave the map as it is.
DestroyersTyped ==
  /\ goal \in [B!Destroyers -> {"none", "open", "close", "add", "remove"}]
  /\ victim \in [B!Destroyers -> [iface : Ifaces \cup {B!Nowhere.iface}, node : Nat]]
  /\ naps \in [B!Destroyers -> Nat]
  /\ \A t \in B!Destroyers : bundlePc[t] = "change" => victim[t].iface \in Ifaces

LEMMA TypeKept ==
  ASSUME BundleType, UNCHANGED <<sockets, m_socketInfoMap, m_inUse, selected, up>>,
         NEW t \in B!Destroyers, NEW to \in {"idle", "change", "sleep"} \cup Locked,
         bundlePc' = [bundlePc EXCEPT ![t] = to], DestroyersTyped'
  PROVE  BundleType'
<1>1. bundlePc' \in [B!Threads ->
        {"idle", "lock", "enter", "poll", "relock", "change", "sleep"} \cup Locked]
  BY BundleSets DEF BundleType
<1>2. \A r \in BundleReaders : bundlePc'[r] \in {"idle", "lock", "enter", "poll", "relock"}
  BY BundleSets DEF BundleType
<1>3. QED
  BY <1>1, <1>2 DEF BundleType, DestroyersTyped, B!InMap, B!SocketOf, B!Nowhere

\* Open and Close begin: unless somebody sleeps beside the map nobody else is at it.
LEMMA CallsKeep ==
  ASSUME BundleInv, NEW c \in BundleControllers, B!CallOpen(c) \/ B!CallClose(c)
  PROVE  BundleInv'
<1> USE BundleSets
<1>0. BundleType /\ Locking /\ c \in B!Destroyers
  BY DEF BundleInv
<1>1. /\ bundlePc[c] = "idle" /\ bundlePc' = [bundlePc EXCEPT ![c] = "closing"]
      /\ lock = None /\ lock' = c
      /\ UNCHANGED <<sockets, m_socketInfoMap, m_inUse, victim, naps, selected, up>>
      /\ \/ m_opened' /\ goal' = [goal EXCEPT ![c] = "open"]
         \/ ~m_opened' /\ goal' = [goal EXCEPT ![c] = "close"]
  <2>1. CASE B!CallOpen(c)
    <3>1. m_opened'
      BY <2>1, Zenon DEF B!CallOpen
    <3>2. QED
      BY <2>1, <3>1 DEF B!CallOpen, B!Goto, B!Locks, B!reader
  <2>2. CASE B!CallClose(c)
    <3>1. ~m_opened'
      BY <2>2, Zenon DEF B!CallClose
    <3>2. QED
      BY <2>2, <3>1 DEF B!CallClose, B!Goto, B!Locks, B!reader, B!table
  <2>3. QED
    BY <2>1, <2>2
<1>2. BundleType'
  <2>1. DestroyersTyped'
    BY <1>0, <1>1 DEF BundleType, DestroyersTyped, B!Nowhere
  <2>2. QED
    BY <1>0, <1>1, <2>1, TypeKept DEF Locked
<1>3. Locking'
  BY <1>0, <1>1 DEF BundleType, Locking, Locked
<1>4. /\ UNCHANGED <<late, erased>> /\ (raced => raced')
      /\ ~raced' => \A u \in B!Destroyers \ {c} : bundlePc[u] # "sleep"
  BY Zenon DEF B!CallOpen, B!CallClose, B!Race
<1>5. ASSUME ~raced', BundleCore PROVE Alone' /\ Victims' /\ Entries' /\ Reading'
  <2>1. \A u \in B!Destroyers \ {c} : /\ bundlePc'[u] = bundlePc[u] /\ goal'[u] = goal[u]
                                     /\ bundlePc[u] \notin Locked \cup {"sleep"}
    BY <1>0, <1>1, <1>4, <1>5 DEF BundleType, Locking
  <2>2. Alone'
    BY <2>1 DEF Alone
  <2>3. Victims'
    BY <1>0, <1>1, <1>5, <2>1
       DEF BundleType, BundleCore, Victims, Locked, Destroying, B!InMap, B!Erased
  <2>4. Entries'
    BY <1>0, <1>1, <1>5 DEF BundleType, BundleCore, Entries, B!InMap, B!SocketOf, B!Settled
  <2>5. Reading'
    BY <1>0, <1>1, <1>5 DEF BundleType, BundleCore, Reading, B!InUse, B!InMap, B!SocketOf
  <2>6. QED
    BY <2>2, <2>3, <2>4, <2>5
<1>6. ~(raced' \/ late') /\ BundleCore => BundleCore'
  BY <1>4, <1>5, Zenon DEF BundleCore
<1>7. QED
  BY <1>2, <1>3, <1>4, <1>6, CoreKept, Zenon

\* A socket is closed; its entry is the next to be destroyed.
LEMMA CloseNextKeeps ==
  ASSUME BundleInv, NEW c \in BundleControllers, B!CloseNext(c)
  PROVE  BundleInv'
<1> USE BundleSets
<1>0. BundleType /\ Locking /\ c \in B!Destroyers
  BY DEF BundleInv
<1>1. PICK i \in Ifaces : B!InMap(i) /\ B!CloseSocket(c, i)
  BY DEF B!CloseNext
<1>2. /\ bundlePc[c] = "closing" /\ bundlePc' = [bundlePc EXCEPT ![c] = "closed"]
      /\ UNCHANGED <<lock, m_opened, m_socketInfoMap, m_inUse, goal, selected, up>>
      /\ victim' = [victim EXCEPT ![c] = B!Entry(i)] /\ naps' = [naps EXCEPT ![c] = 0]
      /\ sockets' = [sockets EXCEPT ![B!SocketOf(i)] = "closed"]
  BY <1>1 DEF B!CloseNext, B!CloseSocket, B!reader, B!table
<1>3. /\ sockets' \in Seq({"open", "closed", "deleted"}) /\ Len(sockets') = Len(sockets)
      /\ \A s \in 1 .. Len(sockets) : sockets'[s] = IF s = B!SocketOf(i) THEN "closed" ELSE sockets[s]
      /\ B!SocketOf(i) \in 1 .. Len(sockets)
  BY <1>0, <1>1, <1>2 DEF BundleType
<1>4. BundleType'
  BY <1>0, <1>2, <1>3 DEF BundleType, Locked, B!InMap, B!SocketOf, B!Entry
<1>5. Locking'
  BY <1>0, <1>2 DEF BundleType, Locking, Locked
<1>6. UNCHANGED <<raced, late, erased>>
  BY DEF B!CloseNext, B!record
<1>7. ASSUME BundleCore PROVE Alone' /\ Victims' /\ Entries' /\ Reading'
  <2>1. Alone'
    BY <1>0, <1>2, <1>7, AloneKept DEF BundleCore, Locked
  <2>2. Victims'
    BY <1>0, <1>1, <1>2, <1>7
       DEF BundleType, BundleCore, Victims, Destroying, B!InMap, B!Erased, B!Entry
  <2>3. Entries'
    BY <1>0, <1>2, <1>3, <1>7 DEF BundleType, BundleCore, Entries, B!InMap, B!SocketOf, B!Settled
  <2>4. Reading'
    BY <1>0, <1>2, <1>3, <1>7 DEF BundleType, BundleCore, Reading, B!InUse, B!InMap, B!SocketOf
  <2>5. QED
    BY <2>1, <2>2, <2>3, <2>4
<1>8. QED
  BY <1>4, <1>5, <1>6, <1>7, CoreKept, Zenon DEF BundleCore

\* CloseSignal leaves everything but the signal as it is.
LEMMA CloseSignalKeeps ==
  ASSUME BundleInv, NEW c \in BundleControllers, B!CloseSignal(c)
  PROVE  BundleInv'
<1> USE BundleSets
<1>0. BundleType /\ Locking /\ c \in B!Destroyers
  BY DEF BundleInv
<1>1. /\ goal[c] = "close" /\ bundlePc[c] = "closing"
      /\ bundlePc' = [bundlePc EXCEPT ![c] = "unlock"]
      /\ \A i \in Ifaces : ~B!InMap(i)
      /\ UNCHANGED <<lock, m_opened, sockets, m_socketInfoMap, m_inUse, selected, up, goal, victim, naps>>
  BY DEF B!CloseSignal, B!Goto, B!changer, B!reader, B!table
<1>2. BundleType'
  <2>1. DestroyersTyped'
    BY <1>0, <1>1 DEF BundleType, DestroyersTyped, B!Nowhere
  <2>2. QED
    BY <1>0, <1>1, <2>1, TypeKept DEF Locked
<1>3. Locking'
  BY <1>0, <1>1 DEF BundleType, Locking, Locked
<1>4. UNCHANGED <<raced, late, erased>>
  BY DEF B!CloseSignal, B!record
<1>5. ASSUME BundleCore PROVE Alone' /\ Victims' /\ Entries' /\ Reading'
  <2>1. Alone'
    BY <1>0, <1>1, <1>5, AloneKept DEF BundleCore, Locked
  <2>2. Victims'
    BY <1>0, <1>1, <1>5 DEF BundleType, BundleCore, Victims, Destroying, B!InMap, B!Erased
  <2>3. Entries'
    BY <1>0, <1>1, <1>5 DEF BundleType, BundleCore, Entries, B!InMap, B!SocketOf, B!Settled
  <2>4. Reading'
    BY <1>0, <1>1, <1>5 DEF BundleType, BundleCore, Reading, B!InUse, B!InMap, B!SocketOf
  <2>5. QED
    BY <2>1, <2>2, <2>3, <2>4
<1>6. QED
  BY <1>2, <1>3, <1>4, <1>5, CoreKept, Zenon DEF BundleCore

\* New sockets take only the place of closed ones, which no reader waits for any more
\* once they are out of the map, and which nobody deletes.
LEMMA OpeningKeeps ==
  ASSUME BundleType, NEW ifaces \in SUBSET Ifaces, B!OpenSockets(ifaces), ReadersStay
  PROVE  /\ sockets' \in Seq({"open", "closed", "deleted"}) /\ Len(sockets') >= Len(sockets)
         /\ m_socketInfoMap' \in [Ifaces -> [socket : Nat, node : Nat]]
         /\ \A i \in Ifaces : B!InMap(i)' => B!SocketOf(i)' \in 1 .. Len(sockets')
         /\ m_inUse' \in [Ifaces -> BOOLEAN]
         /\ selected' \in [BundleReaders -> SUBSET (1 .. Len(sockets'))]
         /\ m_opened' /\ Entries => Entries'
         /\ Reading => Reading'
<1>0. PICK free \in SUBSET ifaces, number \in [Ifaces -> Nat] : Opened(free, number)
  BY OpenSocketsFacts
<1>1. Opened(free, number)
  BY <1>0
<1> USE DEF Opened
<1>2. /\ Len(sockets) \in Nat /\ Len(sockets') \in Nat
      /\ m_socketInfoMap \in [Ifaces -> [socket : Nat, node : Nat]]
  BY <1>1 DEF BundleType
<1>3. m_socketInfoMap' \in [Ifaces -> [socket : Nat, node : Nat]]
  BY <1>1, <1>2
<1>4. \A i \in Ifaces : /\ i \in free => B!SocketOf(i)' = number[i] /\ B!InMap(i)'
                        /\ i \notin free => B!SocketOf(i)' = B!SocketOf(i) /\ (B!InMap(i)' <=> B!InMap(i))
  BY <1>1, <1>2 DEF B!SocketOf, B!InMap, B!Absent
<1>5. \A i \in Ifaces : B!InMap(i) => B!SocketOf(i) \in 1 .. Len(sockets)
  BY DEF BundleType
<1>6. \A i \in Ifaces : B!InMap(i)' => B!SocketOf(i)' \in 1 .. Len(sockets')
  BY <1>1, <1>2, <1>4, <1>5
<1>7. m_inUse' \in [Ifaces -> BOOLEAN]
  BY <1>1
<1>8. selected' \in [BundleReaders -> SUBSET (1 .. Len(sockets'))]
  BY <1>1, <1>2 DEF BundleType, ReadersStay
<1>9. ASSUME m_opened', Entries PROVE Entries'
  <2>1. \A i, j \in Ifaces : B!InMap(i)' /\ B!InMap(j)' /\ B!SocketOf(i)' = B!SocketOf(j)' => i = j
    BY <1>1, <1>2, <1>4, <1>5, <1>9 DEF Entries
  <2>2. ASSUME NEW s \in 1 .. Len(sockets'), sockets'[s] = "open"
        PROVE  \E i \in Ifaces : B!SocketOf(i)' = s
    <3>1. CASE s \in Len(sockets) + 1 .. Len(sockets')
      BY <1>1, <1>4, <3>1
    <3>2. CASE s \in 1 .. Len(sockets)
      <4>1. sockets[s] = "open"
        BY <1>1, <2>2, <3>2
      <4>2. PICK i \in Ifaces : B!SocketOf(i) = s
        BY <1>9, <3>2, <4>1 DEF Entries
      <4>3. B!InMap(i)
        BY <1>2, <3>2, <4>2 DEF B!InMap, B!SocketOf, B!Absent
      <4>4. i \notin free
        BY <1>1, <4>1, <4>2, <4>3
      <4>5. QED
        BY <1>4, <4>2, <4>4
    <3>3. QED
      BY <1>2, <3>1, <3>2
  <2>3. QED
    BY <1>9, <2>1, <2>2 DEF Entries
<1>10. ASSUME Reading, \A r, q \in BundleReaders : r = q,
              NEW r \in BundleReaders, NEW s \in B!InUse(r)'
       PROVE  /\ sockets'[s] # "deleted"
              /\ \A i \in Ifaces : B!InMap(i)' /\ B!SocketOf(i)' = s => m_inUse'[i]
  <2>1. s \in B!InUse(r) /\ s \in 1 .. Len(sockets)
    BY <1>10 DEF ReadersStay, B!InUse, BundleType
  <2>2. sockets[s] # "deleted" /\ \A i \in Ifaces : B!InMap(i) /\ B!SocketOf(i) = s => m_inUse[i]
    BY <1>10, <2>1 DEF Reading
  <2>3. \A i \in Ifaces : B!SocketOf(i)' = s => i \notin free
    BY <1>1, <1>2, <1>4, <2>1
  <2>4. sockets'[s] # "deleted"
    BY <1>1, <2>1, <2>2
  <2>5. ASSUME NEW i \in Ifaces, B!InMap(i)', B!SocketOf(i)' = s PROVE m_inUse'[i]
    <3>1. i \notin free
      BY <2>3, <2>5
    <3>2. m_inUse[i]
      BY <1>4, <2>2, <2>5, <3>1
    <3>3. QED
      BY <1>1, <3>1, <3>2
  <2>6. QED
    BY <2>4, <2>5
<1>11. Reading => Reading'
  BY <1>10 DEF Reading
<1>12. QED
  BY <1>1, <1>3, <1>6, <1>7, <1>8, <1>9, <1>11

\* The lock is given up.
LEMMA LeaveKeeps ==
  ASSUME BundleInv, NEW t \in B!Destroyers, B!Leave(t)
  PROVE  BundleInv'
<1> USE BundleSets
<1>0. BundleType /\ Locking
  BY DEF BundleInv
<1>1. /\ bundlePc[t] = "unlock" /\ bundlePc' = [bundlePc EXCEPT ![t] = "idle"]
      /\ lock = t /\ lock' = None
      /\ UNCHANGED <<m_opened, sockets, m_socketInfoMap, m_inUse, selected, up>>
      /\ goal' = [goal EXCEPT ![t] = "none"] /\ victim' = [victim EXCEPT ![t] = B!Nowhere]
      /\ naps' = [naps EXCEPT ![t] = 0]
  BY DEF B!Leave, B!Goto, B!Unlocks, B!bundle, B!reader, B!table
<1>2. BundleType'
  <2>1. DestroyersTyped'
    BY <1>0, <1>1 DEF BundleType, DestroyersTyped, B!Nowhere
  <2>2. QED
    BY <1>0, <1>1, <2>1, TypeKept
<1>3. Locking'
  BY <1>0, <1>1 DEF BundleType, Locking, Locked
<1>4. UNCHANGED <<raced, late, erased>>
  BY DEF B!Leave, B!record
<1>5. ASSUME BundleCore PROVE Alone' /\ Victims' /\ Entries' /\ Reading'
  <2>1. Alone'
    BY <1>0, <1>1, <1>5, AloneKept DEF BundleCore, Locked
  <2>2. Victims'
    BY <1>0, <1>1, <1>5 DEF BundleType, BundleCore, Victims, Destroying, B!InMap, B!Erased
  <2>3. Entries'
    BY <1>0, <1>1, <1>5 DEF BundleType, BundleCore, Entries, B!InMap, B!SocketOf, B!Settled
  <2>4. Reading'
    BY <1>0, <1>1, <1>5 DEF BundleType, BundleCore, Reading, B!InUse, B!InMap, B!SocketOf
  <2>5. QED
    BY <2>1, <2>2, <2>3, <2>4
<1>6. QED
  BY <1>2, <1>3, <1>4, <1>5, CoreKept, Zenon DEF BundleCore

\* OpenAll, in an open bundle whose map has been emptied.
LEMMA OpenAllKeeps ==
  ASSUME BundleInv, NEW c \in BundleControllers, B!OpenAll(c)
  PROVE  BundleInv'
<1> USE BundleSets
<1>0. BundleType /\ Locking /\ c \in B!Destroyers
  BY DEF BundleInv
<1>1. /\ goal[c] = "open" /\ bundlePc[c] = "closing"
      /\ bundlePc' = [bundlePc EXCEPT ![c] = "unlock"]
      /\ UNCHANGED <<lock, m_opened, selected, up, goal, victim, naps>>
      /\ B!OpenSockets(up) /\ up \in SUBSET Ifaces
  BY DEF B!OpenAll, B!Goto, B!changer, B!reader, B!table, BundleInv, BundleType
<1>2. ReadersStay
  BY <1>0, <1>1 DEF ReadersStay, BundleType
<1>3. /\ sockets' \in Seq({"open", "closed", "deleted"})
      /\ m_socketInfoMap' \in [Ifaces -> [socket : Nat, node : Nat]]
      /\ \A i \in Ifaces : B!InMap(i)' => B!SocketOf(i)' \in 1 .. Len(sockets')
      /\ m_inUse' \in [Ifaces -> BOOLEAN]
      /\ selected' \in [BundleReaders -> SUBSET (1 .. Len(sockets'))]
      /\ m_opened' /\ Entries => Entries'
      /\ Reading => Reading'
  BY <1>0, <1>1, <1>2, OpeningKeeps
<1>4. BundleType'
  BY <1>0, <1>1, <1>3 DEF BundleType, Locked, B!Nowhere
<1>5. Locking'
  BY <1>0, <1>1 DEF BundleType, Locking, Locked
<1>6. UNCHANGED <<raced, late, erased>>
  BY DEF B!OpenAll, B!record
<1>7. ASSUME BundleCore PROVE Alone' /\ Victims' /\ Entries' /\ Reading'
  <2>1. Alone'
    BY <1>0, <1>1, <1>7, AloneKept DEF BundleCore, Locked
  <2>2. \A u \in B!Destroyers \ {c} : bundlePc'[u] = bundlePc[u] /\ bundlePc[u] \notin Locked \cup {"sleep"}
    BY <1>0, <1>1, <1>7 DEF BundleCore, BundleType, Alone, Locked
  <2>3. Victims'
    BY <1>0, <1>1, <1>7, <2>2 DEF BundleType, BundleCore, Victims, Destroying, Locked
  <2>4. m_opened'
    BY <1>0, <1>1, <1>7 DEF BundleCore, Victims, Destroying
  <2>5. QED
    BY <1>3, <1>7, <2>1, <2>3, <2>4 DEF BundleCore
<1>8. QED
  BY <1>4, <1>5, <1>6, <1>7, CoreKept, Zenon DEF BundleCore

\* The monitor adds a socket; what it adds to a closed bundle or beside a sleeper counts as a race.
LEMMA AddInterfaceKeeps == ASSUME BundleInv, B!AddInterface PROVE BundleInv'
<1> USE BundleSets
<1>0. BundleType /\ Locking
  BY DEF BundleInv
<1>1. /\ bundlePc[Monitor] = "change" /\ bundlePc' = [bundlePc EXCEPT ![Monitor] = "unlock"]
      /\ lock = None /\ lock' = Monitor
      /\ UNCHANGED <<m_opened, selected, up, goal, victim, naps>>
      /\ B!OpenSockets({victim[Monitor].iface})
  BY DEF B!AddInterface, B!Goto, B!Locks, B!changer, B!reader, B!table
<1>2. ReadersStay
  BY <1>0, <1>1 DEF ReadersStay, BundleType
<1>3. Locking'
  BY <1>0, <1>1 DEF BundleType, Locking, Locked
<1>4. /\ UNCHANGED <<late, erased>> /\ (raced => raced')
      /\ ~raced' => m_opened /\ \A u \in BundleControllers : bundlePc[u] # "sleep"
  BY Zenon DEF B!AddInterface
<1>5. {victim[Monitor].iface} \in SUBSET Ifaces
  BY <1>0, <1>1 DEF BundleType
<1>6. /\ sockets' \in Seq({"open", "closed", "deleted"})
      /\ m_socketInfoMap' \in [Ifaces -> [socket : Nat, node : Nat]]
      /\ \A i \in Ifaces : B!InMap(i)' => B!SocketOf(i)' \in 1 .. Len(sockets')
      /\ m_inUse' \in [Ifaces -> BOOLEAN]
      /\ selected' \in [BundleReaders -> SUBSET (1 .. Len(sockets'))]
      /\ m_opened' /\ Entries => Entries'
      /\ Reading => Reading'
  BY <1>0, <1>1, <1>2, <1>5, OpeningKeeps
<1>7. BundleType'
  BY <1>0, <1>1, <1>6 DEF BundleType, Locked, B!Nowhere
<1>8. ASSUME ~raced', BundleCore PROVE Alone' /\ Victims' /\ Entries' /\ Reading'
  <2>1. \A u \in B!Destroyers \ {Monitor} : /\ bundlePc'[u] = bundlePc[u]
                                           /\ bundlePc[u] \notin Locked \cup {"sleep"}
    BY <1>0, <1>1, <1>4, <1>8 DEF BundleType, Locking
  <2>2. Alone'
    BY <2>1 DEF Alone
  <2>3. Victims'
    BY <1>0, <1>1, <1>8, <2>1 DEF BundleType, BundleCore, Victims, Destroying, Locked
  <2>4. m_opened'
    BY <1>1, <1>4, <1>8
  <2>5. QED
    BY <1>6, <1>8, <2>2, <2>3, <2>4 DEF BundleCore
<1>9. ~(raced' \/ late') /\ BundleCore => BundleCore'
  BY <1>4, <1>8, Zenon DEF BundleCore
<1>10. QED
  BY <1>3, <1>4, <1>7, <1>9, CoreKept, Zenon

\* It looks for the entry of an interface that has gone.
LEMMA RemoveInterfaceKeeps == ASSUME BundleInv, B!RemoveInterface PROVE BundleInv'
<1> USE BundleSets
<1>0. BundleType /\ Locking
  BY DEF BundleInv
<1> DEFINE i == victim[Monitor].iface
<1>1. /\ bundlePc[Monitor] = "change" /\ goal[Monitor] = "remove" /\ i \in Ifaces
      /\ lock = None /\ lock' = Monitor
      /\ UNCHANGED <<m_opened, m_socketInfoMap, m_inUse, selected, up, goal>>
  BY <1>0 DEF B!RemoveInterface, B!Locks, B!reader, B!table, BundleType
<1>2. /\ UNCHANGED <<late, erased>> /\ (raced => raced')
      /\ ~raced' => \A u \in B!Destroyers \ {Monitor} : bundlePc[u] # "sleep"
  BY Zenon DEF B!RemoveInterface, B!Race
<1>3. CASE ~B!InMap(i)
  <2>1. /\ bundlePc' = [bundlePc EXCEPT ![Monitor] = "unlock"]
        /\ UNCHANGED <<sockets, victim, naps>>
    BY <1>3 DEF B!RemoveInterface
  <2>2. BundleType'
    <3>1. DestroyersTyped'
      BY <1>0, <1>1, <2>1 DEF BundleType, DestroyersTyped, B!Nowhere
    <3>2. QED
      BY <1>0, <1>1, <2>1, <3>1, TypeKept DEF Locked
  <2>3. Locking'
    BY <1>0, <1>1, <2>1 DEF BundleType, Locking, Locked
  <2>4. ASSUME ~raced', BundleCore PROVE Alone' /\ Victims' /\ Entries' /\ Reading'
    <3>1. \A u \in B!Destroyers \ {Monitor} : /\ bundlePc'[u] = bundlePc[u]
                                             /\ bundlePc[u] \notin Locked \cup {"sleep"}
      BY <1>0, <1>1, <1>2, <2>1, <2>4 DEF BundleType, Locking
    <3>2. Alone'
      BY <3>1 DEF Alone
    <3>3. Victims'
      BY <1>0, <1>1, <2>1, <3>1 DEF BundleType, Victims, Destroying, Locked
    <3>4. Entries'
      BY <1>0, <1>1, <2>1, <2>4 DEF BundleType, BundleCore, Entries, B!InMap, B!SocketOf, B!Settled
    <3>5. Reading'
      BY <1>0, <1>1, <2>1, <2>4 DEF BundleType, BundleCore, Reading, B!InUse, B!InMap, B!SocketOf
    <3>6. QED
      BY <3>2, <3>3, <3>4, <3>5
  <2>5. ~(raced' \/ late') /\ BundleCore => BundleCore'
    BY <1>2, <2>4, Zenon DEF BundleCore
  <2>6. QED
    BY <1>2, <2>2, <2>3, <2>5, CoreKept, Zenon
<1>4. CASE B!InMap(i)
  <2>1. /\ bundlePc' = [bundlePc EXCEPT ![Monitor] = "closed"]
        /\ victim' = [victim EXCEPT ![Monitor] = B!Entry(i)] /\ naps' = [naps EXCEPT ![Monitor] = 0]
        /\ sockets' = [sockets EXCEPT ![B!SocketOf(i)] = "closed"]
    BY <1>4 DEF B!RemoveInterface, B!CloseSocket
  <2>2. /\ sockets' \in Seq({"open", "closed", "deleted"}) /\ Len(sockets') = Len(sockets)
        /\ \A s \in 1 .. Len(sockets) : sockets'[s] = IF s = B!SocketOf(i) THEN "closed" ELSE sockets[s]
        /\ B!SocketOf(i) \in 1 .. Len(sockets)
    BY <1>0, <1>1, <1>4, <2>1 DEF BundleType
  <2>3. BundleType'
    BY <1>0, <1>1, <2>1, <2>2 DEF BundleType, Locked, B!InMap, B!SocketOf, B!Entry, B!Nowhere
  <2>4. Locking'
    BY <1>0, <1>1, <2>1 DEF BundleType, Locking, Locked
  <2>5. ASSUME ~raced', BundleCore PROVE Alone' /\ Victims' /\ Entries' /\ Reading'
    <3>1. \A u \in B!Destroyers \ {Monitor} : /\ bundlePc'[u] = bundlePc[u]
                                             /\ bundlePc[u] \notin Locked \cup {"sleep"}
      BY <1>0, <1>1, <1>2, <2>1, <2>5 DEF BundleType, Locking
    <3>2. Alone'
      BY <3>1 DEF Alone
    <3>3. m_opened
      BY <1>0, <1>1, <1>4, <2>5, <3>1 DEF BundleCore, Entries, B!Settled, Locked
    <3>4. Victims'
      BY <1>0, <1>1, <1>4, <2>1, <3>1, <3>3
         DEF BundleType, Victims, Destroying, Locked, B!InMap, B!Erased, B!Entry
    <3>5. Entries'
      BY <1>0, <1>1, <2>1, <2>2, <2>5, <3>3 DEF BundleType, BundleCore, Entries, B!InMap, B!SocketOf
    <3>6. Reading'
      BY <1>0, <1>1, <2>1, <2>2, <2>5
         DEF BundleType, BundleCore, Reading, B!InUse, B!InMap, B!SocketOf
    <3>7. QED
      BY <3>2, <3>4, <3>5, <3>6
  <2>6. ~(raced' \/ late') /\ BundleCore => BundleCore'
    BY <1>2, <2>5, Zenon DEF BundleCore
  <2>7. QED
    BY <1>2, <2>3, <2>4, <2>6, CoreKept, Zenon
<1>5. QED
  BY <1>3, <1>4

\* An entry whose socket no reader uses goes, with the socket.
LEMMA EraseKeeps ==
  ASSUME BundleInv, NEW t \in B!Destroyers, bundlePc[t] \in {"closed", "sleep"}, lock' = t,
         lock \in {t, None}, B!Erase(t),
         UNCHANGED <<m_opened, up, goal, victim, selected>>, naps' \in [B!Destroyers -> Nat],
         raced \/ late => raced' \/ late', ~erased => ~erased',
         ~(raced' \/ late') /\ BundleCore => ~m_inUse[victim[t].iface]
  PROVE  BundleInv'
<1> USE BundleSets
<1> DEFINE i == victim[t].iface
<1>0. BundleType /\ Locking
  BY DEF BundleInv
<1>1. /\ sockets' = [sockets EXCEPT ![B!SocketOf(i)] = "deleted"]
      /\ m_socketInfoMap' = [m_socketInfoMap EXCEPT ![i] = B!Absent]
      /\ m_inUse' = [m_inUse EXCEPT ![i] = FALSE]
      /\ bundlePc' = [bundlePc EXCEPT ![t] = IF goal[t] = "remove" THEN "unlock" ELSE "closing"]
  BY DEF B!Erase
<1>2. /\ sockets' \in Seq({"open", "closed", "deleted"}) /\ Len(sockets') = Len(sockets)
      /\ \A s \in 1 .. Len(sockets) : sockets'[s] = IF s = B!SocketOf(i) THEN "deleted" ELSE sockets[s]
  <2>1. PICK n \in Nat : sockets \in [1 .. n -> {"open", "closed", "deleted"}]
    BY <1>0, SeqDef DEF BundleType
  <2>2. sockets' \in [1 .. n -> {"open", "closed", "deleted"}]
    BY <1>1, <2>1
  <2>3. sockets' \in Seq({"open", "closed", "deleted"}) /\ Len(sockets') = n /\ Len(sockets) = n
    BY <2>1, <2>2, SeqDef, LenProperties
  <2>4. QED
    BY <1>1, <2>1, <2>3
<1>3. \A j \in Ifaces : /\ j = i => ~B!InMap(j)'
                        /\ j # i => m_socketInfoMap'[j] = m_socketInfoMap[j]
  BY <1>0, <1>1 DEF BundleType, B!InMap, B!Absent
<1>4. BundleType'
  <2>1. m_socketInfoMap' \in [Ifaces -> [socket : Nat, node : Nat]]
    BY <1>0, <1>1 DEF BundleType, B!Absent
  <2>2. \A j \in Ifaces : B!InMap(j)' => B!SocketOf(j)' \in 1 .. Len(sockets')
    BY <1>0, <1>2, <1>3 DEF BundleType, B!InMap, B!SocketOf
  <2>3. m_inUse' \in [Ifaces -> BOOLEAN]
    BY <1>0, <1>1 DEF BundleType
  <2>4. QED
    BY <1>0, <1>1, <1>2, <2>1, <2>2, <2>3 DEF BundleType, Locked, B!Nowhere
<1>5. Locking'
  BY <1>0, <1>1 DEF BundleType, Locking, Locked
<1>6. ASSUME ~(raced' \/ late'), BundleCore PROVE Alone' /\ Victims' /\ Entries' /\ Reading'
  <2>1. \A u \in B!Destroyers \ {t} : /\ bundlePc'[u] = bundlePc[u]
                                     /\ bundlePc[u] \notin Locked \cup {"sleep"}
    BY <1>0, <1>1, <1>6 DEF BundleType, BundleCore, Alone, Locked
  <2>2. Alone'
    BY <2>1 DEF Alone
  <2>3. /\ i \in Ifaces /\ B!InMap(i) /\ B!SocketOf(i) \in 1 .. Len(sockets)
        /\ goal[t] \in {"open", "close", "remove"} /\ (m_opened <=> goal[t] # "close")
    BY <1>0, <1>6 DEF BundleType, BundleCore, Victims, Destroying
  <2>4. Victims'
    BY <1>0, <1>1, <2>1, <2>3 DEF BundleType, Victims, Destroying, Locked
  <2>5. Entries'
    <3>1. \A j, k \in Ifaces : B!InMap(j)' /\ B!InMap(k)' /\ B!SocketOf(j)' = B!SocketOf(k)' => j = k
      BY <1>3, <1>6 DEF BundleCore, Entries, B!InMap, B!SocketOf
    <3>2. \A s \in 1 .. Len(sockets') : sockets'[s] = "open" => \E j \in Ifaces : B!SocketOf(j)' = s
      BY <1>2, <1>3, <1>6 DEF BundleCore, Entries, B!SocketOf
    <3>3. m_opened' \/ ~B!Settled'
      BY <1>0, <1>1, <2>3 DEF BundleType, B!Settled
    <3>4. QED
      BY <3>1, <3>2, <3>3 DEF Entries
  <2>6. Reading'
    <3> SUFFICES ASSUME \A r, q \in BundleReaders : r = q,
                        NEW r \in BundleReaders, NEW s \in B!InUse(r)'
                 PROVE  /\ sockets'[s] # "deleted"
                        /\ \A j \in Ifaces : B!InMap(j)' /\ B!SocketOf(j)' = s => m_inUse'[j]
      BY DEF Reading
    <3>1. s \in B!InUse(r) /\ s \in 1 .. Len(sockets)
      BY <1>0, <1>1 DEF BundleType, B!InUse
    <3>2. sockets[s] # "deleted" /\ \A j \in Ifaces : B!InMap(j) /\ B!SocketOf(j) = s => m_inUse[j]
      BY <1>6, <3>1 DEF BundleCore, Reading
    <3>3. s # B!SocketOf(i)
      BY <1>6, <2>3, <3>2
    <3>4. QED
      BY <1>0, <1>1, <1>2, <1>3, <3>1, <3>2, <3>3 DEF BundleType, B!InMap, B!SocketOf
  <2>7. QED
    BY <2>2, <2>4, <2>5, <2>6
<1>7. ~(raced' \/ late') /\ BundleCore => BundleCore'
  BY <1>6, Zenon DEF BundleCore
<1>8. QED
  BY <1>4, <1>5, <1>7, CoreKept, Zenon

\* DestroySocket deletes the socket, or goes to sleep beside the map.
LEMMA DestroySocketKeeps ==
  ASSUME BundleInv, NEW t \in B!Destroyers, B!DestroySocket(t) PROVE BundleInv'
<1> USE BundleSets
<1>0. BundleType /\ Locking
  BY DEF BundleInv
<1>1. /\ bundlePc[t] = "closed" /\ lock = t
      /\ UNCHANGED <<m_opened, up, goal, victim, naps, selected>>
  BY DEF B!DestroySocket, B!changer, B!reader, B!table, B!Erase
<1>2. UNCHANGED <<raced, late, erased>>
  BY DEF B!DestroySocket, B!record
<1>3. CASE m_inUse[victim[t].iface]
  <2>1. /\ bundlePc' = [bundlePc EXCEPT ![t] = "sleep"] /\ lock' = None
        /\ UNCHANGED <<sockets, m_socketInfoMap, m_inUse>>
    BY <1>3 DEF B!DestroySocket
  <2>2. BundleType'
    <3>1. DestroyersTyped'
      BY <1>0, <1>1, <2>1 DEF BundleType, DestroyersTyped, B!Nowhere
    <3>2. QED
      BY <1>0, <1>1, <2>1, <3>1, TypeKept
  <2>3. Locking'
    BY <1>0, <1>1, <2>1 DEF BundleType, Locking, Locked
  <2>4. ASSUME BundleCore PROVE Alone' /\ Victims' /\ Entries' /\ Reading'
    <3>1. Alone'
      BY <1>0, <1>1, <2>1, <2>4, AloneKept DEF BundleCore, Locked
    <3>2. Victims'
      BY <1>0, <1>1, <2>1, <2>4 DEF BundleType, BundleCore, Victims, Destroying, B!InMap, B!Erased
    <3>3. Entries'
      BY <1>0, <1>1, <2>1, <2>4 DEF BundleType, BundleCore, Entries, B!InMap, B!SocketOf, B!Settled
    <3>4. Reading'
      BY <1>0, <1>1, <2>1, <2>4 DEF BundleType, BundleCore, Reading, B!InUse, B!InMap, B!SocketOf
    <3>5. QED
      BY <3>1, <3>2, <3>3, <3>4
  <2>5. QED
    BY <1>2, <2>2, <2>3, <2>4, CoreKept, Zenon DEF BundleCore
<1>4. CASE ~m_inUse[victim[t].iface]
  <2>1. B!Erase(t) /\ UNCHANGED lock
    BY <1>4 DEF B!DestroySocket
  <2>2. naps' \in [B!Destroyers -> Nat] /\ lock' = t
    BY <1>0, <1>1, <2>1 DEF BundleType
  <2>3. (raced \/ late => raced' \/ late') /\ (~erased => ~erased')
    BY <1>2
  <2>4. QED
    BY <1>1, <1>4, <2>1, <2>2, <2>3, EraseKeeps
<1>5. QED
  BY <1>3, <1>4

\* A nap is over: the entry is still there, and the reader is out or was too slow.
LEMMA NapOverKeeps ==
  ASSUME BundleInv, NEW t \in B!Destroyers, B!NapOver(t) PROVE BundleInv'
<1> USE BundleSets
<1>0. BundleType /\ Locking
  BY DEF BundleInv
<1>1. /\ bundlePc[t] = "sleep" /\ lock = None
      /\ naps' = [naps EXCEPT ![t] = @ + 1]
      /\ UNCHANGED <<m_opened, up, goal, victim, selected>>
  BY DEF B!NapOver, B!reader, B!table
<1>2. UNCHANGED raced /\ (late => late')
  BY Zenon DEF B!NapOver
<1>3. CASE B!Erased(victim[t])
  <2>1. /\ lock' = t
        /\ bundlePc' = [bundlePc EXCEPT ![t] = IF goal[t] = "remove" THEN "unlock" ELSE "closing"]
        /\ UNCHANGED <<sockets, m_socketInfoMap, m_inUse>>
    BY <1>3 DEF B!NapOver
  <2>2. BundleType'
    <3>1. DestroyersTyped'
      BY <1>0, <1>1, <2>1 DEF BundleType, DestroyersTyped, B!Nowhere
    <3>2. QED
      BY <1>0, <1>1, <2>1, <3>1, TypeKept DEF Locked
  <2>3. Locking'
    BY <1>0, <1>1, <2>1 DEF BundleType, Locking, Locked
  <2>4. ~BundleCore
    BY <1>1, <1>3 DEF BundleCore, Victims
  <2>5. QED
    BY <1>2, <2>2, <2>3, <2>4, CoreKept, Zenon
<1>4. CASE ~B!Erased(victim[t]) /\ m_inUse[victim[t].iface] /\ naps'[t] < FailSafe
  <2>1. UNCHANGED <<lock, bundlePc, sockets, m_socketInfoMap, m_inUse>>
    BY <1>4 DEF B!NapOver
  <2>2. UNCHANGED erased
    BY <1>4, Zenon DEF B!NapOver
  <2>3. BundleType'
    BY <1>0, <1>1, <2>1 DEF BundleType, B!InMap, B!SocketOf, B!Nowhere
  <2>4. Locking'
    BY <1>0, <2>1 DEF Locking
  <2>5. ASSUME BundleCore PROVE Alone' /\ Victims' /\ Entries' /\ Reading'
    <3>1. Alone' /\ Entries' /\ Reading'
      BY <1>1, <2>1, <2>5
         DEF BundleCore, Alone, Entries, Reading, B!InMap, B!SocketOf, B!Settled, B!InUse
    <3>2. Victims'
      BY <1>0, <1>1, <1>4, <2>1, <2>5 DEF BundleType, BundleCore, Victims, B!InMap, B!Erased
    <3>3. QED
      BY <3>1, <3>2
  <2>6. QED
    BY <1>2, <2>2, <2>3, <2>4, <2>5, CoreKept, Zenon DEF BundleCore
<1>5. CASE ~B!Erased(victim[t]) /\ ~(m_inUse[victim[t].iface] /\ naps'[t] < FailSafe)
  <2>1. B!Erase(t) /\ lock' = t
    BY <1>5 DEF B!NapOver
  <2>2. UNCHANGED erased
    BY <1>5, Zenon DEF B!NapOver
  <2>3. ~late' => ~(m_inUse[victim[t].iface] /\ naps'[t] = FailSafe)
    BY <1>5, Zenon DEF B!NapOver
  <2>4. BundleCore => naps'[t] \in Nat /\ naps'[t] <= FailSafe
    BY <1>0, <1>1 DEF BundleType, BundleCore, Victims
  <2>5. ~(raced' \/ late') /\ BundleCore => ~m_inUse[victim[t].iface]
    BY <1>5, <2>3, <2>4
  <2>6. naps' \in [B!Destroyers -> Nat]
    BY <1>0, <1>1 DEF BundleType
  <2>7. (raced \/ late => raced' \/ late') /\ (~erased => ~erased')
    BY <1>2, <2>2
  <2>8. QED
    BY <1>1, <2>1, <2>5, <2>6, <2>7, EraseKeeps
<1>6. QED
  BY <1>3, <1>4, <1>5

\* The monitor hears of a change and tells the bundle, if that is open.
LEMMA ChangesKeep ==
  ASSUME BundleInv, B!RefreshInterfaceList \/ \E i \in Ifaces : B!OnInterfaceChange(i)
  PROVE  BundleInv'
<1> USE BundleSets
<1>0. BundleType /\ Locking
  BY DEF BundleInv
<1>1. UNCHANGED <<lock, m_opened, sockets, m_socketInfoMap, m_inUse, naps, selected>>
  BY DEF B!RefreshInterfaceList, B!OnInterfaceChange, B!bundle, B!changer, B!reader
<1>2. UNCHANGED <<raced, late, erased>>
  BY DEF B!RefreshInterfaceList, B!OnInterfaceChange, B!record
<1>3. \/ UNCHANGED <<bundlePc, goal, victim>> /\ up' \subseteq Ifaces
      \/ /\ bundlePc[Monitor] = "idle" /\ bundlePc' = [bundlePc EXCEPT ![Monitor] = "change"]
         /\ UNCHANGED up
         /\ \E to \in {"add", "remove"} : goal' = [goal EXCEPT ![Monitor] = to]
         /\ \E i \in Ifaces : victim' = [victim EXCEPT ![Monitor] = [iface |-> i, node |-> 0]]
  BY <1>0 DEF B!RefreshInterfaceList, B!OnInterfaceChange, B!Goto, B!changer, BundleType
<1>4. BundleType'
  BY <1>0, <1>1, <1>3 DEF BundleType, Locked, B!InMap, B!SocketOf, B!Nowhere
<1>5. Locking'
  BY <1>0, <1>1, <1>3 DEF BundleType, Locking, Locked
<1>6. ASSUME BundleCore PROVE Alone' /\ Victims' /\ Entries' /\ Reading'
  <2>1. Alone'
    BY <1>0, <1>3, <1>6 DEF BundleCore, BundleType, Alone, Locked
  <2>2. Victims'
    BY <1>0, <1>1, <1>3, <1>6 DEF BundleType, BundleCore, Victims, Destroying, B!InMap, B!Erased
  <2>3. Entries'
    BY <1>0, <1>1, <1>3, <1>6 DEF BundleType, BundleCore, Entries, B!InMap, B!SocketOf, B!Settled
  <2>4. Reading'
    BY <1>0, <1>1, <1>3, <1>6 DEF BundleType, BundleCore, Reading, B!InUse, B!InMap, B!SocketOf
  <2>5. QED
    BY <2>1, <2>2, <2>3, <2>4
<1>7. QED
  BY <1>2, <1>4, <1>5, <1>6, CoreKept, Zenon DEF BundleCore

LEMMA BundleStep == ASSUME BundleInv, [B!BundleNext]_(B!bundleVars) PROVE BundleInv'
<1>1. CASE UNCHANGED B!bundleVars
  <2>1. UNCHANGED <<lock, m_opened, sockets, m_socketInfoMap, m_inUse, up, bundlePc, goal, victim, naps,
                    selected, raced, late, erased>>
    BY <1>1 DEF B!bundleVars, B!bundle, B!table, B!changer, B!reader, B!record
  <2>2. QED
    BY <2>1
       DEF BundleInv, BundleType, Locking, BundleCore, Alone, Victims, Entries, Reading, B!InMap,
       B!SocketOf, B!Erased, B!Settled, B!InUse, B!Nowhere
<1>2. QED
  BY <1>1, BundleSets, ReaderKeeps, CallsKeep, CloseNextKeeps, OpenAllKeeps, CloseSignalKeeps,
     DestroySocketKeeps, NapOverKeeps, LeaveKeeps, ChangesKeep, AddInterfaceKeeps, RemoveInterfaceKeeps
     DEF B!BundleNext, B!ControllerStep, B!DestroyerStep, B!MonitorStep

\* PMonitoredSocketBundle, for any number of interfaces, of controllers and of naps: as long as
\* no two threads change the map at a time and readers are not too slow, no erased entry
\* is used, sockets that are open are in the map and a closed bundle has none, and no
\* socket is deleted under a lone reader.
THEOREM BundleIsSafe == B!Spec => []SocketsSafe
<1>1. B!BundleInit => BundleInv
  <2> SUFFICES ASSUME B!BundleInit PROVE BundleInv
    OBVIOUS
  <2> USE BundleSets DEF B!BundleInit
  <2>1. BundleType
    <3>1. sockets \in Seq({"open", "closed", "deleted"}) /\ Len(sockets) = 0
      OBVIOUS
    <3>2. victim \in [B!Destroyers -> [iface : Ifaces \cup {B!Nowhere.iface}, node : Nat]]
      BY DEF B!Nowhere
    <3>3. selected \in [BundleReaders -> SUBSET (1 .. Len(sockets))]
      OBVIOUS
    <3>4. m_socketInfoMap \in [Ifaces -> [socket : Nat, node : Nat]]
      BY DEF B!Absent
    <3>5. \A i \in Ifaces : ~B!InMap(i)
      BY DEF B!InMap
    <3>6. QED
      BY <3>1, <3>2, <3>3, <3>4, <3>5 DEF BundleType
  <2>2. Locking
    BY DEF Locking, Locked
  <2>3. ~erased
    BY Zenon
  <2>4. Alone /\ Victims /\ Reading
    BY DEF Alone, Victims, Reading, Locked, Destroying, B!InUse
  <2>5. Entries
    BY DEF Entries, B!InMap
  <2>6. QED
    BY <2>1, <2>2, <2>3, <2>4, <2>5 DEF BundleInv, BundleCore
<1>2. BundleInv => SocketsSafe
  <2> SUFFICES ASSUME BundleInv, ~raced, ~late PROVE SocketsSafe
    BY Zenon DEF SocketsSafe, B!SocketsSafe
  <2>1. BundleType /\ BundleCore
    BY Zenon DEF BundleInv
  <2>2. ~erased
    BY <2>1, Zenon DEF BundleCore
  <2>3. (\A r, q \in BundleReaders : r = q) =>
           \A r \in BundleReaders : \A s \in B!InUse(r) : sockets[s] # "deleted"
    BY <2>1 DEF BundleCore, Reading
  <2>4. \A s \in DOMAIN sockets : sockets[s] = "open" => \E i \in Ifaces : B!SocketOf(i) = s
    <3>1. DOMAIN sockets = 1 .. Len(sockets)
      BY <2>1 DEF BundleType
    <3>2. QED
      BY <2>1, <3>1 DEF BundleCore, Entries
  <2>5. ~m_opened /\ B!Settled => \A i \in Ifaces : ~B!InMap(i)
    BY <2>1 DEF BundleCore, Entries
  <2>6. QED
    BY <2>2, <2>3, <2>4, <2>5 DEF SocketsSafe, B!SocketsSafe
<1>3. QED
  BY <1>1, <1>2, BundleStep, PTL DEF B!Spec
=============================================================================
