---------------------------- MODULE MacNdev_proofs ----------------------------
(* Proofs about the device in the Pico for any drives and sectors, any knock and *)
(* any sizes of the message and of the FIFO: what its globals hold, that no byte *)
(* of the USB host is lost, repeated or moved past another, what the header of a *)
(* message says, and that only the knock makes the device take accesses.         *)
EXTENDS MacNdev, SequenceTheorems, TLAPS

\* The byte queues are sequences.
FifoInv == fifo \in Seq(Int) /\ usb \in Seq(Int) /\ given \in Seq(Int)

\* What was heard of the knock is what the last accesses were.
HeardInv ==
  /\ knock <= Len(heard)
  /\ \A i \in 1..knock : heard[Len(heard) - knock + i] = KnockSeq[i]

-------------------------------------------------------------------------------
(* Queues *)

\* Cutting a queue in two loses nothing.
LEMMA CutInTwo ==
  ASSUME NEW S, NEW s \in Seq(S), NEW n \in 0..Len(s)
  PROVE  /\ SubSeq(s, 1, n) \in Seq(S) /\ Len(SubSeq(s, 1, n)) = n
         /\ SubSeq(s, n + 1, Len(s)) \in Seq(S) /\ Len(SubSeq(s, n + 1, Len(s))) = Len(s) - n
         /\ SubSeq(s, 1, n) \o SubSeq(s, n + 1, Len(s)) = s
<1>1. Len(s) \in Nat /\ \A i \in 1..Len(s) : s[i] \in S
  OBVIOUS
<1>2. /\ SubSeq(s, 1, n) \in Seq(S) /\ Len(SubSeq(s, 1, n)) = n
  BY <1>1
<1>3. /\ SubSeq(s, n + 1, Len(s)) \in Seq(S) /\ Len(SubSeq(s, n + 1, Len(s))) = Len(s) - n
  BY <1>1
<1>4. SubSeq(s, 1, n) \o SubSeq(s, n + 1, Len(s)) = SubSeq(s, 1, Len(s))
  <2>1. 1 \in 1..(Len(s) + 1) /\ n \in (1 - 1)..Len(s) /\ Len(s) \in n..Len(s)
    BY <1>1
  <2> QED
    BY <2>1, ConcatAdjacentSubSeq
<1> QED
  BY <1>2, <1>3, <1>4, SubSeqFull

\* Queues are joined in any order of joining.
LEMMA JoinInAnyOrder ==
  ASSUME NEW s \in Seq(Int), NEW t \in Seq(Int), NEW u \in Seq(Int)
  PROVE  (s \o t) \o u = s \o (t \o u)
OBVIOUS

\* What moves from USB into the FIFO fits, and keeps its order.
LEMMA Fills ==
  ASSUME TypeOK, FifoInv
  PROVE  /\ Arriving \in 0..Len(usb) /\ Filled \in Seq(Int) /\ Len(Filled) <= FifoSize
         /\ FifoRest(usb, Arriving) \in Seq(Int) /\ Len(FifoRest(usb, Arriving)) <= Len(usb)
         /\ Filled \o FifoRest(usb, Arriving) = fifo \o usb
<1>1. fifo \in Seq(Int) /\ usb \in Seq(Int) /\ Len(fifo) \in Nat /\ Len(usb) \in Nat
      /\ Len(fifo) <= FifoSize /\ FifoSize \in Nat
  BY SizesAssumption DEF TypeOK, FifoInv
<1>2. Arriving \in 0..Len(usb) /\ Len(fifo) + Arriving <= FifoSize
  BY <1>1 DEF Arriving, Min2
<1> DEFINE a == Arriving
           new == SubSeq(usb, 1, a)
           rest == SubSeq(usb, a + 1, Len(usb))
<1> HIDE DEF a
<1>3. /\ new \in Seq(Int) /\ Len(new) = a /\ rest \in Seq(Int) /\ Len(rest) = Len(usb) - a
      /\ new \o rest = usb /\ a \in 0..Len(usb)
  BY <1>1, <1>2, CutInTwo DEF a
<1>4. Filled = fifo \o new /\ FifoRest(usb, Arriving) = rest
  BY DEF Filled, FifoRest, a
<1> HIDE DEF new, rest
<1>5. Filled \in Seq(Int) /\ Len(Filled) = Len(fifo) + a
  BY <1>1, <1>3, <1>4, ConcatProperties
<1>6. Filled \o rest = fifo \o usb
  <2>1. (fifo \o new) \o rest = fifo \o (new \o rest)
    <3>1. fifo \in Seq(Int) /\ new \in Seq(Int) /\ rest \in Seq(Int)
      BY <1>1, <1>3
    <3> QED
      BY <3>1, JoinInAnyOrder
  <2> QED
    BY <1>3, <1>4, <2>1
<1> QED
  BY <1>1, <1>2, <1>3, <1>4, <1>5, <1>6 DEF a

\* What a message takes out of the FIFO.
LEMMA Drains ==
  ASSUME NEW q \in Seq(Int), NEW n, n = Min2(PayloadSize, Len(q))
  PROVE  /\ SubSeq(q, 1, n) \in Seq(Int) /\ Len(SubSeq(q, 1, n)) = n
         /\ FifoRest(q, n) \in Seq(Int) /\ Len(FifoRest(q, n)) = Len(q) - n
         /\ SubSeq(q, 1, n) \o FifoRest(q, n) = q /\ n \in 0..Len(q)
<1>1. n \in 0..Len(q)
  BY SizesAssumption DEF Min2
<1> QED
  BY <1>1, CutInTwo DEF FifoRest

-------------------------------------------------------------------------------
(* What an access does to the queues *)

\* An access that carries no message leaves them alone.
LEMMA KindsOfAccess ==
  ASSUME NEW d, NEW s, NEW m, NEW b, b.kind # "reply", Access(d, s, m, b)
  PROVE  \/ UNCHANGED fifoVars /\ io'.block.kind # "reply"
         \/ m = "read" /\ MagicSectorRead(d, s, "none")
         \/ m = "write" /\ MagicSectorWrite(d, s, b, "none")
<1>1. CASE NegativeAccess(d, m, b) /\ s = NegativeLBA
  BY <1>1 DEF NegativeAccess, MagicSectorIO
<1>2. ASSUME NEW tag, DiskIO(d, s, m, b, tag) PROVE UNCHANGED fifoVars /\ io'.block.kind # "reply"
  BY <1>2 DEF DiskIO, OnDisk
<1>3. CASE KnockAccess(d, s, m, b)
  BY <1>2, <1>3 DEF KnockAccess
<1>4. CASE MagicWrite(d, s, m, b) \/ MagicRead(d, s, m)
  BY <1>4 DEF MagicWrite, MagicRead
<1>5. CASE MessageAccess(d, s, m, b)
  BY <1>5 DEF MessageAccess, MagicSectorIO
<1>6. CASE OrdinaryAccess(d, s, m, b)
  BY <1>2, <1>6 DEF OrdinaryAccess
<1> QED
  BY <1>1, <1>3, <1>4, <1>5, <1>6 DEF Access

\* The same for any step.
LEMMA KindsOfStep ==
  ASSUME [Next]_ndevVars
  PROVE  \/ UNCHANGED fifoVars /\ (io'.block.kind # "reply" \/ UNCHANGED io)
         \/ \E d \in Drives, s \in Sectors \cup {NegativeLBA} : MagicSectorRead(d, s, "none")
         \/ \E d \in Drives, s \in Sectors \cup {NegativeLBA}, b \in Blocks :
              MagicSectorWrite(d, s, b, "none")
         \/ UsbSends
<1>1. ASSUME NEW d \in Drives, NEW s \in Sectors \cup {NegativeLBA}, NEW b \in Blocks,
             Access(d, s, "write", b)
      PROVE  (UNCHANGED fifoVars /\ io'.block.kind # "reply") \/ MagicSectorWrite(d, s, b, "none")
  BY <1>1, BlocksAssumption, KindsOfAccess
<1>2. ASSUME NEW d \in Drives, NEW s \in Sectors \cup {NegativeLBA}, Access(d, s, "read", OnDisk)
      PROVE  (UNCHANGED fifoVars /\ io'.block.kind # "reply") \/ MagicSectorRead(d, s, "none")
  <2>1. OnDisk.kind # "reply"
    BY DEF OnDisk
  <2> QED
    BY <1>2, <2>1, KindsOfAccess
<1>3. CASE UNCHANGED ndevVars
  BY <1>3 DEF ndevVars
<1> QED
  BY <1>1, <1>2, <1>3 DEF Next

-------------------------------------------------------------------------------
(* Types *)

\* A message written to the device is a sequence of bytes.
LEMMA Messages ==
  ASSUME NEW b \in Blocks, NEW bytes,
         bytes = CASE b.kind = "request" -> b.bytes [] b.kind = "magic" -> <<-1>> [] OTHER -> <<>>
  PROVE  bytes \in Seq(Int)
<1>1. <<-1>> \in Seq(Int) /\ <<>> \in Seq(Int)
  OBVIOUS
<1> QED
  BY <1>1, BlocksAssumption

\* What is put into the FIFO is there at the end, or was too long.
LEMMA Puts ==
  ASSUME NEW q \in Seq(Int), Len(q) <= FifoSize, NEW bytes \in Seq(Int)
  PROVE  FifoPut(q, bytes) \in Seq(Int) /\ Len(FifoPut(q, bytes)) <= FifoSize
BY ConcatProperties DEF FifoPut

\* The queues stay sequences, and the FIFO stays in its array.
LEMMA StepFifo ==
  ASSUME TypeOK, FifoInv, [Next]_ndevVars
  PROVE  /\ FifoInv'
         /\ Len(fifo') <= FifoSize /\ usbSent' \in 0..MaxUsb /\ Len(usb') <= usbSent'
<1> DEFINE Goal == /\ FifoInv'
                   /\ Len(fifo') <= FifoSize /\ usbSent' \in 0..MaxUsb /\ Len(usb') <= usbSent'
<1>0. /\ Len(fifo) <= FifoSize /\ usbSent \in 0..MaxUsb /\ Len(usb) <= usbSent
      /\ fifo \in Seq(Int) /\ usb \in Seq(Int) /\ given \in Seq(Int)
      /\ MaxUsb \in Nat /\ FifoSize \in Nat
  BY SizesAssumption DEF TypeOK, FifoInv
<1>1. CASE UNCHANGED fifoVars
  BY <1>0, <1>1 DEF fifoVars, FifoInv
<1>2. ASSUME NEW d, NEW s, MagicSectorRead(d, s, "none") PROVE Goal
  <2> DEFINE n == Min2(PayloadSize, Len(Filled))
             bytes == SubSeq(Filled, 1, n)
  <2>1. /\ usb' = FifoRest(usb, Arriving) /\ fifo' = FifoRest(Filled, n)
        /\ given' = given \o bytes /\ UNCHANGED usbSent
    BY <1>2 DEF MagicSectorRead
  <2>2. /\ Filled \in Seq(Int) /\ Len(Filled) <= FifoSize
        /\ FifoRest(usb, Arriving) \in Seq(Int) /\ Len(FifoRest(usb, Arriving)) <= Len(usb)
    BY Fills
  <2>3. bytes \in Seq(Int) /\ FifoRest(Filled, n) \in Seq(Int)
        /\ Len(FifoRest(Filled, n)) = Len(Filled) - n /\ n \in 0..Len(Filled)
    BY <2>2, Drains
  <2> HIDE DEF n, bytes
  <2>4. given' \in Seq(Int)
    BY <1>0, <2>1, <2>3, ConcatProperties
  <2>5. Len(fifo') <= FifoSize /\ Len(usb') <= usbSent'
    BY <1>0, <2>1, <2>2, <2>3
  <2> QED
    BY <1>0, <2>1, <2>2, <2>3, <2>4, <2>5 DEF FifoInv
<1>3. ASSUME NEW d, NEW s, NEW b \in Blocks, MagicSectorWrite(d, s, b, "none") PROVE Goal
  <2>1. PICK bytes \in Seq(Int) : fifo' = IF Loopback THEN FifoPut(fifo, bytes) ELSE Filled
    BY <1>3, Messages DEF MagicSectorWrite
  <2>2. usb' = FifoRest(usb, Arriving) /\ UNCHANGED <<usbSent, given>>
    BY <1>3 DEF MagicSectorWrite
  <2>3. /\ Filled \in Seq(Int) /\ Len(Filled) <= FifoSize
        /\ FifoRest(usb, Arriving) \in Seq(Int) /\ Len(FifoRest(usb, Arriving)) <= Len(usb)
    BY Fills
  <2>4. fifo' \in Seq(Int) /\ Len(fifo') <= FifoSize
    BY <1>0, <2>1, <2>3, Puts
  <2>5. Len(usb') <= usbSent'
    BY <1>0, <2>2, <2>3
  <2> QED
    BY <1>0, <2>2, <2>3, <2>4, <2>5 DEF FifoInv
<1>4. CASE UsbSends
  BY <1>0, <1>4 DEF UsbSends, FifoInv
<1> QED
  BY <1>1, <1>2, <1>3, <1>4, KindsOfStep

\* The parts of TypeOK that an access sets.
DevTypes ==
  /\ state \in {"knock", "magicWrite", "magicRead", "magicSector"}
  /\ knock \in 0..(Len(KnockSeq) - 1)
  /\ drive \in Drives \cup {0} /\ sector \in Sectors
IOTypes ==
  /\ io.drive \in Drives \cup {0} /\ io.sector \in Sectors \cup {NegativeLBA}
  /\ io.mode \in {"none", "read", "write"} /\ io.taken \in BOOLEAN /\ io.tag \in {"none", "FUJI"}
HeardTypes == heard \in Seq(Sectors) /\ Len(heard) <= Len(KnockSeq)

\* The globals and the last access have their types after any access.
LEMMA StepTypeOK ==
  ASSUME TypeOK, FifoInv, [Next]_ndevVars
  PROVE  TypeOK'
<1> USE DEF DevTypes, IOTypes, HeardTypes
<1>0. DevTypes /\ IOTypes /\ HeardTypes /\ Len(KnockSeq) \in Nat \ {0} /\ 0 \in Sectors
  BY SectorsAssumption DEF TypeOK
<1>1. ASSUME NEW d \in Drives, NEW s \in Sectors \cup {NegativeLBA}, NEW m \in {"read", "write"}, NEW b,
             Access(d, s, m, b)
      PROVE  DevTypes' /\ IOTypes' /\ HeardTypes'
  <2>a. ASSUME NEW t \in {"none", "FUJI"}, DiskIO(d, s, m, b, t) PROVE IOTypes'
    BY <2>a DEF DiskIO
  <2>b. ASSUME NEW t \in {"none", "FUJI"}, MagicSectorIO(d, s, m, b, t) PROVE IOTypes'
    <3>1. /\ io'.drive = d /\ io'.sector = s /\ io'.mode \in {"read", "write"}
          /\ io'.taken \in BOOLEAN /\ io'.tag = t
      <4>1. CASE MagicSectorRead(d, s, t)
        BY <4>1 DEF MagicSectorRead
      <4>2. CASE MagicSectorWrite(d, s, b, t)
        BY <4>2 DEF MagicSectorWrite
      <4> QED
        BY <2>b, <4>1, <4>2 DEF MagicSectorIO
    <3> QED
      BY <3>1
  <2>1. CASE s = NegativeLBA /\ NegativeAccess(d, m, b)
    <3>1. IOTypes'
      BY <2>b, <2>1 DEF NegativeAccess
    <3> QED
      BY <1>0, <2>1, <3>1 DEF NegativeAccess
  <2>2. CASE s # NegativeLBA /\ knock' = NextKnock(s) /\ heard' = Heard(s)
    <3>0. s \in Sectors
      BY <2>2
    <3>1. knock' \in 0..(Len(KnockSeq) - 1)
      BY <1>0, <2>2 DEF NextKnock
    <3>2. heard' \in Seq(Sectors) /\ Len(heard') <= Len(KnockSeq)
      BY <1>0, <2>2, <3>0 DEF Heard
    <3>3. CASE KnockAccess(d, s, m, b)
      <4>1. CASE m = "write"
        <5>1. IOTypes'
          <6>1. io' = [drive |-> d, sector |-> s, mode |-> m, taken |-> TRUE, tag |-> "none", block |-> b]
            BY <3>3, <4>1 DEF KnockAccess
          <6> QED
            BY <6>1
        <5>2. DevTypes'
          BY <1>0, <3>0, <3>1, <3>3, <4>1 DEF KnockAccess
        <5> QED
          BY <3>2, <5>1, <5>2
      <4>2. CASE m # "write"
        <5>1. IOTypes'
          BY <2>a, <3>3, <4>2 DEF KnockAccess
        <5> QED
          BY <1>0, <3>0, <3>1, <3>2, <3>3, <4>2, <5>1 DEF KnockAccess
      <4> QED
        BY <4>1, <4>2
    <3>4. CASE MagicWrite(d, s, m, b) \/ MagicRead(d, s, m)
      <4>1. IOTypes'
        <5>1. \E t \in {"none", "FUJI"} : \E x :
                io' = [drive |-> d, sector |-> s, mode |-> m, taken |-> TRUE, tag |-> t, block |-> x]
          BY <3>4 DEF MagicWrite, MagicRead
        <5> QED
          BY <5>1
      <4>2. DevTypes'
        BY <1>0, <3>0, <3>1, <3>4 DEF MagicWrite, MagicRead
      <4> QED
        BY <3>2, <4>1, <4>2
    <3>5. CASE MessageAccess(d, s, m, b)
      <4>1. IOTypes'
        BY <2>b, <3>5 DEF MessageAccess
      <4> QED
        BY <1>0, <3>1, <3>2, <3>5, <4>1 DEF MessageAccess
    <3>6. CASE OrdinaryAccess(d, s, m, b)
      <4>1. IOTypes'
        BY <2>a, <3>6 DEF OrdinaryAccess
      <4> QED
        BY <1>0, <3>1, <3>2, <3>6, <4>1 DEF OrdinaryAccess
    <3> QED
      BY <1>1, <2>2, <3>3, <3>4, <3>5, <3>6 DEF Access
  <2> QED
    BY <1>1, <2>1, <2>2 DEF Access
<1>2. ASSUME UsbSends \/ UNCHANGED ndevVars PROVE DevTypes' /\ IOTypes' /\ HeardTypes'
  <2>1. UNCHANGED <<state, knock, drive, sector, io, heard>>
    BY <1>2 DEF UsbSends, ndevVars, devVars
  <2>2. DevTypes'
    BY <1>0, <2>1
  <2>3. IOTypes'
    BY <1>0, <2>1
  <2>4. HeardTypes'
    BY <1>0, <2>1
  <2> QED
    BY <2>2, <2>3, <2>4
<1> HIDE DEF DevTypes, IOTypes, HeardTypes
<1>3. DevTypes' /\ IOTypes' /\ HeardTypes'
  BY <1>1, <1>2 DEF Next
<1> QED
  BY <1>3, StepFifo DEF TypeOK, DevTypes, IOTypes, HeardTypes

\* The types and the queues, always.
THEOREM NdevTypeCorrect == Spec => [](TypeOK /\ FifoInv)
<1>1. Init => TypeOK /\ FifoInv
  <2> SUFFICES ASSUME Init PROVE TypeOK /\ FifoInv
    OBVIOUS
  <2>1. fifo = <<>> /\ usb = <<>> /\ given = <<>> /\ heard = <<>>
    BY DEF Init
  <2>2. FifoInv
    BY <2>1 DEF FifoInv
  <2>3. Len(KnockSeq) \in Nat \ {0}
    BY SectorsAssumption
  <2> QED
    BY <2>1, <2>2, <2>3, SectorsAssumption, SizesAssumption DEF Init, TypeOK, NoAccess
<1>2. TypeOK /\ FifoInv /\ [Next]_ndevVars => (TypeOK /\ FifoInv)'
  BY StepTypeOK, StepFifo
<1> QED
  BY <1>1, <1>2, PTL DEF Spec

-------------------------------------------------------------------------------
(* The bytes of the USB host *)

\* An access moves bytes along the line USB - FIFO - Macintosh, and no byte past
\* another.
LEMMA StepUsbBytes ==
  ASSUME TypeOK, FifoInv, UsbBytesInOrder, [Next]_ndevVars
  PROVE  UsbBytesInOrder'
<1> SUFFICES ASSUME ~Loopback PROVE given' \o fifo' \o usb' = [i \in 1..usbSent' |-> i]
  BY DEF UsbBytesInOrder
<1>0. /\ given \o fifo \o usb = [i \in 1..usbSent |-> i]
      /\ given \in Seq(Int) /\ fifo \in Seq(Int) /\ usb \in Seq(Int) /\ usbSent \in Nat
  BY SizesAssumption DEF UsbBytesInOrder, TypeOK, FifoInv
<1>1. CASE UNCHANGED fifoVars
  BY <1>0, <1>1 DEF fifoVars
<1>f. /\ Filled \in Seq(Int) /\ FifoRest(usb, Arriving) \in Seq(Int)
      /\ Filled \o FifoRest(usb, Arriving) = fifo \o usb
  BY Fills
<1> DEFINE rest == FifoRest(usb, Arriving)
<1>g. given \o (Filled \o rest) = [i \in 1..usbSent |-> i]
  <2>1. given \o (fifo \o usb) = [i \in 1..usbSent |-> i]
    BY <1>0, JoinInAnyOrder
  <2> QED
    BY <1>f, <2>1
<1> HIDE DEF rest
<1>2. ASSUME NEW d, NEW s, MagicSectorRead(d, s, "none")
      PROVE  given' \o fifo' \o usb' = [i \in 1..usbSent' |-> i]
  <2> DEFINE n == Min2(PayloadSize, Len(Filled))
             bytes == SubSeq(Filled, 1, n)
             left == FifoRest(Filled, n)
  <2>1. /\ usb' = rest /\ fifo' = left /\ given' = given \o bytes /\ usbSent' = usbSent
    BY <1>2 DEF MagicSectorRead, rest
  <2>2. bytes \in Seq(Int) /\ left \in Seq(Int) /\ bytes \o left = Filled /\ rest \in Seq(Int)
    BY <1>f, Drains DEF rest
  <2> HIDE DEF n, bytes, left
  <2>3. (given \o bytes) \o left = given \o Filled
    BY <1>0, <2>2, JoinInAnyOrder, ZenonT(60)
  <2>4. (given \o Filled) \o rest = given \o (Filled \o rest)
    <3>1. given \in Seq(Int) /\ Filled \in Seq(Int) /\ rest \in Seq(Int)
      BY <1>0, <1>f, <2>2
    <3> QED
      BY <3>1, JoinInAnyOrder
  <2> QED
    BY <1>g, <2>1, <2>3, <2>4
<1>3. ASSUME NEW d, NEW s, NEW b \in Blocks, MagicSectorWrite(d, s, b, "none")
      PROVE  given' \o fifo' \o usb' = [i \in 1..usbSent' |-> i]
  <2>1. usb' = rest /\ fifo' = Filled /\ given' = given /\ usbSent' = usbSent
    BY <1>3 DEF MagicSectorWrite, rest
  <2>2. (given \o Filled) \o rest = given \o (Filled \o rest)
    BY <1>0, <1>f, JoinInAnyOrder DEF rest
  <2> QED
    BY <1>g, <2>1, <2>2
<1>4. CASE UsbSends
  <2> DEFINE all == given \o fifo
  <2>1. /\ usb' = Append(usb, usbSent + 1) /\ given' \o fifo' = all /\ usbSent' = usbSent + 1
        /\ all \in Seq(Int) /\ all \o usb = [i \in 1..usbSent |-> i]
    BY <1>0, <1>4, ConcatProperties DEF UsbSends
  <2> HIDE DEF all
  <2>2. <<usbSent + 1>> \in Seq(Int) /\ usb \in Seq(Int) /\ usbSent + 1 \in Int
    BY <1>0
  <2>3. usb' = usb \o <<usbSent + 1>>
    BY <2>1, <2>2, AppendIsConcat
  <2>5. all \o usb' = (all \o usb) \o <<usbSent + 1>>
    <3> DEFINE new == <<usbSent + 1>>
    <3>1. all \in Seq(Int) /\ usb \in Seq(Int) /\ new \in Seq(Int) /\ usb' = usb \o new
      BY <2>1, <2>2, <2>3
    <3> HIDE DEF new
    <3>2. all \o usb' = (all \o usb) \o new
      BY <3>1, JoinInAnyOrder
    <3> QED
      BY <3>2 DEF new
  <2>4. [i \in 1..usbSent |-> i] \o <<usbSent + 1>> = [i \in 1..(usbSent + 1) |-> i]
    BY <1>0
  <2> QED
    BY <2>1, <2>4, <2>5
<1> QED
  BY <1>1, <1>2, <1>3, <1>4, KindsOfStep

\* Bytes of the USB host reach the Macintosh once and in order, whatever sizes the
\* message and the FIFO have and whatever is knocked meanwhile.
THEOREM UsbBytesStayInOrder == Spec => []UsbBytesInOrder
<1>1. Init => UsbBytesInOrder
  BY DEF Init, UsbBytesInOrder
<1>2. TypeOK /\ FifoInv /\ UsbBytesInOrder /\ [Next]_ndevVars => UsbBytesInOrder'
  BY StepUsbBytes
<1> QED
  BY <1>1, <1>2, NdevTypeCorrect, PTL DEF Spec

-------------------------------------------------------------------------------
(* The header of a message *)

\* A reply is built from what the FIFO held, and the next access replaces it.
LEMMA StepAvail ==
  ASSUME TypeOK, FifoInv, AvailIsTrue, [Next]_ndevVars
  PROVE  AvailIsTrue'
<1>1. CASE UNCHANGED fifoVars /\ (io'.block.kind # "reply" \/ UNCHANGED io)
  BY <1>1 DEF fifoVars, AvailIsTrue
<1>2. ASSUME NEW d, NEW s, MagicSectorRead(d, s, "none") PROVE AvailIsTrue'
  <2> DEFINE n == Min2(PayloadSize, Len(Filled))
             bytes == SubSeq(Filled, 1, n)
  <2>1. /\ Filled \in Seq(Int) /\ Len(bytes) = n /\ fifo' = FifoRest(Filled, n)
        /\ Len(FifoRest(Filled, n)) = Len(Filled) - n /\ n \in 0..Len(Filled)
    BY <1>2, Fills, Drains DEF MagicSectorRead
  <2>2. io'.block = [kind |-> "reply", avail |-> Len(Filled), bytes |-> bytes]
    BY <1>2 DEF MagicSectorRead, Avail
  <2> HIDE DEF bytes
  <2>3. io'.block.avail = Len(Filled) /\ io'.block.bytes = bytes
    BY <2>2
  <2>4. Len(io'.block.bytes) = Min2(PayloadSize, io'.block.avail)
    BY <2>1, <2>3
  <2> HIDE DEF n
  <2>5. io'.block.avail = Len(io'.block.bytes) + Len(fifo')
    BY <2>1, <2>3
  <2> QED
    BY <2>4, <2>5 DEF AvailIsTrue
<1>3. ASSUME NEW d, NEW s, NEW b \in Blocks, MagicSectorWrite(d, s, b, "none") PROVE AvailIsTrue'
  <2>1. io'.block.kind # "reply"
    BY <1>3, BlocksAssumption DEF MagicSectorWrite
  <2> QED
    BY <2>1 DEF AvailIsTrue
<1>4. CASE UsbSends
  BY <1>4 DEF UsbSends, AvailIsTrue
<1> QED
  BY <1>1, <1>2, <1>3, <1>4, KindsOfStep

\* The header of every message tells what the message carries and the FIFO still
\* holds, whatever sizes they have.
THEOREM AvailStaysTrue == Spec => []AvailIsTrue
<1>1. Init => AvailIsTrue
  BY DEF Init, AvailIsTrue, NoAccess, OnDisk
<1>2. TypeOK /\ FifoInv /\ AvailIsTrue /\ [Next]_ndevVars => AvailIsTrue'
  BY StepAvail
<1> QED
  BY <1>1, <1>2, NdevTypeCorrect, PTL DEF Spec

-------------------------------------------------------------------------------
(* The knock *)

\* Counting up to the length of the knock.
LEMMA Wraps ==
  ASSUME NEW l \in Nat \ {0}
  PROVE  l % l = 0 /\ \A a \in Nat : a < l => a % l = a
OBVIOUS

\* The sequence of accesses ends with what mac_ndev_knock counts of the knock.
LEMMA StepHeard ==
  ASSUME TypeOK, HeardInv, NEW s \in Sectors, knock' = NextKnock(s), heard' = Heard(s)
  PROVE  HeardInv' /\ (Knocked(s) => heard' = KnockSeq)
<1> DEFINE k == knock
           n == Len(heard)
           L == Len(KnockSeq)
           h == Append(heard, s)
<1>1. /\ KnockSeq \in Seq(Sectors) /\ heard \in Seq(Sectors) /\ L \in Nat \ {0} /\ n \in 0..L
      /\ k \in 0..(L - 1) /\ k <= n
      /\ \A i \in 1..k : heard[n - k + i] = KnockSeq[i]
  BY SectorsAssumption DEF TypeOK, HeardInv
<1>2. h \in Seq(Sectors) /\ Len(h) = n + 1 /\ h[n + 1] = s /\ \A i \in 1..n : h[i] = heard[i]
  BY <1>1
<1>3. heard' = IF n + 1 > L THEN Tail(h) ELSE h
  BY <1>2 DEF Heard
<1> HIDE DEF k, n, L, h
\* How many accesses are dropped from the history: one, when it is full.
<1> DEFINE o == IF n + 1 > L THEN 1 ELSE 0
<1>4. /\ heard' \in Seq(Sectors) /\ Len(heard') = n + 1 - o
      /\ \A i \in 1..(n + 1 - o) : heard'[i] = h[i + o]
      /\ o \in {0, 1} /\ k <= n - o
  <2>1. CASE n + 1 > L
    <3>1. h # <<>> /\ Tail(h) \in Seq(Sectors) /\ Len(Tail(h)) = n
          /\ \A i \in 1..n : Tail(h)[i] = h[i + 1]
      BY <1>1, <1>2
    <3> QED
      BY <1>1, <1>3, <2>1, <3>1
  <2>2. CASE ~(n + 1 > L)
    BY <1>1, <1>2, <1>3, <2>2
  <2> QED
    BY <2>1, <2>2
<1>5. CASE s = KnockSeq[k + 1]
  <2> DEFINE m == n + 1 - o
  <2>1. \A i \in 1..(k + 1) : m - (k + 1) + i \in 1..m /\ heard'[m - (k + 1) + i] = KnockSeq[i]
    <3> SUFFICES ASSUME NEW i \in 1..(k + 1)
                 PROVE  m - (k + 1) + i \in 1..m /\ heard'[m - (k + 1) + i] = KnockSeq[i]
      OBVIOUS
    <3>1. m - (k + 1) + i \in 1..m /\ m - (k + 1) + i + o = n - k + i /\ n - k + i \in 1..(n + 1)
      BY <1>1, <1>4
    <3>2. heard'[m - (k + 1) + i] = h[n - k + i]
      BY <1>4, <3>1
    <3>3. CASE i = k + 1
      <4>1. n - k + i = n + 1
        BY <1>1, <3>3
      <4> QED
        BY <1>2, <1>5, <3>1, <3>2, <3>3, <4>1
    <3>4. CASE i # k + 1
      <4>1. i \in 1..k /\ n - k + i \in 1..n
        BY <1>1, <3>4
      <4> QED
        BY <1>1, <1>2, <3>1, <3>2, <4>1
    <3> QED
      BY <3>3, <3>4
  <2>2. CASE k + 1 < L
    <3>1. knock' = k + 1
      <4>1. (k + 1) % L = k + 1
        <5>1. k + 1 \in Nat /\ L \in Nat \ {0}
          BY <1>1
        <5> QED
          BY <2>2, <5>1, Wraps
      <4> QED
        BY <1>5, <4>1 DEF NextKnock, k, L
    <3>2. ~Knocked(s)
      BY <1>1, <2>2 DEF Knocked, k, L
    <3>3. Len(heard') = m /\ knock' <= m
      BY <1>1, <1>4, <3>1
    <3> HIDE DEF m
    <3> QED
      BY <2>1, <3>1, <3>2, <3>3 DEF HeardInv
  <2>3. CASE k + 1 = L
    <3>1. knock' = 0
      <4>1. (k + 1) % L = 0
        BY <1>1, <2>3, Wraps
      <4> QED
        BY <1>5, <4>1 DEF NextKnock, k, L
    <3>2. m = L
      BY <1>1, <1>4, <2>3
    <3>3. Len(heard') = Len(KnockSeq) /\ \A i \in 1..Len(KnockSeq) : heard'[i] = KnockSeq[i]
      <4>1. \A i \in 1..L : m - (k + 1) + i = i
        BY <1>1, <2>3, <3>2
      <4> QED
        BY <1>4, <2>1, <2>3, <3>2, <4>1 DEF L
    <3>4. heard' = KnockSeq
      BY <1>1, <1>4, <3>3, SeqEqual
    <3> QED
      BY <1>1, <1>4, <3>1, <3>4 DEF HeardInv, L
  <2> QED
    BY <1>1, <2>2, <2>3
<1>6. CASE s # KnockSeq[k + 1]
  <2>1. knock' = 0 /\ ~Knocked(s)
    BY <1>6 DEF NextKnock, Knocked, k
  <2> QED
    BY <1>1, <1>4, <2>1 DEF HeardInv
<1> QED
  BY <1>5, <1>6

\* However the accesses of all programs to all drives are mixed, the device begins
\* to take accesses only right after the whole knock (mac_ndev_detect_knock_sequence).
THEOREM OnlyTheKnockArms == Spec => ArmedByKnockOnly
<1>1. Init => HeardInv
  BY DEF Init, HeardInv
<1>2. ASSUME TypeOK, HeardInv, NEW d \in Drives, NEW s \in Sectors \cup {NegativeLBA}, NEW m, NEW b,
             Access(d, s, m, b)
      PROVE  /\ HeardInv'
             /\ state \in {"knock", "magicSector"} /\ state' \in {"magicWrite", "magicRead"}
                  => heard' = KnockSeq
  <2>1. CASE s = NegativeLBA /\ NegativeAccess(d, m, b)
    BY <1>2, <2>1 DEF NegativeAccess, HeardInv
  <2>2. CASE s # NegativeLBA /\ knock' = NextKnock(s) /\ heard' = Heard(s)
    <3>1. HeardInv' /\ (Knocked(s) => heard' = KnockSeq)
      BY <1>2, <2>2, StepHeard
    <3>2. state \in {"knock", "magicSector"} /\ state' \in {"magicWrite", "magicRead"} => Knocked(s)
      BY <1>2, <2>2 DEF Access, KnockAccess, MagicWrite, MagicRead, MessageAccess, OrdinaryAccess
    <3> QED
      BY <3>1, <3>2
  <2> QED
    BY <1>2, <2>1, <2>2 DEF Access
<1>3. TypeOK /\ HeardInv /\ [Next]_ndevVars =>
        /\ HeardInv'
        /\ [(state \in {"knock", "magicSector"} /\ state' \in {"magicWrite", "magicRead"})
              => heard' = KnockSeq]_ndevVars
  <2>1. CASE UsbSends \/ UNCHANGED ndevVars
    BY <2>1 DEF UsbSends, ndevVars, devVars, HeardInv
  <2> QED
    BY <1>2, <2>1 DEF Next
<1> QED
  BY <1>1, <1>3, NdevTypeCorrect, PTL DEF Spec, ArmedByKnockOnly

===============================================================================
