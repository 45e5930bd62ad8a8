-------------------------- MODULE FujiLoopback_proofs --------------------------
(* Proofs about the way of a byte from one end to the other and back, for any    *)
(* sizes of blocks, messages and FIFO, either driver and either configuration of *)
(* the Pico, and any failures: no byte is repeated or overtaken; none is lost    *)
(* without one of the known reasons; what SerGetBuf answers, what a failed       *)
(* comparison means and, for messages of at most half the FIFO, when the FIFO    *)
(* overflows.                                                                    *)
EXTENDS FujiLoopback, SequenceTheorems, TLAPS

\* The handshake is done, and only the agreed sector is accessed.
Wired == state = "magicSector" /\ knock = 0 /\ drive = 1 /\ sector = 9

\* The Pico gives away the next bytes of its FIFO, and tells how many it still has.
Popped(first, left) ==
  /\ {first, fifo', usb'} \subseteq Seq(Int)
  /\ first \o (fifo' \o usb') = fifo \o usb
  /\ left = Len(fifo') /\ Len(first) + Len(fifo') \in Len(fifo)..FifoSize
  /\ Len(first) = IF left > 0 THEN PayloadSize ELSE Len(first)
  /\ Len(first) <= PayloadSize
  /\ setup.pico = "loopback" => usb' = usb

\* A transfer that brings a block.
Fetched == Popped(incoming', extra') /\ UNCHANGED <<host, lossVars>>

\* A transfer that takes a block: into the FIFO, if it fits, or to the USB host.
Sent(bytes) ==
  /\ {fifo', usb', host'} \subseteq Seq(Int) /\ Len(fifo') \in Len(fifo)..FifoSize
  /\ setup.pico = "loopback" =>
       /\ UNCHANGED <<usb, host>>
       /\ \/ fifo' = fifo \o bytes /\ UNCHANGED dropped /\ Len(fifo) + Len(bytes) <= FifoSize
          \/ UNCHANGED fifo /\ dropped' /\ Len(fifo) + Len(bytes) > FifoSize
  /\ setup.pico # "loopback" =>
       fifo' \o usb' = fifo \o usb /\ host' = host \o bytes /\ UNCHANGED dropped

\* The driver's buffers and the Pico's are within their arrays; and what the driver
\* believes to be left in the Pico is there, unless a reply was lost.
DeviceInv ==
  /\ Wired /\ {fifo, usb, host, outgoing, incoming, back} \subseteq Seq(Int)
  /\ {refill, broken, dropped, spanned} \subseteq BOOLEAN /\ losses \in Nat
  /\ setup.driver \in {"async", "basic"} /\ setup.serGet \in BOOLEAN /\ setup.size \in Sizes
  /\ Len(fifo) <= FifoSize /\ Len(incoming) <= PayloadSize /\ Len(outgoing) <= PayloadSize
  /\ filled \in 0..PayloadSize /\ (Async => Len(incoming) <= filled)
  /\ extra \in 0..(FifoSize - PayloadSize) /\ (~Astray => extra <= Len(fifo))
  /\ Len(incoming) + extra <= FifoSize
  /\ Basic => outgoing = <<>>
  /\ setup.pico = "loopback" => usb = <<>> /\ host = <<>>
  /\ dropped => setup.pico = "loopback"
  /\ refill => Async /\ incoming = <<>> /\ outgoing = <<>>

\* What doStatus has added up is what the driver holds, unless a fetch came between.
AskInv ==
  /\ sum \in 0..PayloadSize /\ {torn, missed} \subseteq BOOLEAN
  /\ pc \in {"actCount", "avail"} => setup.serGet
  /\ pc = "actCount" => Async
  /\ pc = "actCount" /\ torn => Len(incoming) = filled
  /\ pc = "actCount" /\ ~torn => sum = filled
  /\ pc = "avail" /\ Async /\ ~torn => sum = Len(incoming)

\* The request the benchmark has made, and what it has counted.
Slack == IF torn THEN PayloadSize ELSE 0
RequestInv ==
  /\ {act, want, written, got, writes} \subseteq Nat /\ msg \in Seq(Int) /\ timeUp \in BOOLEAN
  /\ pc \in {"loop", "writing", "check", "actCount", "avail", "reading", "mismatch", "done", "failed"}
  /\ act <= want /\ want <= BufferSize /\ Len(msg) = want /\ got <= written
  /\ writes <= MaxWrites /\ (writes = MaxWrites => timeUp)
  /\ pc = "writing" => want = setup.size /\ \A i \in 1..want : msg[i] = written + i
  /\ pc \in {"reading", "mismatch"} => Len(back) = got + act
  /\ pc = "reading" /\ setup.serGet /\ ~Astray =>
       want - act <= Len(incoming) + Len(fifo) + Len(usb) + Slack
  /\ pc = "reading" /\ ~setup.serGet => want <= written - got
  /\ pc \notin {"reading", "mismatch", "failed"} => Len(back) = got

\* What the driver is still to send.
Sending == IF broken THEN <<>> ELSE outgoing
\* Every byte the driver has taken is on its way or back.
OnWay == Len(back) + Len(incoming) + Len(fifo) + Len(usb) + Len(host)
Accepted == IF pc = "writing" THEN written + act ELSE written
CountInv ==
  /\ pc # "failed" => OnWay + Len(Sending) <= Accepted
  /\ ~dropped /\ ~Astray => OnWay + Len(outgoing) >= Accepted

\* The bytes on their way stand in a line; o are those at its end.
Way(b, i, f, u, h, o) == b \o (i \o (f \o (u \o (h \o o))))
WayOf(o) == Way(back, incoming, fifo, usb, host, o)
LineInv == ~dropped /\ ~Astray => WayOf(outgoing) = [i \in 1..Len(WayOf(outgoing)) |-> i]

\* Each byte has the number of its place in what was written.
Rises(s) == \A i, j \in 1..Len(s) : i < j => s[i] < s[j]
UpTo(s, m) == \A i \in 1..Len(s) : s[i] <= m
OrderInv == Rises(WayOf(Sending)) /\ (pc # "failed" => UpTo(WayOf(Sending), Accepted))

WayInv == DeviceInv /\ AskInv /\ RequestInv /\ CountInv

-------------------------------------------------------------------------------
(* Queues *)

\* Cutting a queue in two loses nothing.
LEMMA CutInTwo ==
  ASSUME NEW S, NEW s \in Seq(S), NEW n \in 0..Len(s)
  PROVE  /\ SubSeq(s, 1, n) \in Seq(S) /\ Len(SubSeq(s, 1, n)) = n
         /\ SubSeq(s, n + 1, Len(s)) \in Seq(S) /\ Len(SubSeq(s, n + 1, Len(s))) = Len(s) - n
         /\ SubSeq(s, 1, n) \o SubSeq(s, n + 1, Len(s)) = s
         /\ \A i \in 1..n : SubSeq(s, 1, n)[i] = s[i]
<1>1. Len(s) \in Nat /\ \A i \in 1..Len(s) : s[i] \in S
  OBVIOUS
<1>2. /\ SubSeq(s, 1, n) \in Seq(S) /\ Len(SubSeq(s, 1, n)) = n
      /\ \A i \in 1..n : SubSeq(s, 1, n)[i] = s[i]
  BY <1>1
<1>3. /\ SubSeq(s, n + 1, Len(s)) \in Seq(S) /\ Len(SubSeq(s, n + 1, Len(s))) = Len(s) - n
  BY <1>1
<1>4. SubSeq(s, 1, n) \o SubSeq(s, n + 1, Len(s)) = SubSeq(s, 1, Len(s))
  <2>1. 1 \in 1..(Len(s) + 1) /\ n \in (1 - 1)..Len(s) /\ Len(s) \in n..Len(s)
    BY <1>1
  <2> QED
    BY <2>1, ConcatAdjacentSubSeq
<1> QED
  BY <1>2, <1>3, <1>4, SubSeqFull

\* Queues are joined in any order of joining.
LEMMA JoinInAnyOrder ==
  ASSUME NEW s \in Seq(Int), NEW t \in Seq(Int), NEW u \in Seq(Int)
  PROVE  (s \o t) \o u = s \o (t \o u)
OBVIOUS

\* And what is joined is a queue.
LEMMA JoinAsOne ==
  ASSUME NEW s \in Seq(Int), NEW t \in Seq(Int), NEW u \in Seq(Int)
  PROVE  s \o t \in Seq(Int) /\ (s \o t) \o u = s \o (t \o u)
<1>1. s \o t \in Seq(Int)
  BY ConcatProperties
<1> QED
  BY <1>1, JoinInAnyOrder

\* The part of a message from one byte on.
LEMMA PartOf ==
  ASSUME NEW s \in Seq(Int), NEW a \in Nat, NEW n \in Nat, a + n <= Len(s)
  PROVE  /\ SubSeq(s, a + 1, a + n) \in Seq(Int) /\ Len(SubSeq(s, a + 1, a + n)) = n
         /\ \A i \in 1..n : SubSeq(s, a + 1, a + n)[i] = s[a + i]
<1>1. Len(s) \in Nat /\ \A i \in 1..Len(s) : s[i] \in Int
  OBVIOUS
<1> QED
  BY <1>1

\* What moves from USB into the FIFO fits; nothing moves where there is no host.
LEMMA Fills ==
  ASSUME fifo \in Seq(Int), usb \in Seq(Int), Len(fifo) <= FifoSize,
         NEW a, a = Usb!Min2(FifoSize - Len(fifo), Len(usb)) \/ a = 0,
         NEW full, full = fifo \o SubSeq(usb, 1, a),
         NEW rest, rest = SubSeq(usb, a + 1, Len(usb))
  PROVE  /\ full \in Seq(Int) /\ Len(full) \in Len(fifo)..FifoSize
         /\ rest \in Seq(Int) /\ full \o rest = fifo \o usb
         /\ a = 0 => full = fifo /\ rest = usb
<1>1. Len(fifo) \in Nat /\ Len(usb) \in Nat /\ FifoSize \in Nat
  BY LoopbackAssumption
<1>2. a \in 0..Len(usb) /\ Len(fifo) + a <= FifoSize
  <2>1. CASE a = 0
    BY <1>1, <2>1
  <2>2. CASE a = Usb!Min2(FifoSize - Len(fifo), Len(usb))
    BY <1>1, <2>2 DEF Usb!Min2
  <2> QED
    BY <2>1, <2>2
<1> DEFINE new == SubSeq(usb, 1, a)
<1>3. new \in Seq(Int) /\ Len(new) = a /\ rest \in Seq(Int) /\ new \o rest = usb /\ full = fifo \o new
  BY <1>2, CutInTwo
<1>6. a = 0 => full = fifo /\ rest = usb
  <2> SUFFICES ASSUME a = 0 PROVE full = fifo /\ rest = usb
    OBVIOUS
  <2>1. new = <<>>
    BY <1>3
  <2> HIDE DEF new
  <2> QED
    BY <1>3, <2>1, ConcatEmptySeq
<1> HIDE DEF new
<1>4. full \in Seq(Int) /\ Len(full) = Len(fifo) + a
  <2>1. fifo \in Seq(Int) /\ new \in Seq(Int)
    BY <1>3
  <2>2. fifo \o new \in Seq(Int) /\ Len(fifo \o new) = Len(fifo) + Len(new)
    BY <2>1, ConcatProperties
  <2> QED
    BY <1>3, <2>2
<1>5. full \o rest = fifo \o usb
  <2>1. fifo \in Seq(Int) /\ new \in Seq(Int) /\ rest \in Seq(Int)
    BY <1>3
  <2>2. (fifo \o new) \o rest = fifo \o (new \o rest)
    BY <2>1, JoinInAnyOrder, ZenonT(60)
  <2> QED
    BY <1>3, <2>2
<1>7. Len(full) \in Len(fifo)..FifoSize
  BY <1>1, <1>2, <1>4
<1> QED
  BY <1>3, <1>4, <1>5, <1>6, <1>7

-------------------------------------------------------------------------------
(* Transfers *)

\* With the handshake done, an access of the agreed sector carries a message.
LEMMA AccessCarries ==
  ASSUME Wired, NEW m \in {"read", "write"}, NEW b, Access(m, b)
  PROVE  /\ Wired'
         /\ IF setup.pico = "loopback" THEN Loop!MagicSectorIO(1, 9, m, b, "none")
                                       ELSE Usb!MagicSectorIO(1, 9, m, b, "none")
<1>1. CASE setup.pico = "loopback"
  <2>1. Loop!Access(1, 9, m, b)
    BY <1>1 DEF Access
  <2>2. Loop!NextKnock(9) = 0 /\ ~Loop!Knocked(9) /\ Loop!IsMagicSector(1, 9)
    BY DEF Wired, Loop!NextKnock, Loop!Knocked, Loop!IsMagicSector
  <2>3. knock' = 0 /\ Loop!MessageAccess(1, 9, m, b)
    BY <2>1, <2>2 DEF Wired, Loop!Access, Loop!KnockAccess, Loop!MagicWrite, Loop!MagicRead,
         Loop!OrdinaryAccess
  <2> QED
    BY <1>1, <2>3 DEF Wired, Loop!MessageAccess
<1>2. CASE setup.pico # "loopback"
  <2>1. Usb!Access(1, 9, m, b)
    BY <1>2 DEF Access
  <2>2. Usb!NextKnock(9) = 0 /\ ~Usb!Knocked(9) /\ Usb!IsMagicSector(1, 9)
    BY DEF Wired, Usb!NextKnock, Usb!Knocked, Usb!IsMagicSector
  <2>3. knock' = 0 /\ Usb!MessageAccess(1, 9, m, b)
    BY <2>1, <2>2 DEF Wired, Usb!Access, Usb!KnockAccess, Usb!MagicWrite, Usb!MagicRead,
         Usb!OrdinaryAccess
  <2> QED
    BY <1>2, <2>3 DEF Wired, Usb!MessageAccess
<1> QED
  BY <1>1, <1>2

\* What a reply carries, and what stays.
LEMMA Splits ==
  ASSUME NEW full \in Seq(Int), NEW rest \in Seq(Int), Len(full) <= FifoSize,
         NEW n, n = Loop!Min2(PayloadSize, Len(full))
  PROVE  LET first == SubSeq(full, 1, n)
             last == SubSeq(full, n + 1, Len(full))
         IN /\ first \in Seq(Int) /\ last \in Seq(Int) /\ first \o (last \o rest) = full \o rest
            /\ Extra(Len(full)) = Len(last) /\ Len(first) + Len(last) = Len(full)
            /\ Len(first) <= PayloadSize /\ (Len(last) > 0 => Len(first) = PayloadSize)
<1> DEFINE first == SubSeq(full, 1, n)
           last == SubSeq(full, n + 1, Len(full))
<1>1. Len(full) \in Nat /\ PayloadSize \in Nat
  BY LoopbackAssumption
<1>2. n \in 0..Len(full) /\ n <= PayloadSize /\ (n < Len(full) => n = PayloadSize)
  BY <1>1 DEF Loop!Min2
<1>3. Extra(Len(full)) = Len(full) - n
  BY <1>1 DEF Loop!Min2, Extra
<1>4. /\ first \in Seq(Int) /\ Len(first) = n /\ last \in Seq(Int) /\ Len(last) = Len(full) - n
      /\ first \o last = full
  BY <1>2, CutInTwo
<1> HIDE DEF first, last
<1>5. (first \o last) \o rest = first \o (last \o rest)
  <2>1. first \in Seq(Int) /\ last \in Seq(Int) /\ rest \in Seq(Int)
    BY <1>4
  <2> QED
    BY <2>1, JoinInAnyOrder, ZenonT(60)
<1>6. Len(last) > 0 => Len(first) = PayloadSize
  BY <1>1, <1>2, <1>4
<1>7. Len(first) + Len(last) = Len(full) /\ Len(first) <= PayloadSize
  BY <1>1, <1>2, <1>4
<1> QED
  BY <1>3, <1>4, <1>5, <1>6, <1>7 DEF first, last

\* A read brings the bytes the FIFO has had longest.
LEMMA Pops ==
  ASSUME Wired, fifo \in Seq(Int), usb \in Seq(Int), Len(fifo) <= FifoSize,
         Access("read", Loop!OnDisk)
  PROVE  Wired' /\ Popped(io'.block.bytes, Extra(io'.block.avail))
<1> DEFINE bytes == io'.block.bytes
           left == Extra(io'.block.avail)
<1>0. Len(fifo) \in Nat /\ FifoSize \in Nat
  BY LoopbackAssumption
<1>1. Access("read", Loop!OnDisk)
  OBVIOUS
<1>2. CASE setup.pico = "loopback"
  <2>1. Wired' /\ Loop!MagicSectorRead(1, 9, "none")
    BY <1>1, <1>2, AccessCarries DEF Loop!MagicSectorIO
  <2> DEFINE full == Loop!Filled
             n == Loop!Min2(PayloadSize, Len(full))
             first == SubSeq(full, 1, n)
             last == SubSeq(full, n + 1, Len(full))
             a == 0
  <2>2. /\ usb' = SubSeq(usb, a + 1, Len(usb)) /\ fifo' = last
        /\ io'.block = [kind |-> "reply", avail |-> Len(full), bytes |-> first]
    BY <2>1 DEF Loop!MagicSectorRead, Loop!FifoRest, Loop!Arriving, Loop!Avail, Loop!Min2, Loop!Min2
  <2>3. full = fifo \o SubSeq(usb, 1, a)
    BY DEF Loop!Filled, Loop!Arriving
  <2>4. n = Loop!Min2(PayloadSize, Len(full))
    OBVIOUS
  <2> HIDE DEF full, n, first, last
  <2>6. /\ full \in Seq(Int) /\ Len(full) \in Len(fifo)..FifoSize
        /\ usb' \in Seq(Int) /\ full \o usb' = fifo \o usb /\ usb' = usb
    BY <2>2, <2>3, Fills
  <2>7. bytes = first /\ left = Extra(Len(full))
    BY <2>2
  <2>8. Len(full) <= FifoSize /\ full \in Seq(Int) /\ usb' \in Seq(Int)
    BY <2>6
  <2>9. /\ first \in Seq(Int) /\ last \in Seq(Int) /\ first \o (last \o usb') = full \o usb'
        /\ Extra(Len(full)) = Len(last) /\ Len(first) + Len(last) = Len(full)
        /\ Len(first) <= PayloadSize /\ (Len(last) > 0 => Len(first) = PayloadSize)
    BY <2>4, <2>8, Splits, ZenonT(60) DEF first, last
  <2>10. Len(first) + Len(last) \in Len(fifo)..FifoSize
    BY <1>0, <2>6, <2>9
  <2> QED
    BY <1>2, <2>1, <2>2, <2>6, <2>7, <2>9, <2>10 DEF Popped
<1>3. CASE setup.pico # "loopback"
  <2>1. Wired' /\ Usb!MagicSectorRead(1, 9, "none")
    BY <1>1, <1>3, AccessCarries DEF Usb!MagicSectorIO
  <2> DEFINE full == Usb!Filled
             n == Loop!Min2(PayloadSize, Len(full))
             first == SubSeq(full, 1, n)
             last == SubSeq(full, n + 1, Len(full))
             a == Usb!Min2(FifoSize - Len(fifo), Len(usb))
  <2>2. /\ usb' = SubSeq(usb, a + 1, Len(usb)) /\ fifo' = last
        /\ io'.block = [kind |-> "reply", avail |-> Len(full), bytes |-> first]
    BY <2>1 DEF Usb!MagicSectorRead, Usb!FifoRest, Usb!Arriving, Usb!Avail, Usb!Min2, Loop!Min2
  <2>3. full = fifo \o SubSeq(usb, 1, a)
    BY DEF Usb!Filled, Usb!Arriving
  <2>4. n = Loop!Min2(PayloadSize, Len(full))
    OBVIOUS
  <2> HIDE DEF full, n, first, last
  <2>6. /\ full \in Seq(Int) /\ Len(full) \in Len(fifo)..FifoSize
        /\ usb' \in Seq(Int) /\ full \o usb' = fifo \o usb
    BY <2>2, <2>3, Fills
  <2>7. bytes = first /\ left = Extra(Len(full))
    BY <2>2
  <2>8. Len(full) <= FifoSize /\ full \in Seq(Int) /\ usb' \in Seq(Int)
    BY <2>6
  <2>9. /\ first \in Seq(Int) /\ last \in Seq(Int) /\ first \o (last \o usb') = full \o usb'
        /\ Extra(Len(full)) = Len(last) /\ Len(first) + Len(last) = Len(full)
        /\ Len(first) <= PayloadSize /\ (Len(last) > 0 => Len(first) = PayloadSize)
    BY <2>4, <2>8, Splits, ZenonT(60) DEF first, last
  <2>10. Len(first) + Len(last) \in Len(fifo)..FifoSize
    BY <1>0, <2>6, <2>9
  <2> QED
    BY <1>3, <2>1, <2>2, <2>6, <2>7, <2>9, <2>10 DEF Popped
<1> QED
  BY <1>2, <1>3

\* The driver has them then.
LEMMA Fetches ==
  ASSUME Wired, fifo \in Seq(Int), usb \in Seq(Int), Len(fifo) <= FifoSize, ReadBlock
  PROVE  Wired' /\ Fetched
<1>1. /\ Access("read", Loop!OnDisk) /\ incoming' = io'.block.bytes
      /\ extra' = Extra(io'.block.avail) /\ UNCHANGED <<host, lossVars>>
  BY DEF ReadBlock
<1> QED
  BY <1>1, Pops DEF Fetched

\* Or nobody has: the Pico has given nothing away, or its bytes have gone astray.
LEMMA Loses ==
  ASSUME Wired, fifo \in Seq(Int), usb \in Seq(Int), Len(fifo) <= FifoSize, losses \in Nat, LosesReply
  PROVE  /\ Wired' /\ UNCHANGED <<host, dropped>> /\ losses' \in {losses, losses + 1}
         /\ \/ UNCHANGED <<fifo, usb, losses>>
            \/ \E first, left : /\ Popped(first, left)
                                /\ losses' = losses => first = <<>>
<1>1. CASE NotHeard
  <2>1. UNCHANGED <<state, knock, drive, sector, fifo, usb, host, dropped, losses>>
    BY <1>1 DEF NotHeard, picoVars, lossVars
  <2> QED
    BY <2>1 DEF Wired
<1>2. CASE /\ Access("read", Loop!OnDisk)
           /\ IF io'.block.bytes = <<>> THEN UNCHANGED losses ELSE Lose
           /\ UNCHANGED <<host, dropped>>
  <2>1. Wired' /\ Popped(io'.block.bytes, Extra(io'.block.avail))
    BY <1>2, Pops
  <2>2. losses' \in {losses, losses + 1} /\ (losses' = losses => io'.block.bytes = <<>>)
    BY <1>2 DEF Lose
  <2> QED
    BY <1>2, <2>1, <2>2
<1> QED
  BY <1>1, <1>2 DEF LosesReply

\* A write is at the end of the FIFO, or on its way to the host.
LEMMA Sends ==
  ASSUME Wired, fifo \in Seq(Int), usb \in Seq(Int), host \in Seq(Int), Len(fifo) <= FifoSize,
         dropped \in BOOLEAN, NEW bytes \in Seq(Int), WriteBlock(bytes)
  PROVE  Wired' /\ Sent(bytes)
<1>1. /\ Access("write", Loop!Request(bytes)) /\ host' = host \o put'
      /\ dropped' = (dropped \/ (setup.pico = "loopback" /\ Len(fifo) + Len(bytes) > FifoSize))
  BY DEF WriteBlock
<1>2. Loop!Request(bytes).kind = "request" /\ Loop!Request(bytes).bytes = bytes
  BY DEF Loop!Request
<1>n. Len(fifo) \in Nat /\ Len(bytes) \in Nat /\ FifoSize \in Nat
  BY LoopbackAssumption
<1>3. CASE setup.pico = "loopback"
  <2>1. Wired' /\ Loop!MagicSectorWrite(1, 9, Loop!Request(bytes), "none")
    BY <1>1, <1>3, AccessCarries DEF Loop!MagicSectorIO
  <2>2. usb' = SubSeq(usb, 1, Len(usb)) /\ fifo' = Loop!FifoPut(fifo, bytes) /\ put' = <<>>
    BY <1>2, <2>1 DEF Loop!MagicSectorWrite, Loop!FifoRest, Loop!Arriving
  <2>3. usb' = usb /\ host' = host
    BY <1>1, <2>2, SubSeqFull, ConcatEmptySeq
  <2>4. CASE Len(fifo) + Len(bytes) <= FifoSize
    <3>1. fifo' = fifo \o bytes /\ dropped' = dropped
      BY <1>1, <1>n, <2>2, <2>4 DEF Loop!FifoPut
    <3>2. fifo' \in Seq(Int) /\ Len(fifo') = Len(fifo) + Len(bytes)
      BY <3>1, ConcatProperties
    <3>3. Len(fifo') \in Len(fifo)..FifoSize
      BY <1>n, <2>4, <3>2
    <3> QED
      BY <1>3, <2>1, <2>3, <2>4, <3>1, <3>2, <3>3 DEF Sent
  <2>5. CASE Len(fifo) + Len(bytes) > FifoSize
    <3>1. fifo' = fifo
      BY <1>n, <2>2, <2>5 DEF Loop!FifoPut
    <3>4. dropped'
      BY <1>1, <1>3, <2>5
    <3>2. Len(fifo') \in Len(fifo)..FifoSize
      BY <1>n, <3>1
    <3> QED
      BY <1>3, <2>1, <2>3, <2>5, <3>1, <3>2, <3>4 DEF Sent
  <2> QED
    BY <1>n, <2>4, <2>5
<1>4. CASE setup.pico # "loopback"
  <2>1. Wired' /\ Usb!MagicSectorWrite(1, 9, Loop!Request(bytes), "none")
    BY <1>1, <1>4, AccessCarries DEF Usb!MagicSectorIO
  <2> DEFINE full == Usb!Filled
             a == Usb!Min2(FifoSize - Len(fifo), Len(usb))
  <2>2. usb' = SubSeq(usb, a + 1, Len(usb)) /\ fifo' = full /\ put' = bytes
    BY <1>2, <2>1 DEF Usb!MagicSectorWrite, Usb!FifoRest, Usb!Arriving
  <2>3. full = fifo \o SubSeq(usb, 1, a)
    BY DEF Usb!Filled, Usb!Arriving
  <2> HIDE DEF full
  <2>4. /\ full \in Seq(Int) /\ Len(full) \in Len(fifo)..FifoSize
        /\ usb' \in Seq(Int) /\ full \o usb' = fifo \o usb
    BY <2>2, <2>3, Fills
  <2>5. host' = host \o bytes /\ host' \in Seq(Int) /\ dropped' = dropped
    BY <1>1, <1>4, <2>2, ConcatProperties
  <2> QED
    BY <1>4, <2>1, <2>2, <2>4, <2>5 DEF Sent
<1> QED
  BY <1>3, <1>4

-------------------------------------------------------------------------------
(* The line *)

\* Each of S is a queue of numbers.
Queues(S) == S \subseteq Seq(Int)

\* NothingLost joins from the left; nothing is counted twice.
LEMMA Lined ==
  ASSUME NEW b, NEW i, NEW f, NEW u, NEW h, NEW o, Queues({b, i, f, u, h, o})
  PROVE  /\ b \o i \o f \o u \o h \o o = Way(b, i, f, u, h, o)
         /\ Way(b, i, f, u, h, o) \in Seq(Int)
         /\ Len(Way(b, i, f, u, h, o)) = Len(b) + Len(i) + Len(f) + Len(u) + Len(h) + Len(o)
<1> DEFINE atHost == h \o o
           fromUsb == u \o atHost
           fromFifo == f \o fromUsb
           fromDriver == i \o fromFifo
<1>0. {b, i, f, u, h, o} \subseteq Seq(Int)
  BY DEF Queues
<1>1. h \in Seq(Int) /\ o \in Seq(Int) /\ atHost \in Seq(Int) /\ Len(atHost) = Len(h) + Len(o)
  BY <1>0, ConcatProperties
<1> HIDE DEF atHost
<1>2. u \in Seq(Int) /\ fromUsb \in Seq(Int) /\ Len(fromUsb) = Len(u) + Len(atHost)
  BY <1>0, <1>1, ConcatProperties
<1> HIDE DEF fromUsb
<1>3. f \in Seq(Int) /\ fromFifo \in Seq(Int) /\ Len(fromFifo) = Len(f) + Len(fromUsb)
  BY <1>0, <1>2, ConcatProperties
<1> HIDE DEF fromFifo
<1>4. i \in Seq(Int) /\ fromDriver \in Seq(Int) /\ Len(fromDriver) = Len(i) + Len(fromFifo)
  BY <1>0, <1>3, ConcatProperties
<1> HIDE DEF fromDriver
<1>5. b \in Seq(Int) /\ b \o fromDriver \in Seq(Int) /\ Len(b \o fromDriver) = Len(b) + Len(fromDriver)
  BY <1>0, <1>4, ConcatProperties
<1> DEFINE toDriver == b \o i
           toFifo == toDriver \o f
           toUsb == toFifo \o u
<1>6. toDriver \in Seq(Int) /\ toDriver \o fromFifo = b \o fromDriver
  <2>1. b \in Seq(Int) /\ i \in Seq(Int) /\ fromFifo \in Seq(Int)
    BY <1>0, <1>3
  <2> QED
    BY <2>1, JoinAsOne, ZenonT(60) DEF toDriver, fromDriver
<1> HIDE DEF toDriver
<1>7. toFifo \in Seq(Int) /\ toFifo \o fromUsb = toDriver \o fromFifo
  <2>1. toDriver \in Seq(Int) /\ f \in Seq(Int) /\ fromUsb \in Seq(Int)
    BY <1>0, <1>2, <1>6
  <2> QED
    BY <2>1, JoinAsOne, ZenonT(60) DEF toFifo, fromFifo
<1> HIDE DEF toFifo
<1>8. toUsb \in Seq(Int) /\ toUsb \o atHost = toFifo \o fromUsb
  <2>1. toFifo \in Seq(Int) /\ u \in Seq(Int) /\ atHost \in Seq(Int)
    BY <1>0, <1>1, <1>7
  <2> QED
    BY <2>1, JoinAsOne, ZenonT(60) DEF toUsb, fromUsb
<1> HIDE DEF toUsb
<1>9. (toUsb \o h) \o o = toUsb \o atHost
  <2>1. toUsb \in Seq(Int) /\ h \in Seq(Int) /\ o \in Seq(Int)
    BY <1>0, <1>8
  <2> QED
    BY <2>1, JoinAsOne, ZenonT(60) DEF atHost
<1>10. b \o i \o f \o u \o h \o o = b \o fromDriver
  BY <1>6, <1>7, <1>8, <1>9 DEF toDriver, toFifo, toUsb
<1>11. Len(b \o fromDriver) = Len(b) + Len(i) + Len(f) + Len(u) + Len(h) + Len(o)
  <2>1. {Len(b), Len(i), Len(f), Len(u), Len(h), Len(o)} \subseteq Nat
    BY <1>0
  <2> QED
    BY <1>1, <1>2, <1>3, <1>4, <1>5, <2>1
<1> QED
  BY <1>5, <1>10, <1>11 DEF fromDriver, fromFifo, fromUsb, atHost, Way

\* What joins the last queue joins the line.
LEMMA LineGrows ==
  ASSUME NEW b, NEW i, NEW f, NEW u, NEW h, NEW o, NEW x, Queues({b, i, f, u, h, o, x})
  PROVE  Way(b, i, f, u, h, o \o x) = Way(b, i, f, u, h, o) \o x
<1> DEFINE atHost == h \o o
           fromUsb == u \o atHost
           fromFifo == f \o fromUsb
           fromDriver == i \o fromFifo
<1>0. {b, i, f, u, h, o, x} \subseteq Seq(Int)
  BY DEF Queues
<1>2. atHost \in Seq(Int) /\ h \o (o \o x) = atHost \o x
  <2>1. h \in Seq(Int) /\ o \in Seq(Int) /\ x \in Seq(Int)
    BY <1>0
  <2> QED
    BY <2>1, JoinAsOne, ZenonT(60) DEF atHost
<1> HIDE DEF atHost
<1>3. fromUsb \in Seq(Int) /\ u \o (atHost \o x) = fromUsb \o x
  <2>1. u \in Seq(Int) /\ atHost \in Seq(Int) /\ x \in Seq(Int)
    BY <1>0, <1>2
  <2> QED
    BY <2>1, JoinAsOne, ZenonT(60) DEF fromUsb
<1> HIDE DEF fromUsb
<1>4. fromFifo \in Seq(Int) /\ f \o (fromUsb \o x) = fromFifo \o x
  <2>1. f \in Seq(Int) /\ fromUsb \in Seq(Int) /\ x \in Seq(Int)
    BY <1>0, <1>3
  <2> QED
    BY <2>1, JoinAsOne, ZenonT(60) DEF fromFifo
<1> HIDE DEF fromFifo
<1>5. fromDriver \in Seq(Int) /\ i \o (fromFifo \o x) = fromDriver \o x
  <2>1. i \in Seq(Int) /\ fromFifo \in Seq(Int) /\ x \in Seq(Int)
    BY <1>0, <1>4
  <2> QED
    BY <2>1, JoinAsOne, ZenonT(60) DEF fromDriver
<1> HIDE DEF fromDriver
<1>6. b \o (fromDriver \o x) = (b \o fromDriver) \o x
  <2>1. b \in Seq(Int) /\ fromDriver \in Seq(Int) /\ x \in Seq(Int)
    BY <1>0, <1>5
  <2> QED
    BY <2>1, JoinAsOne, ZenonT(60)
<1> QED
  BY <1>2, <1>3, <1>4, <1>5, <1>6 DEF fromDriver, fromFifo, fromUsb, atHost, Way

\* The next numbers at the end of a line of numbers.
LEMMA CountsOn ==
  ASSUME NEW s \in Seq(Int), s = [i \in 1..Len(s) |-> i], NEW x \in Seq(Int),
         \A i \in 1..Len(x) : x[i] = Len(s) + i
  PROVE  s \o x = [i \in 1..Len(s \o x) |-> i]
<1>1. Len(s) \in Nat /\ Len(x) \in Nat /\ Len(s \o x) = Len(s) + Len(x)
  BY ConcatProperties
<1> DEFINE sx == s \o x
<1>2. sx \in Seq(Int) /\ \A i \in 1..(Len(s) + Len(x)) : sx[i] = i
  BY <1>1, ConcatProperties
<1>3. Len(sx) = Len(s) + Len(x)
  BY <1>1
<1> HIDE DEF sx
<1>4. sx = [i \in 1..Len(sx) |-> i]
  BY <1>1, <1>2, <1>3
<1> QED
  BY <1>4 DEF sx

\* Where a byte stands in the line is its number.
LEMMA NumberIsPlace ==
  ASSUME NEW a \in Seq(Int), NEW b \in Seq(Int), NEW r \in Seq(Int),
         NEW l, l = a \o (b \o r), l = [i \in 1..Len(l) |-> i]
  PROVE  \A i \in 1..Len(b) : b[i] = Len(a) + i
<1> SUFFICES ASSUME NEW i \in 1..Len(b) PROVE b[i] = Len(a) + i
  OBVIOUS
<1> DEFINE br == b \o r
<1>1. br \in Seq(Int) /\ Len(br) = Len(b) + Len(r) /\ br[i] = b[i] /\ Len(b) \in Nat /\ Len(r) \in Nat
  BY ConcatProperties
<1> HIDE DEF br
<1>2. Len(a) \in Nat /\ i \in Nat /\ 1 <= i /\ i <= Len(br)
  BY <1>1
<1> DEFINE al == a \o br
<1>3. Len(al) = Len(a) + Len(br) /\ al[Len(a) + i] = br[i]
  <2>1. /\ Len(al) = Len(a) + Len(br)
        /\ \A j \in 1..Len(a) + Len(br) : al[j] = IF j <= Len(a) THEN a[j] ELSE br[j - Len(a)]
    <3>1. a \in Seq(Int) /\ br \in Seq(Int)
      BY <1>1
    <3> QED
      BY <3>1, ConcatProperties
  <2> HIDE DEF al
  <2>2. Len(a) + i \in 1..Len(a) + Len(br) /\ ~(Len(a) + i <= Len(a)) /\ Len(a) + i - Len(a) = i
    BY <1>1, <1>2, SMTT(30)
  <2> QED
    BY <2>1, <2>2
<1> HIDE DEF al
<1>4. l = al
  BY DEF al, br
<1>5. al[Len(a) + i] = Len(a) + i
  <2>1. Len(a) + i \in 1..Len(al)
    BY <1>1, <1>2, <1>3
  <2>2. al = [j \in 1..Len(al) |-> j]
    BY <1>4
  <2> QED
    BY <2>1, <2>2
<1> QED
  BY <1>1, <1>3, <1>5

\* A line from which a part is taken still rises, as far as before.
LEMMA PartTaken ==
  ASSUME NEW a \in Seq(Int), NEW b \in Seq(Int), NEW c \in Seq(Int), NEW m \in Int
  PROVE  /\ Rises(a \o (b \o c)) => Rises(a \o c)
         /\ UpTo(a \o (b \o c), m) => UpTo(a \o c, m)
<1> DEFINE bc == b \o c
<1>1. /\ bc \in Seq(Int) /\ Len(bc) = Len(b) + Len(c)
      /\ \A k \in 1..Len(c) : bc[Len(b) + k] = c[k]
      /\ {Len(a), Len(b), Len(c)} \subseteq Nat
  BY ConcatProperties
<1> HIDE DEF bc
<1> DEFINE s == a \o bc
           t == a \o c
           At(k) == IF k <= Len(a) THEN k ELSE k + Len(b)
<1>2. /\ Len(s) = Len(a) + Len(b) + Len(c) /\ Len(t) = Len(a) + Len(c)
      /\ \A k \in 1..Len(a) : s[k] = a[k] /\ t[k] = a[k]
      /\ \A k \in 1..Len(c) : t[Len(a) + k] = c[k]
      /\ \A k \in 1..Len(bc) : s[Len(a) + k] = bc[k]
  <2>1. /\ Len(s) = Len(a) + Len(bc)
        /\ \A k \in 1..(Len(a) + Len(bc)) : s[k] = IF k <= Len(a) THEN a[k] ELSE bc[k - Len(a)]
    <3>1. a \in Seq(Int) /\ bc \in Seq(Int)
      BY <1>1
    <3> QED
      BY <3>1, ConcatProperties
  <2>2. /\ Len(t) = Len(a) + Len(c)
        /\ \A k \in 1..(Len(a) + Len(c)) : t[k] = IF k <= Len(a) THEN a[k] ELSE c[k - Len(a)]
    BY ConcatProperties
  <2> HIDE DEF s, t
  <2>3. \A k \in 1..Len(a) : s[k] = a[k] /\ t[k] = a[k]
    BY <1>1, <2>1, <2>2
  <2>4. \A k \in 1..Len(c) : t[Len(a) + k] = c[k]
    <3> TAKE k \in 1..Len(c)
    <3>1. Len(a) + k \in 1..(Len(a) + Len(c)) /\ ~(Len(a) + k <= Len(a)) /\ Len(a) + k - Len(a) = k
      BY <1>1
    <3> QED
      BY <2>2, <3>1
  <2>5. \A k \in 1..Len(bc) : s[Len(a) + k] = bc[k]
    <3> TAKE k \in 1..Len(bc)
    <3>1. Len(a) + k \in 1..(Len(a) + Len(bc)) /\ ~(Len(a) + k <= Len(a)) /\ Len(a) + k - Len(a) = k
      BY <1>1
    <3> QED
      BY <2>1, <3>1
  <2> QED
    BY <1>1, <2>1, <2>2, <2>3, <2>4, <2>5
<1> HIDE DEF s, t
<1>3. ASSUME NEW k \in 1..Len(t) PROVE At(k) \in 1..Len(s) /\ t[k] = s[At(k)]
  <2>1. CASE k <= Len(a)
    BY <1>1, <1>2, <2>1
  <2>2. CASE ~(k <= Len(a))
    <3>1. k - Len(a) \in 1..Len(c) /\ Len(a) + (k - Len(a)) = k
      BY <1>1, <1>2, <2>2
    <3>2. t[k] = c[k - Len(a)]
      BY <1>2, <3>1
    <3>3. bc[Len(b) + (k - Len(a))] = c[k - Len(a)]
      BY <1>1, <3>1
    <3>4. Len(b) + (k - Len(a)) \in 1..Len(bc) /\ Len(a) + (Len(b) + (k - Len(a))) = k + Len(b)
      BY <1>1, <1>2, <3>1
    <3>5. s[Len(a) + (Len(b) + (k - Len(a)))] = bc[Len(b) + (k - Len(a))]
      BY <1>2, <3>4
    <3>6. k + Len(b) \in 1..Len(s) /\ At(k) = k + Len(b)
      BY <1>1, <1>2, <2>2, <3>1
    <3>7. s[k + Len(b)] = bc[Len(b) + (k - Len(a))]
      BY <3>4, <3>5
    <3> QED
      BY <3>2, <3>3, <3>6, <3>7
  <2> QED
    BY <2>1, <2>2
<1>4. ASSUME NEW k \in 1..Len(t), NEW l \in 1..Len(t), k < l PROVE At(k) < At(l)
  BY <1>1, <1>2, <1>4
<1> HIDE DEF At
<1>5. ASSUME Rises(s) PROVE Rises(t)
  <2> SUFFICES ASSUME NEW k \in 1..Len(t), NEW l \in 1..Len(t), k < l PROVE t[k] < t[l]
    BY DEF Rises
  <2>1. At(k) < At(l) /\ At(k) \in 1..Len(s) /\ At(l) \in 1..Len(s)
    BY <1>3, <1>4
  <2>2. s[At(k)] < s[At(l)]
    BY <1>5, <2>1 DEF Rises
  <2> QED
    BY <1>3, <2>2
<1>6. ASSUME UpTo(s, m) PROVE UpTo(t, m)
  BY <1>3, <1>6 DEF UpTo
<1> QED
  BY <1>5, <1>6 DEF s, t, bc

\* A line to which the next bytes are joined rises, as far as they do.
LEMMA PartJoined ==
  ASSUME NEW s \in Seq(Int), NEW x \in Seq(Int), NEW m \in Int, Rises(s), UpTo(s, m),
         \A k \in 1..Len(x) : x[k] = m + k
  PROVE  Rises(s \o x) /\ UpTo(s \o x, m + Len(x))
<1> DEFINE sx == s \o x
<1>1. /\ Len(sx) = Len(s) + Len(x) /\ Len(s) \in Nat /\ Len(x) \in Nat
      /\ \A k \in 1..(Len(s) + Len(x)) : sx[k] = IF k <= Len(s) THEN s[k] ELSE x[k - Len(s)]
      /\ \A k \in 1..Len(s) : s[k] \in Int
  BY ConcatProperties
<1> HIDE DEF sx
<1>2. ASSUME NEW k \in 1..Len(sx), k <= Len(s) PROVE k \in 1..Len(s) /\ sx[k] = s[k] /\ s[k] <= m
  BY <1>1, <1>2 DEF UpTo
<1>3. ASSUME NEW k \in 1..Len(sx), ~(k <= Len(s))
      PROVE  k - Len(s) \in 1..Len(x) /\ sx[k] = m + (k - Len(s))
  <2>1. k - Len(s) \in 1..Len(x)
    BY <1>1, <1>3
  <2>2. x[k - Len(s)] = m + (k - Len(s))
    BY <2>1
  <2> QED
    BY <1>1, <1>3, <2>1, <2>2
<1>4. ASSUME NEW k \in 1..Len(sx), NEW l \in 1..Len(sx), k < l PROVE sx[k] < sx[l]
  <2>1. CASE l <= Len(s)
    <3>1. k <= Len(s)
      BY <1>1, <1>4, <2>1
    <3> QED
      BY <1>2, <1>4, <2>1, <3>1 DEF Rises
  <2>2. CASE ~(l <= Len(s)) /\ k <= Len(s)
    <3>1. sx[k] \in Int /\ sx[k] <= m
      BY <1>1, <1>2, <2>2
    <3>2. sx[l] = m + (l - Len(s)) /\ l - Len(s) \in 1..Len(x)
      BY <1>3, <2>2
    <3> QED
      BY <1>1, <3>1, <3>2
  <2>3. CASE ~(l <= Len(s)) /\ ~(k <= Len(s))
    <3>1. sx[k] = m + (k - Len(s)) /\ sx[l] = m + (l - Len(s))
      BY <1>3, <2>3
    <3> QED
      BY <1>1, <1>4, <3>1
  <2> QED
    BY <2>1, <2>2, <2>3
<1>5. ASSUME NEW k \in 1..Len(sx) PROVE sx[k] <= m + Len(x)
  <2>1. CASE k <= Len(s)
    BY <1>1, <1>2, <2>1
  <2>2. CASE ~(k <= Len(s))
    <3>1. k - Len(s) \in 1..Len(x) /\ sx[k] = m + (k - Len(s))
      BY <1>3, <2>2
    <3> QED
      BY <1>1, <3>1
  <2> QED
    BY <2>1, <2>2
<1> QED
  BY <1>4, <1>5 DEF Rises, UpTo, sx


\* Queues join to a queue, in any order of joining.
LEMMA Joined ==
  ASSUME NEW s, NEW t, NEW u, Queues({s, t, u})
  PROVE  s \o t \in Seq(Int) /\ (s \o t) \o u = s \o (t \o u)
<1>1. s \in Seq(Int) /\ t \in Seq(Int) /\ u \in Seq(Int)
  BY DEF Queues
<1> QED
  BY <1>1, JoinAsOne, ZenonT(60)

\* A line from which a part may have been taken.
Shrinks(s, t) == \E a, b, c \in Seq(Int) : s = a \o (b \o c) /\ t = a \o c

\* It is no longer than before, and what held of its numbers holds.
LEMMA Shrunk ==
  ASSUME NEW s, NEW t, Shrinks(s, t), NEW m \in Int
  PROVE  /\ s \in Seq(Int) /\ t \in Seq(Int) /\ Len(t) <= Len(s)
         /\ Rises(s) => Rises(t)
         /\ UpTo(s, m) => UpTo(t, m)
<1>1. PICK a \in Seq(Int), b \in Seq(Int), c \in Seq(Int) : s = a \o (b \o c) /\ t = a \o c
  BY DEF Shrinks
<1> DEFINE bc == b \o c
<1>2. bc \in Seq(Int) /\ Len(bc) = Len(b) + Len(c) /\ Len(b) \in Nat /\ Len(c) \in Nat
  BY ConcatProperties
<1> HIDE DEF bc
<1>3. a \o bc \in Seq(Int) /\ Len(a \o bc) = Len(a) + Len(bc) /\ Len(a) \in Nat
  <2>1. a \in Seq(Int) /\ bc \in Seq(Int)
    BY <1>2
  <2> QED
    BY <2>1, ConcatProperties
<1>4. a \o c \in Seq(Int) /\ Len(a \o c) = Len(a) + Len(c)
  BY ConcatProperties
<1>5. Len(a) + Len(c) <= Len(a) + Len(bc)
  BY <1>2, <1>3
<1>6. s = a \o bc
  BY <1>1 DEF bc
<1>7. s \in Seq(Int) /\ t \in Seq(Int) /\ Len(t) <= Len(s)
  BY <1>1, <1>3, <1>4, <1>5, <1>6
<1> QED
  BY <1>1, <1>7, PartTaken

\* Nothing may have been taken, or the end.
LEMMA EndTaken ==
  ASSUME NEW s \in Seq(Int), NEW x \in Seq(Int)
  PROVE  Shrinks(s \o x, s)
<1>1. s \o <<>> = s /\ x \o <<>> = x /\ <<>> \in Seq(Int)
  BY ConcatEmptySeq
<1>2. s \o x = s \o (x \o <<>>) /\ s = s \o <<>>
  BY <1>1
<1> QED
  BY <1>1, <1>2 DEF Shrinks

\* With nothing taken a line is no longer than it was.
LEMMA NoneTaken ==
  ASSUME NEW s, Queues({s})
  PROVE  Shrinks(s, s)
<1>1. s \in Seq(Int) /\ <<>> \in Seq(Int)
  BY DEF Queues
<1>2. Shrinks(s \o <<>>, s)
  BY <1>1, EndTaken
<1>3. s \o <<>> = s
  BY <1>1, ConcatEmptySeq
<1> QED
  BY <1>2, <1>3

\* All queues of the line.
LEMMA AllQueues ==
  ASSUME DeviceInv, NEW o \in Seq(Int)
  PROVE  /\ Queues({back, incoming, fifo, usb, host, o})
         /\ WayOf(o) \in Seq(Int) /\ WayOf(<<>>) \in Seq(Int) /\ <<>> \in Seq(Int)
         /\ Len(WayOf(o)) = OnWay + Len(o) /\ WayOf(o) = WayOf(<<>>) \o o
<1>1. Queues({back, incoming, fifo, usb, host, o}) /\ Queues({back, incoming, fifo, usb, host, <<>>})
  BY DEF DeviceInv, Queues
<1> DEFINE none == <<>>
<1>2. Queues({back, incoming, fifo, usb, host, none, o})
  BY DEF DeviceInv, Queues
<1>3. WayOf(o) \in Seq(Int) /\ Len(WayOf(o)) = OnWay + Len(o)
  BY <1>1, Lined DEF WayOf, OnWay
<1>4. WayOf(<<>>) \in Seq(Int)
  BY <1>1, Lined DEF WayOf
<1>6. none \o o = o /\ none \in Seq(Int) /\ none = <<>>
  BY ConcatEmptySeq
<1> HIDE DEF none
<1>5. Way(back, incoming, fifo, usb, host, none \o o) = Way(back, incoming, fifo, usb, host, none) \o o
  BY <1>2, LineGrows
<1> QED
  BY <1>1, <1>3, <1>4, <1>5, <1>6 DEF WayOf

\* The bytes the Pico gives away were the next; when nobody gets them, a part of the
\* line is gone.
LEMMA FetchPasses ==
  ASSUME DeviceInv, NEW first, NEW left, Popped(first, left), NEW o \in Seq(Int)
  PROVE  /\ Way(back, first, fifo', usb', host, o) = Way(back, <<>>, fifo, usb, host, o)
         /\ Shrinks(Way(back, incoming, fifo, usb, host, o), Way(back, incoming, fifo', usb', host, o))
         /\ first = <<>> => Way(back, incoming, fifo', usb', host, o) = Way(back, incoming, fifo, usb, host, o)
<1> DEFINE rest == host \o o
           tail == fifo \o (usb \o rest)
           newTail == fifo' \o (usb' \o rest)
<1>1. /\ back \in Seq(Int) /\ incoming \in Seq(Int) /\ fifo \in Seq(Int) /\ usb \in Seq(Int)
      /\ host \in Seq(Int) /\ first \in Seq(Int) /\ fifo' \in Seq(Int) /\ usb' \in Seq(Int)
  BY DEF DeviceInv, Popped
<1>2. rest \in Seq(Int)
  BY <1>1, ConcatProperties
<1>3. Way(back, incoming, fifo, usb, host, o) = back \o (incoming \o tail)
      /\ Way(back, <<>>, fifo, usb, host, o) = back \o (<<>> \o tail)
      /\ Way(back, first, fifo', usb', host, o) = back \o (first \o newTail)
      /\ Way(back, incoming, fifo', usb', host, o) = back \o (incoming \o newTail)
  BY DEF Way
<1> HIDE DEF rest
<1>4. (fifo \o usb) \o rest = tail
  <2>1. Queues({fifo, usb, rest})
    BY <1>1, <1>2 DEF Queues
  <2> QED
    BY <2>1, Joined, SMTT(60)
<1> DEFINE block == fifo' \o usb'
<1>5. block \in Seq(Int) /\ block \o rest = newTail
  <2>1. Queues({fifo', usb', rest})
    BY <1>1, <1>2 DEF Queues
  <2>2. fifo' \o usb' \in Seq(Int)
    BY <1>1, ConcatProperties
  <2>3. (fifo' \o usb') \o rest = fifo' \o (usb' \o rest)
    BY <2>1, Joined, SMTT(60)
  <2> QED
    BY <2>2, <2>3
<1>6. first \o block = fifo \o usb
  BY DEF Popped
<1> HIDE DEF tail, newTail, block
<1>7. first \o newTail = tail
  <2>1. Queues({first, block, rest})
    BY <1>1, <1>2, <1>5 DEF Queues
  <2>2. (first \o block) \o rest = first \o (block \o rest)
    BY <2>1, Joined, SMTT(60)
  <2> QED
    BY <1>4, <1>5, <1>6, <2>2
<1>8. newTail \in Seq(Int) /\ tail \in Seq(Int)
  <2>1. block \o rest \in Seq(Int)
    BY <1>2, <1>5, ConcatProperties
  <2>2. newTail \in Seq(Int)
    BY <1>5, <2>1
  <2>3. first \o newTail \in Seq(Int)
    BY <1>1, <2>2, ConcatProperties
  <2> QED
    BY <1>7, <2>2, <2>3
<1>9. <<>> \o tail = tail
  BY <1>8, ConcatEmptySeq
<1> DEFINE head == back \o incoming
<1>13. head \in Seq(Int)
  BY <1>1, ConcatProperties
<1>10. head \in Seq(Int) /\ head \o tail = back \o (incoming \o tail)
                         /\ head \o newTail = back \o (incoming \o newTail)
  <2>1. Queues({back, incoming, tail})
    BY <1>1, <1>8 DEF Queues
  <2>2. Queues({back, incoming, newTail})
    BY <1>1, <1>8 DEF Queues
  <2>3. head \o tail = back \o (incoming \o tail)
    BY <2>1, Joined, SMTT(60)
  <2>4. head \o newTail = back \o (incoming \o newTail)
    BY <2>2, Joined, SMTT(60)
  <2> QED
    BY <1>13, <2>3, <2>4
<1> HIDE DEF head
<1>11. Shrinks(head \o tail, head \o newTail)
  BY <1>1, <1>7, <1>8, <1>10 DEF Shrinks
<1>12. first = <<>> => newTail = tail
  <2>1. <<>> \o newTail = newTail
    BY <1>8, ConcatEmptySeq
  <2> QED
    BY <1>7, <2>1
<1> QED
  BY <1>3, <1>7, <1>9, <1>10, <1>11, <1>12

\* What is sent goes behind all that was sent before, or is gone.
LEMMA SendPasses ==
  ASSUME DeviceInv, NEW bytes \in Seq(Int), Sent(bytes), NEW o \in Seq(Int)
  PROVE  LET old == Way(back, incoming, fifo, usb, host, bytes \o o)
             new == Way(back, incoming, fifo', usb', host', o)
         IN Shrinks(old, new) /\ (~dropped' => ~dropped /\ new = old)
<1> DEFINE old == Way(back, incoming, fifo, usb, host, bytes \o o)
           new == Way(back, incoming, fifo', usb', host', o)
           rest == bytes \o o
           head == back \o incoming
<1>1. /\ back \in Seq(Int) /\ incoming \in Seq(Int) /\ fifo \in Seq(Int) /\ usb \in Seq(Int)
      /\ host \in Seq(Int) /\ fifo' \in Seq(Int) /\ usb' \in Seq(Int) /\ host' \in Seq(Int)
      /\ o \in Seq(Int) /\ bytes \in Seq(Int)
  BY DEF DeviceInv, Sent
<1>2. rest \in Seq(Int) /\ head \in Seq(Int) /\ <<>> \in Seq(Int)
  BY <1>1, ConcatProperties
<1>3. ASSUME NEW t \in Seq(Int) PROVE back \o (incoming \o t) = head \o t
  <2>1. Queues({back, incoming, t})
    BY <1>1 DEF Queues
  <2> QED
    BY <2>1, Joined, SMTT(60)
<1>4. CASE setup.pico = "loopback"
  <2>1. usb = <<>> /\ host = <<>> /\ usb' = <<>> /\ host' = <<>>
    BY <1>4 DEF DeviceInv, Sent
  <2>2. <<>> \o rest = rest /\ <<>> \o o = o
    BY <1>1, <1>2, ConcatEmptySeq
  <2>3. old = back \o (incoming \o (fifo \o rest)) /\ new = back \o (incoming \o (fifo' \o o))
    BY <2>1, <2>2 DEF Way
  <2>4. CASE fifo' = fifo \o bytes /\ UNCHANGED dropped
    <3>1. (fifo \o bytes) \o o = fifo \o rest
      <4>1. Queues({fifo, bytes, o})
        BY <1>1 DEF Queues
      <4> QED
        BY <4>1, Joined, SMTT(60)
    <3>2. new = old
      BY <2>3, <2>4, <3>1
    <3> HIDE DEF rest, head
    <3>3. fifo \o rest \in Seq(Int)
      BY <1>1, <1>2, ConcatProperties
    <3>4. old = head \o (fifo \o rest)
      BY <1>3, <2>3, <3>3
    <3>5. old \in Seq(Int)
      BY <1>2, <3>3, <3>4, ConcatProperties
    <3> HIDE DEF old, new
    <3>6. Shrinks(old, old)
      BY <3>5, NoneTaken DEF Queues
    <3> QED
      BY <2>4, <3>2, <3>6 DEF old, new
  <2>5. CASE UNCHANGED fifo /\ dropped'
    <3> DEFINE upTo == head \o fifo
    <3> HIDE DEF head
    <3>1. upTo \in Seq(Int)
      BY <1>1, <1>2, ConcatProperties
    <3>2. fifo \o o \in Seq(Int)
      BY <1>1, ConcatProperties
    <3>3. new = upTo \o o
      <4>1. Queues({head, fifo, o})
        BY <1>1, <1>2 DEF Queues
      <4>2. (head \o fifo) \o o = head \o (fifo \o o)
        BY <4>1, Joined, SMTT(60)
      <4> QED
        BY <1>3, <2>3, <2>5, <3>2, <4>2
    <3>4. old = upTo \o rest
      <4> HIDE DEF rest
      <4>1. Queues({head, fifo, rest})
        BY <1>1, <1>2 DEF Queues
      <4>2. (head \o fifo) \o rest = head \o (fifo \o rest)
        BY <4>1, Joined, SMTT(60)
      <4>3. fifo \o rest \in Seq(Int)
        BY <1>1, <1>2, ConcatProperties
      <4> QED
        BY <1>3, <2>3, <4>2, <4>3
    <3>5. old = upTo \o (bytes \o o) /\ bytes \in Seq(Int) /\ o \in Seq(Int)
      BY <3>4
    <3> HIDE DEF upTo, old, new
    <3>6. Shrinks(old, new)
      BY <3>1, <3>3, <3>5 DEF Shrinks
    <3> QED
      BY <2>5, <3>6 DEF old, new
  <2> QED
    BY <1>4, <2>4, <2>5 DEF Sent
<1>5. CASE setup.pico # "loopback"
  <2>1. fifo' \o usb' = fifo \o usb /\ host' = host \o bytes /\ UNCHANGED dropped
    BY <1>5 DEF Sent
  <2> DEFINE end == host \o rest
             newEnd == host' \o o
  <2>2. newEnd = end /\ newEnd \in Seq(Int) /\ end \in Seq(Int)
    <3>1. (host \o bytes) \o o = end
      <4>1. Queues({host, bytes, o})
        BY <1>1 DEF Queues
      <4> QED
        BY <4>1, Joined, SMTT(60)
    <3>2. newEnd \in Seq(Int)
      BY <1>1, ConcatProperties
    <3> QED
      BY <2>1, <3>1, <3>2
  <2>3. old = back \o (incoming \o (fifo \o (usb \o end)))
        /\ new = back \o (incoming \o (fifo' \o (usb' \o newEnd)))
    BY DEF Way
  <2> HIDE DEF end, newEnd
  <2> DEFINE block == fifo \o usb
             newBlock == fifo' \o usb'
  <2>4. block \in Seq(Int) /\ block \o end = fifo \o (usb \o end)
    <3>1. Queues({fifo, usb, end})
      BY <1>1, <2>2 DEF Queues
    <3> QED
      BY <3>1, Joined, SMTT(60)
  <2>5. newBlock \o newEnd = fifo' \o (usb' \o newEnd)
    <3>1. Queues({fifo', usb', newEnd})
      BY <1>1, <2>2 DEF Queues
    <3> QED
      BY <3>1, Joined, SMTT(60)
  <2>6. newBlock = block
    BY <2>1
  <2> HIDE DEF block, newBlock
  <2>7. new = old
    BY <2>2, <2>3, <2>4, <2>5, <2>6
  <2>8. block \o end \in Seq(Int)
    BY <2>2, <2>4, ConcatProperties
  <2>9. old = head \o (block \o end)
    BY <1>3, <2>3, <2>4, <2>8
  <2> HIDE DEF head
  <2>10. old \in Seq(Int)
    BY <1>2, <2>8, <2>9, ConcatProperties
  <2> HIDE DEF old, new
  <2>11. Shrinks(old, old)
    BY <2>10, NoneTaken DEF Queues
  <2> QED
    BY <2>1, <2>7, <2>11 DEF old, new
<1> QED
  BY <1>4, <1>5

\* What the program is given was at the head of the driver's buffer.
LEMMA MovePasses ==
  ASSUME DeviceInv, NEW n \in 0..Len(incoming), NEW o \in Seq(Int)
  PROVE  Way(back \o SubSeq(incoming, 1, n), SubSeq(incoming, n + 1, Len(incoming)), fifo, usb, host, o)
           = WayOf(o)
<1> DEFINE first == SubSeq(incoming, 1, n)
           last == SubSeq(incoming, n + 1, Len(incoming))
           atHost == host \o o
           fromUsb == usb \o atHost
           rest == fifo \o fromUsb
<1>1. /\ back \in Seq(Int) /\ incoming \in Seq(Int) /\ fifo \in Seq(Int) /\ usb \in Seq(Int)
      /\ host \in Seq(Int)
  BY DEF DeviceInv
<1>2. first \in Seq(Int) /\ last \in Seq(Int) /\ first \o last = incoming
  BY <1>1, CutInTwo
<1>3. atHost \in Seq(Int)
  BY <1>1, ConcatProperties
<1> HIDE DEF atHost
<1>4. fromUsb \in Seq(Int)
  BY <1>1, <1>3, ConcatProperties
<1> HIDE DEF fromUsb
<1>5. rest \in Seq(Int)
  BY <1>1, <1>4, ConcatProperties
<1>6. WayOf(o) = back \o (incoming \o rest)
  BY DEF WayOf, Way, rest, fromUsb, atHost
<1>7. Way(back \o first, last, fifo, usb, host, o) = (back \o first) \o (last \o rest)
  BY DEF Way, rest, fromUsb, atHost
<1> HIDE DEF first, last, rest
<1>9. (back \o first) \o (last \o rest) = back \o ((first \o last) \o rest)
  <2> DEFINE behind == last \o rest
  <2>1. behind \in Seq(Int)
    BY <1>2, <1>5, ConcatProperties
  <2>2. Queues({first, last, rest})
    BY <1>2, <1>5 DEF Queues
  <2>3. (first \o last) \o rest = first \o behind
    BY <2>2, Joined, SMTT(60)
  <2> HIDE DEF behind
  <2>4. Queues({back, first, behind})
    BY <1>1, <1>2, <2>1 DEF Queues
  <2>5. (back \o first) \o behind = back \o (first \o behind)
    BY <2>4, Joined, SMTT(60)
  <2> QED
    BY <2>3, <2>5 DEF behind
<1> QED
  BY <1>2, <1>6, <1>7, <1>9 DEF first, last

\* The echo program takes the first bytes it has been sent, and may keep some of them.
LEMMA EchoPasses ==
  ASSUME DeviceInv, NEW kept \in Seq(Int), NEW lost \in Seq(Int), NEW rest \in Seq(Int),
         host = kept \o (lost \o rest), NEW o \in Seq(Int)
  PROVE  /\ Shrinks(WayOf(o), Way(back, incoming, fifo, usb \o kept, rest, o))
         /\ lost = <<>> => Way(back, incoming, fifo, usb \o kept, rest, o) = WayOf(o)
<1> DEFINE ro == rest \o o
           lro == lost \o ro
           head == back \o (incoming \o fifo)
           upTo == usb \o kept
           old == WayOf(o)
           new == Way(back, incoming, fifo, usb \o kept, rest, o)
<1>1. /\ back \in Seq(Int) /\ incoming \in Seq(Int) /\ fifo \in Seq(Int) /\ usb \in Seq(Int)
      /\ host \in Seq(Int) /\ o \in Seq(Int) /\ kept \in Seq(Int) /\ lost \in Seq(Int) /\ rest \in Seq(Int)
  BY DEF DeviceInv
<1>2. ro \in Seq(Int) /\ upTo \in Seq(Int)
  BY <1>1, ConcatProperties
<1>3. host \o o = kept \o lro
  <2> DEFINE lr == lost \o rest
  <2>1. Queues({lost, rest, o}) /\ lr \in Seq(Int)
    BY <1>1, ConcatProperties DEF Queues
  <2>2. lr \o o = lro
    BY <2>1, Joined, SMTT(60)
  <2>5. host = kept \o lr
    OBVIOUS
  <2> HIDE DEF lr, lro
  <2>3. Queues({kept, lr, o})
    BY <1>1, <2>1 DEF Queues
  <2>4. (kept \o lr) \o o = kept \o (lr \o o)
    BY <2>3, Joined, SMTT(60)
  <2> QED
    BY <2>2, <2>4, <2>5
<1> HIDE DEF ro
<1>4. lro \in Seq(Int)
  BY <1>1, <1>2, ConcatProperties
<1>5. new = back \o (incoming \o (fifo \o (upTo \o ro)))
  BY DEF Way, ro
<1> HIDE DEF lro
<1>6. old = back \o (incoming \o (fifo \o (usb \o (kept \o lro))))
  BY <1>3 DEF Way, WayOf
<1>7. usb \o (kept \o lro) = upTo \o lro
  <2>1. Queues({usb, kept, lro})
    BY <1>1, <1>4 DEF Queues
  <2> QED
    BY <2>1, Joined, SMTT(60)
<1> HIDE DEF upTo, new, old
<1>8. incoming \o fifo \in Seq(Int)
  BY <1>1, ConcatProperties
<1>13. head \in Seq(Int)
  BY <1>1, <1>8, ConcatProperties
<1>9. ASSUME NEW t \in Seq(Int)
      PROVE  back \o (incoming \o (fifo \o (upTo \o t))) = (head \o upTo) \o t
  <2> DEFINE s == upTo \o t
             infi == incoming \o fifo
  <2>1. s \in Seq(Int)
    BY <1>2, ConcatProperties
  <2>5. head = back \o infi /\ infi \in Seq(Int)
    BY <1>8
  <2> HIDE DEF s
  <2>2. Queues({incoming, fifo, s})
    BY <1>1, <2>1 DEF Queues
  <2>3. infi \o s = incoming \o (fifo \o s)
    BY <2>2, Joined, SMTT(60)
  <2> HIDE DEF infi, head
  <2>4. Queues({back, infi, s})
    BY <1>1, <2>1, <2>5 DEF Queues
  <2>9. (back \o infi) \o s = back \o (infi \o s)
    BY <2>4, Joined, SMTT(60)
  <2>6. head \o s = back \o (infi \o s)
    BY <2>5, <2>9
  <2>7. Queues({head, upTo, t})
    BY <1>2, <1>13 DEF Queues
  <2>10. (head \o upTo) \o t = head \o (upTo \o t)
    BY <2>7, Joined, SMTT(60)
  <2>8. (head \o upTo) \o t = head \o s
    BY <2>10 DEF s
  <2> QED
    BY <2>3, <2>6, <2>8 DEF s
<1> DEFINE all == head \o upTo
<1>10. new = all \o ro /\ old = all \o (lost \o ro)
  BY <1>2, <1>4, <1>5, <1>6, <1>7, <1>9 DEF lro
<1> HIDE DEF head
<1>11. all \in Seq(Int)
  BY <1>2, <1>13, ConcatProperties
<1> HIDE DEF all
<1>12. Shrinks(old, new)
  BY <1>1, <1>2, <1>10, <1>11 DEF Shrinks
<1>14. lost = <<>> => new = old
  <2>1. <<>> \o ro = ro
    BY <1>2, ConcatEmptySeq
  <2> QED
    BY <1>10, <2>1
<1> QED
  BY <1>12, <1>14 DEF old, new

-------------------------------------------------------------------------------
(* What a step may do to the line *)

\* A step may join bytes to the line, and take a part from it ...
Passes(x) ==
  /\ Shrinks(WayOf(Sending) \o x, WayOf(Sending)')
  /\ ~dropped' /\ ~Astray' => ~dropped /\ ~Astray /\ WayOf(outgoing)' = WayOf(outgoing) \o x
\* ... and those that join it are the next of the program's.
Counted(x) ==
  /\ x \in Seq(Int) /\ \A i \in 1..Len(x) : x[i] = Accepted + i
  /\ x # <<>> => pc # "failed" /\ Sending = outgoing
  /\ pc' # "failed" => pc # "failed" /\ Accepted' = Accepted + Len(x)
  /\ Accepted' <= Accepted + Len(x)

\* Lengths are numbers, of the same names before and after.
LEMMA Lengths ==
  ASSUME DeviceInv
  PROVE  /\ {Len(fifo), Len(usb), Len(host), Len(outgoing), Len(incoming), Len(back)} \subseteq Nat
         /\ {PayloadSize, BlockSize, FifoSize, BufferSize, setup.size} \subseteq Nat \ {0}
         /\ setup.size <= BufferSize /\ PayloadSize <= FifoSize
<1>1. /\ fifo \in Seq(Int) /\ usb \in Seq(Int) /\ host \in Seq(Int)
      /\ outgoing \in Seq(Int) /\ incoming \in Seq(Int) /\ back \in Seq(Int)
  BY DEF DeviceInv
<1>2. {Len(fifo), Len(usb), Len(host), Len(outgoing), Len(incoming), Len(back)} \subseteq Nat
  BY <1>1
<1>3. {PayloadSize, BlockSize, FifoSize, BufferSize} \subseteq Nat \ {0} /\ PayloadSize <= FifoSize
  BY LoopbackAssumption
<1>4. setup.size \in 1..BufferSize
  BY LoopbackAssumption DEF DeviceInv
<1>5. setup.size \in Nat \ {0} /\ setup.size <= BufferSize
  BY <1>3, <1>4
<1> QED
  BY <1>2, <1>3, <1>5

\* The tails of the line.
LEMMA Tails ==
  ASSUME DeviceInv
  PROVE  /\ outgoing \in Seq(Int) /\ Sending \in Seq(Int) /\ <<>> \in Seq(Int)
         /\ WayOf(outgoing) \in Seq(Int) /\ WayOf(Sending) \in Seq(Int)
         /\ WayOf(outgoing) \o <<>> = WayOf(outgoing) /\ WayOf(Sending) \o <<>> = WayOf(Sending)
         /\ Len(WayOf(outgoing)) = OnWay + Len(outgoing) /\ Len(WayOf(Sending)) = OnWay + Len(Sending)
         /\ OnWay \in Nat /\ Len(Sending) \in Nat /\ Len(Sending) <= Len(outgoing)
<1>1. outgoing \in Seq(Int) /\ <<>> \in Seq(Int) /\ Len(outgoing) \in Nat /\ Len(<<>>) = 0
  BY DEF DeviceInv
<1>2. Sending \in Seq(Int) /\ Len(Sending) \in Nat /\ Len(Sending) <= Len(outgoing)
  BY <1>1 DEF Sending
<1> HIDE DEF Sending
<1>3. /\ WayOf(outgoing) \in Seq(Int) /\ WayOf(Sending) \in Seq(Int)
      /\ Len(WayOf(outgoing)) = OnWay + Len(outgoing) /\ Len(WayOf(Sending)) = OnWay + Len(Sending)
  BY <1>1, <1>2, AllQueues
<1>4. WayOf(outgoing) \o <<>> = WayOf(outgoing) /\ WayOf(Sending) \o <<>> = WayOf(Sending)
  BY <1>3, ConcatEmptySeq
<1>5. OnWay \in Nat
  BY Lengths DEF OnWay
<1> QED
  BY <1>1, <1>2, <1>3, <1>4, <1>5

\* Counts agree after a step that joins the next bytes.
LEMMA CountsAgree ==
  ASSUME DeviceInv, DeviceInv', RequestInv, RequestInv', CountInv, NEW x, Passes(x), Counted(x)
  PROVE  CountInv'
<1>1. x \in Seq(Int) /\ Len(x) \in Nat
  BY DEF Counted
<1>2. Accepted \in Nat /\ Accepted' \in Nat
  BY DEF Accepted, RequestInv
<1> DEFINE s == WayOf(Sending)
           t == WayOf(outgoing)
<1>3. /\ s \in Seq(Int) /\ t \in Seq(Int) /\ Len(t) = OnWay + Len(outgoing) /\ Len(s) = OnWay + Len(Sending)
      /\ Len(s) \in Nat /\ Len(t) \in Nat
  BY Tails
<1>4. Len(t') = (OnWay + Len(outgoing))' /\ Len(s') = (OnWay + Len(Sending))'
  <2>1. outgoing' \in Seq(Int) /\ Sending' \in Seq(Int)
    BY DEF DeviceInv, Sending
  <2>2. Queues({back', incoming', fifo', usb', host', outgoing'})
    BY DEF DeviceInv, Queues
  <2>3. Queues({back', incoming', fifo', usb', host', Sending'})
    BY <2>1 DEF DeviceInv, Queues
  <2>4. Len(t') = Len(back') + Len(incoming') + Len(fifo') + Len(usb') + Len(host') + Len(outgoing')
    BY <2>2, Lined DEF WayOf
  <2>5. Len(s') = Len(back') + Len(incoming') + Len(fifo') + Len(usb') + Len(host') + Len(Sending')
    BY <2>3, Lined DEF WayOf
  <2> QED
    BY <2>4, <2>5 DEF OnWay
<1>5. Len(s') <= Len(s) + Len(x)
  <2>1. Shrinks(s \o x, s')
    BY DEF Passes
  <2>2. Len(s') <= Len(s \o x)
    BY <2>1, Shrunk, 0 \in Int
  <2>3. Len(s \o x) = Len(s) + Len(x)
    BY <1>1, <1>3, ConcatProperties
  <2> QED
    BY <2>2, <2>3
<1>6. Len(s') \in Nat
  <2>1. s' \in Seq(Int)
    BY Shrunk, 0 \in Int DEF Passes
  <2> QED
    BY <2>1
<1>7. ~dropped' /\ ~Astray' => Len(t') = Len(t) + Len(x) /\ ~dropped /\ ~Astray
  <2>1. ~dropped' /\ ~Astray' => ~dropped /\ ~Astray /\ t' = t \o x
    BY DEF Passes
  <2>2. Len(t \o x) = Len(t) + Len(x)
    BY <1>1, <1>3, ConcatProperties
  <2> QED
    BY <2>1, <2>2
<1>8. /\ pc # "failed" => Len(s) <= Accepted
      /\ ~dropped /\ ~Astray => Len(t) >= Accepted
  BY <1>3 DEF CountInv
<1>9. /\ pc' # "failed" => pc # "failed" /\ Accepted' = Accepted + Len(x)
      /\ Accepted' <= Accepted + Len(x)
  BY DEF Counted
<1> HIDE DEF s, t
<1>10. pc' # "failed" => Len(s') <= Accepted'
  BY <1>1, <1>2, <1>3, <1>5, <1>6, <1>8, <1>9
<1>11. ~dropped' /\ ~Astray' => Len(t') >= Accepted'
  BY <1>1, <1>2, <1>3, <1>7, <1>8, <1>9
<1> QED
  BY <1>4, <1>10, <1>11 DEF CountInv, s, t

\* A step that leaves the line alone.
LEMMA LineStays ==
  ASSUME DeviceInv, WayOf(Sending)' = WayOf(Sending), WayOf(outgoing)' = WayOf(outgoing),
         ~dropped' => ~dropped, ~Astray' => ~Astray
  PROVE  Passes(<<>>)
<1>1. WayOf(Sending) \o <<>> = WayOf(Sending) /\ WayOf(outgoing) \o <<>> = WayOf(outgoing)
  BY Tails
<1>2. Queues({WayOf(Sending)})
  BY Tails DEF Queues
<1>3. Shrinks(WayOf(Sending), WayOf(Sending))
  BY <1>2, NoneTaken
<1> QED
  BY <1>1, <1>3 DEF Passes

\* The program is given nothing to do.
LEMMA NoneCounted ==
  ASSUME RequestInv, RequestInv', pc = "failed" => pc' = "failed", Accepted' <= Accepted,
         pc' # "failed" => Accepted' = Accepted
  PROVE  Counted(<<>>)
<1>1. Accepted \in Nat /\ Accepted' \in Nat
  BY DEF Accepted, RequestInv
<1>2. Len(<<>>) = 0 /\ <<>> \in Seq(Int)
  OBVIOUS
<1> HIDE DEF Accepted
<1> QED
  BY <1>1, <1>2 DEF Counted

\* A transfer of the driver is no part of a request, or ends it with an error.
LEMMA TransferCounts ==
  ASSUME RequestInv, RequestInv', UNCHANGED <<act, written>>, pc' = pc \/ pc' = "failed"
  PROVE  Counted(<<>>)
<1>1. Accepted \in Nat /\ Accepted' \in Nat /\ Accepted' <= Accepted /\ (pc' = pc => Accepted' = Accepted)
  <2>1. {act, written, act', written'} \subseteq Nat
    BY DEF RequestInv
  <2>2. CASE pc' = pc
    BY <2>1, <2>2 DEF Accepted
  <2>3. CASE pc' = "failed"
    BY <2>1, <2>3 DEF Accepted
  <2> QED
    BY <2>2, <2>3
<1> HIDE DEF Accepted
<1>2. (pc = "failed" => pc' = "failed") /\ (pc' # "failed" => Accepted' = Accepted)
  BY <1>1
<1> QED
  BY <1>1, <1>2, NoneCounted

\* What is given away is counted on one side or the other.
LEMMA PopCounts ==
  ASSUME DeviceInv, NEW first, NEW left, Popped(first, left)
  PROVE  /\ {Len(fifo'), Len(usb'), Len(first), left} \subseteq Nat
         /\ Len(first) + Len(fifo') + Len(usb') = Len(fifo) + Len(usb)
<1>1. /\ first \in Seq(Int) /\ fifo' \in Seq(Int) /\ usb' \in Seq(Int)
      /\ fifo \in Seq(Int) /\ usb \in Seq(Int)
  BY DEF DeviceInv, Popped
<1> DEFINE rest == fifo' \o usb'
<1>2. rest \in Seq(Int) /\ Len(rest) = Len(fifo') + Len(usb')
  BY <1>1, ConcatProperties
<1> HIDE DEF rest
<1>3. Len(first \o rest) = Len(first) + Len(rest)
  BY <1>1, <1>2, ConcatProperties
<1>4. Len(fifo \o usb) = Len(fifo) + Len(usb)
  BY <1>1, ConcatProperties
<1>5. first \o rest = fifo \o usb /\ left = Len(fifo')
  BY DEF Popped, rest
<1>6. {Len(fifo'), Len(usb'), Len(first), Len(rest), Len(fifo), Len(usb)} \subseteq Nat
  BY <1>1, <1>2
<1> QED
  BY <1>2, <1>3, <1>4, <1>5, <1>6

\* A send adds to what the Pico has for the driver.
LEMMA SendCounts ==
  ASSUME DeviceInv, NEW bytes \in Seq(Int), Sent(bytes)
  PROVE  /\ {Len(fifo'), Len(usb'), Len(host'), Len(bytes)} \subseteq Nat
         /\ Len(fifo') + Len(usb') >= Len(fifo) + Len(usb)
<1>1. /\ fifo' \in Seq(Int) /\ usb' \in Seq(Int) /\ host' \in Seq(Int)
      /\ fifo \in Seq(Int) /\ usb \in Seq(Int) /\ host \in Seq(Int) /\ bytes \in Seq(Int)
  BY DEF DeviceInv, Sent
<1>2. /\ {Len(fifo'), Len(usb'), Len(host'), Len(bytes)} \subseteq Nat
      /\ {Len(fifo), Len(usb), Len(host), FifoSize} \subseteq Nat
  BY <1>1, LoopbackAssumption
<1>3. Len(fifo') >= Len(fifo)
  BY <1>2 DEF Sent
<1>4. Len(fifo \o usb) = Len(fifo) + Len(usb) /\ Len(fifo' \o usb') = Len(fifo') + Len(usb')
  BY <1>1, ConcatProperties
<1>5. CASE setup.pico = "loopback"
  BY <1>2, <1>3, <1>5 DEF Sent
<1>6. CASE setup.pico # "loopback"
  BY <1>2, <1>4, <1>6 DEF Sent
<1> QED
  BY <1>2, <1>5, <1>6

-------------------------------------------------------------------------------
(* What each step keeps *)

\* What holds of the Pico and the host by themselves.
PicoInv ==
  /\ Wired /\ {fifo, usb, host} \subseteq Seq(Int) /\ Len(fifo) <= FifoSize
  /\ dropped \in BOOLEAN /\ losses \in Nat
  /\ setup.pico = "loopback" => usb = <<>> /\ host = <<>>
  /\ dropped => setup.pico = "loopback"

Kept == DeviceInv' /\ AskInv' /\ RequestInv' /\ \E x : Passes(x) /\ Counted(x)

\* A step that leaves the read buffer alone.
LEMMA DeviceStays ==
  ASSUME DeviceInv, PicoInv', UNCHANGED <<setup, incoming, filled, extra, back, spanned>>,
         ~Astray' => ~Astray /\ Len(fifo') >= Len(fifo),
         {refill', broken'} \subseteq BOOLEAN, outgoing' \in Seq(Int), Len(outgoing') <= PayloadSize,
         Basic => outgoing' = <<>>, refill' => Async /\ incoming = <<>> /\ outgoing' = <<>>
  PROVE  DeviceInv'
<1>1. ~Astray' => extra <= Len(fifo')
  <2>1. fifo \in Seq(Int) /\ fifo' \in Seq(Int) /\ extra \in 0..(FifoSize - PayloadSize)
    BY DEF DeviceInv, PicoInv
  <2>2. Len(fifo) \in Nat /\ Len(fifo') \in Nat /\ extra \in Int
    BY <2>1
  <2>3. ~Astray => extra <= Len(fifo)
    BY DEF DeviceInv
  <2> QED
    BY <2>2, <2>3
<1> QED
  BY <1>1 DEF DeviceInv, PicoInv, Async, Basic, Wired

\* A transfer that is no part of a request leaves the request as it is, or ends it.
LEMMA RequestStays ==
  ASSUME DeviceInv, AskInv, RequestInv, UNCHANGED <<setup, want, act, msg, back, testVars>>,
         pc' = pc \/ pc' = "failed", torn => torn', torn' \in BOOLEAN,
         {Len(fifo'), Len(usb'), Len(incoming')} \subseteq Nat,
         ~Astray' =>
           /\ ~Astray
           /\ Len(incoming') + Len(fifo') + Len(usb') >= Len(incoming) + Len(fifo) + Len(usb)
  PROVE  RequestInv'
<1>1. UNCHANGED <<setup, want, act, msg, back, written, got, writes, timeUp>>
  BY DEF testVars
<1>2. pc' = "reading" /\ setup.serGet /\ ~Astray' =>
        want - act <= Len(incoming') + Len(fifo') + Len(usb') + Slack'
  <2>1. {Len(fifo), Len(usb), Len(incoming), PayloadSize} \subseteq Nat
    BY Lengths
  <2>2. want \in Nat /\ act \in Nat
    BY DEF RequestInv
  <2>4. Slack \in Nat /\ Slack' \in Nat /\ Slack <= Slack'
    BY <2>1 DEF Slack
  <2> HAVE pc' = "reading" /\ setup.serGet /\ ~Astray'
  <2>3. want - act <= Len(incoming) + Len(fifo) + Len(usb) + Slack
    BY DEF RequestInv
  <2> HIDE DEF Slack
  <2> QED
    BY <2>1, <2>2, <2>3, <2>4
<1>3. CASE pc' = pc
  BY <1>1, <1>2, <1>3 DEF RequestInv
<1>4. CASE pc' = "failed"
  BY <1>1, <1>4 DEF RequestInv
<1> QED
  BY <1>3, <1>4

\* And what doStatus has read.
LEMMA AskStays ==
  ASSUME AskInv, UNCHANGED <<setup, sum, torn>>, missed' \in BOOLEAN,
         \/ pc' = pc /\ UNCHANGED <<filled, incoming>>
         \/ pc' \notin {"actCount", "avail"}
  PROVE  AskInv'
<1>1. CASE pc' = pc /\ UNCHANGED <<filled, incoming>>
  BY <1>1 DEF AskInv, Async
<1>2. CASE pc' \notin {"actCount", "avail"}
  BY <1>2 DEF AskInv, Async
<1> QED
  BY <1>1, <1>2

\* A block that is sent, if the Pico hears of it.
LEMMA SendKeeps ==
  ASSUME DeviceInv, NEW bytes \in Seq(Int), WriteBlock(bytes), UNCHANGED setup, losses' \in Nat
  PROVE  /\ PicoInv' /\ Sent(bytes) /\ Len(fifo') >= Len(fifo)
         /\ {Len(fifo'), Len(usb')} \subseteq Nat /\ Len(fifo') + Len(usb') >= Len(fifo) + Len(usb)
<1>1. Wired' /\ Sent(bytes)
  BY Sends DEF DeviceInv
<1>2. /\ {Len(fifo'), Len(usb'), Len(host'), Len(bytes)} \subseteq Nat
      /\ Len(fifo') + Len(usb') >= Len(fifo) + Len(usb)
  BY <1>1, SendCounts
<1>3. Len(fifo) \in Nat /\ FifoSize \in Nat
  BY Lengths
<1>4. Len(fifo') >= Len(fifo) /\ Len(fifo') <= FifoSize
  BY <1>1, <1>2, <1>3 DEF Sent
<1>5. dropped' \in BOOLEAN /\ (dropped' => setup.pico = "loopback")
  BY DEF WriteBlock, DeviceInv
<1>6. setup.pico = "loopback" => usb' = <<>> /\ host' = <<>>
  BY <1>1 DEF Sent, DeviceInv
<1>7. fifo' \in Seq(Int) /\ usb' \in Seq(Int) /\ host' \in Seq(Int)
  BY <1>1 DEF Sent
<1>8. PicoInv'
  BY <1>1, <1>4, <1>5, <1>6, <1>7 DEF PicoInv
<1> QED
  BY <1>1, <1>2, <1>4, <1>8

\* The driver's buffer is sent.
LEMMA FlushKeeps ==
  ASSUME WayInv, Flush
  PROVE  Kept /\ Sent(outgoing) /\ ~broken
<1>1. /\ Async /\ ~broken /\ ~refill /\ WriteBlock(outgoing)
      /\ outgoing' = <<>> /\ refill' = (incoming = <<>>)
      /\ UNCHANGED <<incoming, filled, extra, broken, spanned, setup, pc, want, act, msg, back,
                     sum, torn, missed, testVars, losses>>
  BY DEF Flush, MayFlush, NoRequest, callVars, askVars
<1>2. DeviceInv /\ AskInv /\ RequestInv /\ CountInv
  BY DEF WayInv
<1>3. outgoing \in Seq(Int) /\ <<>> \in Seq(Int) /\ Len(<<>>) = 0 /\ losses' \in Nat
  BY <1>1, <1>2 DEF DeviceInv
<1>4. /\ PicoInv' /\ Sent(outgoing) /\ Len(fifo') >= Len(fifo)
      /\ {Len(fifo'), Len(usb')} \subseteq Nat /\ Len(fifo') + Len(usb') >= Len(fifo) + Len(usb)
  BY <1>1, <1>2, <1>3, SendKeeps
<1>5. {Len(fifo), Len(usb), Len(incoming), PayloadSize} \subseteq Nat
  BY <1>2, Lengths
<1>6. DeviceInv'
  <2>1. refill' \in BOOLEAN /\ broken' \in BOOLEAN /\ (refill' => Async /\ incoming = <<>> /\ outgoing' = <<>>)
    BY <1>1, <1>2 DEF DeviceInv
  <2>2. Astray' = Astray
    BY <1>1 DEF Astray
  <2>3. Len(outgoing') <= PayloadSize /\ outgoing' \in Seq(Int)
    BY <1>1, <1>3, <1>5
  <2> QED
    BY <1>1, <1>2, <1>4, <2>1, <2>2, <2>3, DeviceStays
<1>7. RequestInv'
  <2>1. Len(incoming') + Len(fifo') + Len(usb') >= Len(incoming) + Len(fifo) + Len(usb)
    BY <1>1, <1>4, <1>5
  <2>2. Astray' = Astray /\ torn \in BOOLEAN /\ Len(incoming') \in Nat
    BY <1>1, <1>2, <1>5 DEF Astray, AskInv
  <2> QED
    BY <1>1, <1>2, <1>4, <2>1, <2>2, RequestStays
<1>8. AskInv'
  <2>1. missed' \in BOOLEAN
    BY <1>1, <1>2 DEF AskInv
  <2> QED
    BY <1>1, <1>2, <2>1, AskStays
<1>9. Passes(<<>>)
  <2> DEFINE old == Way(back, incoming, fifo, usb, host, outgoing \o <<>>)
             new == Way(back, incoming, fifo', usb', host', <<>>)
  <2>1. Shrinks(old, new) /\ (~dropped' => ~dropped /\ new = old)
    BY <1>2, <1>3, <1>4, SendPasses
  <2>2. outgoing \o <<>> = outgoing
    BY <1>3, ConcatEmptySeq
  <2>3. Sending = outgoing /\ Sending' = <<>>
    BY <1>1 DEF Sending
  <2>4. old = WayOf(Sending) /\ old = WayOf(outgoing)
    BY <2>2, <2>3 DEF WayOf
  <2>5. new = WayOf(Sending)' /\ new = WayOf(outgoing)'
    BY <1>1, <2>3 DEF WayOf
  <2> HIDE DEF old, new
  <2>6. WayOf(Sending) \o <<>> = WayOf(Sending) /\ WayOf(outgoing) \o <<>> = WayOf(outgoing)
    BY <1>2, Tails
  <2>7. Astray' = Astray
    BY <1>1 DEF Astray
  <2> QED
    BY <2>1, <2>4, <2>5, <2>6, <2>7 DEF Passes
<1>10. Counted(<<>>)
  <2>1. UNCHANGED <<act, written>>
    BY <1>1 DEF testVars
  <2> QED
    BY <1>1, <1>2, <1>7, <2>1, TransferCounts
<1> QED
  BY <1>1, <1>4, <1>6, <1>7, <1>8, <1>9, <1>10 DEF Kept

\* A block is not sent, or the driver does not hear that it was.
LEMMA FlushFailsKeeps ==
  ASSUME WayInv, FlushFails
  PROVE  Kept
<1>1. /\ Async /\ ~broken /\ broken' = TRUE
      /\ NotHeard \/ (WriteBlock(outgoing) /\ Lose)
      /\ UNCHANGED <<outgoing, incoming, filled, extra, refill, spanned, setup, pc, want, act, msg, back,
                     sum, torn, missed, testVars>>
  BY DEF FlushFails, MayFlush, NoRequest, callVars, askVars
<1>0. broken' /\ broken' \in BOOLEAN
  BY <1>1, Zenon
<1>2. DeviceInv /\ AskInv /\ RequestInv /\ CountInv
  BY DEF WayInv
<1>3. outgoing \in Seq(Int) /\ <<>> \in Seq(Int) /\ losses \in Nat
  BY <1>2 DEF DeviceInv
<1>5. {Len(fifo), Len(usb), Len(incoming), PayloadSize} \subseteq Nat
  BY <1>2, Lengths
<1>4. /\ PicoInv' /\ Len(fifo') >= Len(fifo) /\ (~Astray' => ~Astray)
      /\ {Len(fifo'), Len(usb')} \subseteq Nat /\ Len(fifo') + Len(usb') >= Len(fifo) + Len(usb)
  <2>1. CASE NotHeard
    <3>1. UNCHANGED <<state, knock, drive, sector, fifo, usb, host, dropped, losses>>
      BY <2>1 DEF NotHeard, picoVars, lossVars
    <3>2. Astray' = Astray
      BY <3>1 DEF Astray
    <3>3. Len(fifo') >= Len(fifo) /\ Len(fifo') + Len(usb') >= Len(fifo) + Len(usb)
      BY <1>5, <3>1
    <3> QED
      BY <1>1, <1>2, <1>5, <3>1, <3>2, <3>3 DEF PicoInv, DeviceInv, Wired
  <2>2. CASE WriteBlock(outgoing) /\ Lose
    <3>1. losses' = losses + 1
      BY <2>2 DEF Lose
    <3>2. losses' \in Nat /\ Astray'
      BY <1>3, <3>1 DEF Astray
    <3> QED
      BY <1>1, <1>2, <1>3, <2>2, <3>2, SendKeeps
  <2> QED
    BY <1>1, <2>1, <2>2
<1>6. DeviceInv'
  <2>0. UNCHANGED <<outgoing, incoming, refill, setup>> /\ Async
    BY <1>1
  <2>1. refill' \in BOOLEAN /\ (refill' => Async /\ incoming = <<>> /\ outgoing' = <<>>)
    BY <1>2, <2>0 DEF DeviceInv
  <2>2. Len(outgoing') <= PayloadSize /\ outgoing' \in Seq(Int) /\ ~Basic
    BY <1>2, <2>0 DEF DeviceInv, Async, Basic
  <2> QED
    BY <1>0, <1>1, <1>2, <1>4, <2>1, <2>2, DeviceStays
<1>7. RequestInv'
  <2>1. Len(incoming') + Len(fifo') + Len(usb') >= Len(incoming) + Len(fifo) + Len(usb)
    BY <1>1, <1>4, <1>5
  <2>2. torn \in BOOLEAN /\ Len(incoming') \in Nat
    BY <1>1, <1>2, <1>5 DEF AskInv
  <2> QED
    BY <1>1, <1>2, <1>4, <2>1, <2>2, RequestStays
<1>8. AskInv'
  <2>1. missed' \in BOOLEAN
    BY <1>1, <1>2 DEF AskInv
  <2> QED
    BY <1>1, <1>2, <2>1, AskStays
<1>9. Passes(<<>>)
  <2>3. Sending = outgoing /\ Sending' = <<>>
    <3>1. ~broken
      BY <1>1
    <3> QED
      BY <1>0, <3>1 DEF Sending
  <2>6. WayOf(Sending) \o <<>> = WayOf(Sending) /\ WayOf(outgoing) \o <<>> = WayOf(outgoing)
    BY <1>2, Tails
  <2>1. CASE NotHeard
    <3>1. UNCHANGED <<fifo, usb, host, dropped, losses>>
      BY <2>1 DEF NotHeard, picoVars, lossVars
    <3>2. WayOf(outgoing)' = WayOf(outgoing) /\ WayOf(Sending)' = WayOf(<<>>)
      BY <1>1, <2>3, <3>1 DEF WayOf
    <3>3. WayOf(outgoing) = WayOf(<<>>) \o outgoing /\ WayOf(<<>>) \in Seq(Int)
      BY <1>2, <1>3, AllQueues
    <3>4. WayOf(Sending) = WayOf(<<>>) \o outgoing
      BY <2>3, <3>3
    <3>5. Shrinks(WayOf(Sending), WayOf(Sending)')
      BY <1>3, <3>2, <3>3, <3>4, EndTaken
    <3>6. Astray' = Astray
      BY <3>1 DEF Astray
    <3> QED
      BY <2>6, <3>1, <3>2, <3>5, <3>6 DEF Passes
  <2>2. CASE WriteBlock(outgoing) /\ Lose
    <3> DEFINE old == Way(back, incoming, fifo, usb, host, outgoing \o <<>>)
               new == Way(back, incoming, fifo', usb', host', <<>>)
    <3>1. Astray'
      BY <1>3, <2>2 DEF Lose, Astray
    <3>2. Sent(outgoing)
      BY <1>2, <2>2, Sends DEF DeviceInv
    <3>3. Shrinks(old, new)
      BY <1>2, <1>3, <3>2, SendPasses
    <3>4. outgoing \o <<>> = outgoing
      BY <1>3, ConcatEmptySeq
    <3>5. old = WayOf(Sending)
      BY <2>3, <3>4 DEF WayOf
    <3>6. new = WayOf(Sending)'
      BY <1>1, <2>3 DEF WayOf
    <3> HIDE DEF old, new
    <3> QED
      BY <2>6, <3>1, <3>3, <3>5, <3>6 DEF Passes
  <2> QED
    BY <1>1, <2>1, <2>2
<1>10. Counted(<<>>)
  <2>1. UNCHANGED <<act, written>>
    BY <1>1 DEF testVars
  <2> QED
    BY <1>1, <1>2, <1>7, <2>1, TransferCounts
<1> QED
  BY <1>6, <1>7, <1>8, <1>9, <1>10 DEF Kept

\* A block is fetched, by whichever driver.
LEMMA FetchKeeps ==
  ASSUME DeviceInv, ReadBlock, incoming = <<>>, ~refill', refill' \in BOOLEAN,
         UNCHANGED <<outgoing, broken, spanned, setup, back>>,
         filled' = Len(incoming') \/ (Basic /\ filled' = filled)
  PROVE  /\ DeviceInv' /\ Passes(<<>>) /\ Popped(incoming', extra') /\ Astray' = Astray
         /\ UNCHANGED <<host, dropped, losses>>
         /\ {Len(incoming'), Len(fifo'), Len(usb')} \subseteq Nat
         /\ Len(incoming') + Len(fifo') + Len(usb') = Len(incoming) + Len(fifo) + Len(usb)
<1>1. Wired' /\ Popped(incoming', extra') /\ UNCHANGED <<host, dropped, losses>>
  BY Fetches DEF DeviceInv, Fetched, lossVars
<1>2. /\ {Len(fifo'), Len(usb'), Len(incoming')} \subseteq Nat
      /\ Len(incoming') + Len(fifo') + Len(usb') = Len(fifo) + Len(usb)
  BY <1>1, PopCounts
<1>3. /\ {Len(fifo), Len(usb), Len(host), Len(outgoing), Len(incoming), Len(back)} \subseteq Nat
      /\ PayloadSize \in Nat /\ FifoSize \in Nat /\ PayloadSize <= FifoSize /\ Len(incoming) = 0
  BY Lengths
<1>4. Astray' = Astray
  BY <1>1 DEF Astray
<1>5. DeviceInv'
  <2>1. /\ incoming' \in Seq(Int) /\ fifo' \in Seq(Int) /\ usb' \in Seq(Int)
        /\ extra' = Len(fifo') /\ Len(incoming') + Len(fifo') <= FifoSize
        /\ Len(incoming') <= PayloadSize /\ (extra' > 0 => Len(incoming') = PayloadSize)
        /\ setup.pico = "loopback" => usb' = usb
    BY <1>1 DEF Popped
  <2>2. /\ extra' \in 0..(FifoSize - PayloadSize) /\ Len(incoming') + extra' <= FifoSize
        /\ Len(fifo') <= FifoSize /\ extra' <= Len(fifo')
    BY <1>2, <1>3, <2>1, SMTT(30)
  <2>3. filled' \in 0..PayloadSize /\ (Async => Len(incoming') <= filled')
    <3>1. CASE filled' = Len(incoming')
      BY <1>2, <1>3, <2>1, <3>1
    <3>2. CASE Basic /\ filled' = filled
      BY <3>2 DEF DeviceInv, Async, Basic
    <3> QED
      BY <3>1, <3>2
  <2> QED
    BY <1>1, <1>4, <2>1, <2>2, <2>3 DEF DeviceInv, Async, Basic
<1>6. Passes(<<>>)
  <2>1. ASSUME NEW o \in Seq(Int)
        PROVE  Way(back', incoming', fifo', usb', host', o) = Way(back, incoming, fifo, usb, host, o)
    <3>1. Way(back, incoming', fifo', usb', host, o) = Way(back, <<>>, fifo, usb, host, o)
      BY <1>1, FetchPasses
    <3> QED
      BY <1>1, <3>1
  <2>2. Sending' = Sending
    BY DEF Sending
  <2>3. WayOf(Sending)' = WayOf(Sending) /\ WayOf(outgoing)' = WayOf(outgoing)
    <3>1. Sending \in Seq(Int) /\ outgoing \in Seq(Int)
      BY Tails
    <3> QED
      BY <2>1, <2>2, <3>1 DEF WayOf
  <2>4. (~dropped' => ~dropped) /\ (~Astray' => ~Astray)
    BY <1>1, <1>4
  <2> QED
    BY <2>3, <2>4, LineStays
<1> QED
  BY <1>1, <1>2, <1>3, <1>4, <1>5, <1>6

\* A reply does not come, or is thrown away.
LEMMA GoneKeeps ==
  ASSUME DeviceInv, LosesReply, UNCHANGED <<outgoing, incoming, filled, extra, spanned, setup, back>>,
         {refill', broken'} \subseteq BOOLEAN, refill' => refill, outgoing = <<>> \/ broken' = broken
  PROVE  /\ DeviceInv' /\ Passes(<<>>) /\ UNCHANGED <<host, dropped>>
         /\ {Len(fifo'), Len(usb')} \subseteq Nat
         /\ ~Astray' => ~Astray /\ Len(fifo') >= Len(fifo) /\ Len(fifo') + Len(usb') >= Len(fifo) + Len(usb)
         /\ setup.pico = "loopback" => Len(fifo') <= Len(fifo)
<1>1. losses \in Nat
  BY DEF DeviceInv
<1>2. /\ Wired' /\ UNCHANGED <<host, dropped>> /\ losses' \in {losses, losses + 1}
      /\ \/ UNCHANGED <<fifo, usb, losses>>
         \/ \E first, left : Popped(first, left) /\ (losses' = losses => first = <<>>)
  BY <1>1, Loses DEF DeviceInv
<1>3. losses' \in Nat /\ (~Astray' => ~Astray /\ losses' = losses)
  BY <1>1, <1>2 DEF Astray
<1>4. {Len(fifo), Len(usb), FifoSize, PayloadSize} \subseteq Nat
  BY Lengths
<1>5. Sending' = Sending /\ Sending \in Seq(Int) /\ outgoing \in Seq(Int)
  BY Tails DEF Sending
<1> HIDE DEF Sending
<1>6. /\ {fifo', usb'} \subseteq Seq(Int) /\ Len(fifo') <= FifoSize
      /\ setup.pico = "loopback" => usb' = <<>>
      /\ {Len(fifo'), Len(usb')} \subseteq Nat
      /\ ~Astray' => Len(fifo') >= Len(fifo) /\ Len(fifo') + Len(usb') >= Len(fifo) + Len(usb)
      /\ setup.pico = "loopback" => Len(fifo') <= Len(fifo)
      /\ Shrinks(WayOf(Sending), WayOf(Sending)')
      /\ ~Astray' => WayOf(outgoing)' = WayOf(outgoing)
  <2>1. CASE UNCHANGED <<fifo, usb, losses>>
    <3>1. WayOf(Sending)' = WayOf(Sending) /\ WayOf(outgoing)' = WayOf(outgoing)
      BY <1>2, <1>5, <2>1 DEF WayOf
    <3>2. Queues({WayOf(Sending)})
      BY Tails DEF Queues
    <3>3. Shrinks(WayOf(Sending), WayOf(Sending))
      BY <3>2, NoneTaken
    <3> QED
      BY <1>4, <2>1, <3>1, <3>3 DEF DeviceInv
  <2>2. CASE \E first, left : Popped(first, left) /\ (losses' = losses => first = <<>>)
    <3>1. PICK first, left : Popped(first, left) /\ (losses' = losses => first = <<>>)
      BY <2>2
    <3>2. /\ {Len(fifo'), Len(usb'), Len(first), left} \subseteq Nat
          /\ Len(first) + Len(fifo') + Len(usb') = Len(fifo) + Len(usb)
      BY <3>1, PopCounts
    <3>3. /\ {fifo', usb'} \subseteq Seq(Int) /\ Len(first) + Len(fifo') \in Len(fifo)..FifoSize
          /\ setup.pico = "loopback" => usb' = usb
      BY <3>1 DEF Popped
    <3>4. Len(fifo') <= FifoSize /\ (first = <<>> => Len(fifo') >= Len(fifo))
      <4>1. first = <<>> => Len(first) = 0
        OBVIOUS
      <4> QED
        BY <1>4, <3>2, <3>3, <4>1
    <3>5. first = <<>> => Len(fifo') + Len(usb') >= Len(fifo) + Len(usb)
      <4>1. first = <<>> => Len(first) = 0
        OBVIOUS
      <4> QED
        BY <1>4, <3>2, <4>1
    <3>6. setup.pico = "loopback" => usb' = <<>> /\ Len(fifo') <= Len(fifo)
      BY <1>4, <3>2, <3>3 DEF DeviceInv
    <3>7. Shrinks(WayOf(Sending), WayOf(Sending)')
      <4>1. Shrinks(Way(back, incoming, fifo, usb, host, Sending), Way(back, incoming, fifo', usb', host, Sending))
        BY <1>5, <3>1, FetchPasses
      <4> QED
        BY <1>2, <1>5, <4>1 DEF WayOf
    <3>8. first = <<>> => WayOf(outgoing)' = WayOf(outgoing)
      <4>1. first = <<>> => Way(back, incoming, fifo', usb', host, outgoing)
                              = Way(back, incoming, fifo, usb, host, outgoing)
        BY <1>5, <3>1, FetchPasses
      <4> QED
        BY <1>2, <4>1 DEF WayOf
    <3> QED
      BY <1>3, <3>1, <3>2, <3>3, <3>4, <3>5, <3>6, <3>7, <3>8
  <2> QED
    BY <1>2, <2>1, <2>2
<1>7. Passes(<<>>)
  <2>1. WayOf(Sending) \o <<>> = WayOf(Sending) /\ WayOf(outgoing) \o <<>> = WayOf(outgoing)
    BY Tails
  <2> QED
    BY <1>2, <1>3, <1>6, <2>1 DEF Passes
<1>8. PicoInv'
  BY <1>2, <1>3, <1>6 DEF PicoInv, DeviceInv
<1>9. DeviceInv'
  <2>1. refill' => Async /\ incoming = <<>> /\ outgoing' = <<>>
    BY DEF DeviceInv
  <2>2. Len(outgoing') <= PayloadSize /\ outgoing' \in Seq(Int) /\ (Basic => outgoing' = <<>>)
    BY DEF DeviceInv
  <2> QED
    BY <1>3, <1>6, <1>8, <2>1, <2>2, DeviceStays
<1> QED
  BY <1>2, <1>3, <1>6, <1>7, <1>9

\* The driver's read buffer is filled.
LEMMA FillKeeps ==
  ASSUME WayInv, Fill
  PROVE  Kept /\ Popped(incoming', extra') /\ incoming = <<>> /\ UNCHANGED <<outgoing, dropped, losses>>
<1>1. /\ Async /\ ~broken /\ incoming = <<>> /\ ReadBlock /\ filled' = Len(incoming') /\ refill' = FALSE
      /\ torn' = (torn \/ pc \in {"actCount", "avail"})
      /\ UNCHANGED <<outgoing, broken, spanned, sum, missed, setup, pc, want, act, msg, back, testVars>>
  BY DEF Fill, FillWith, MayFill, NoRequest, callVars
<1>2. ~refill' /\ refill' \in BOOLEAN
  BY <1>1, Zenon
<1>3. DeviceInv /\ AskInv /\ RequestInv /\ CountInv
  BY DEF WayInv
<1>4. torn' \in BOOLEAN /\ (torn => torn') /\ (pc \in {"actCount", "avail"} => torn')
  <2>1. torn \in BOOLEAN
    BY <1>3 DEF AskInv
  <2> QED
    BY <1>1, <2>1, Zenon
<1>5. /\ DeviceInv' /\ Passes(<<>>) /\ Popped(incoming', extra') /\ Astray' = Astray
      /\ UNCHANGED <<host, dropped, losses>>
      /\ {Len(incoming'), Len(fifo'), Len(usb')} \subseteq Nat
      /\ Len(incoming') + Len(fifo') + Len(usb') = Len(incoming) + Len(fifo) + Len(usb)
  BY <1>1, <1>2, <1>3, FetchKeeps
<1>6. RequestInv'
  BY <1>1, <1>3, <1>4, <1>5, RequestStays
<1>7. AskInv'
  BY <1>1, <1>3, <1>4 DEF AskInv, Async
<1>8. Counted(<<>>)
  <2>1. UNCHANGED <<act, written>>
    BY <1>1 DEF testVars
  <2> QED
    BY <1>1, <1>3, <1>6, <2>1, TransferCounts
<1> QED
  BY <1>1, <1>5, <1>6, <1>7, <1>8 DEF Kept

\* The Basic driver fetches for a request.
LEMMA BasicFetchKeeps ==
  ASSUME WayInv, BasicFetch
  PROVE  Kept /\ Popped(incoming', extra') /\ incoming = <<>> /\ UNCHANGED <<outgoing, dropped, losses>>
<1>1. /\ Basic /\ pc = "reading" /\ incoming = <<>> /\ ReadBlock
      /\ UNCHANGED <<outgoing, filled, refill, broken, spanned, sum, torn, missed, setup, pc, want, act, msg, back, testVars>>
  BY DEF BasicFetch, callVars, askVars
<1>3. DeviceInv /\ AskInv /\ RequestInv /\ CountInv
  BY DEF WayInv
<1>2. ~refill' /\ refill' \in BOOLEAN /\ torn \in BOOLEAN /\ missed' \in BOOLEAN
  BY <1>1, <1>3 DEF DeviceInv, AskInv, Basic, Async
<1>5. /\ DeviceInv' /\ Passes(<<>>) /\ Popped(incoming', extra') /\ Astray' = Astray
      /\ UNCHANGED <<host, dropped, losses>>
      /\ {Len(incoming'), Len(fifo'), Len(usb')} \subseteq Nat
      /\ Len(incoming') + Len(fifo') + Len(usb') = Len(incoming) + Len(fifo) + Len(usb)
  BY <1>1, <1>2, <1>3, FetchKeeps
<1>6. RequestInv'
  BY <1>1, <1>2, <1>3, <1>5, RequestStays
<1>7. AskInv'
  BY <1>1, <1>2, <1>3, AskStays
<1>8. Counted(<<>>)
  <2>1. UNCHANGED <<act, written>>
    BY <1>1 DEF testVars
  <2> QED
    BY <1>1, <1>3, <1>6, <2>1, TransferCounts
<1> QED
  BY <1>1, <1>5, <1>6, <1>7, <1>8 DEF Kept

\* A reply to a read of either driver is lost.
LEMMA FetchFailsKeeps ==
  ASSUME WayInv, FillFails \/ BasicFetchFails
  PROVE  Kept
<1>3. DeviceInv /\ AskInv /\ RequestInv /\ CountInv
  BY DEF WayInv
<1>1. /\ LosesReply /\ UNCHANGED <<outgoing, incoming, filled, extra, spanned, sum, torn, missed, setup, want, act, msg,
                                   back, testVars>>
      /\ {refill', broken'} \subseteq BOOLEAN /\ (refill' => refill) /\ (outgoing = <<>> \/ broken' = broken)
      /\ pc' = pc \/ pc' = "failed"
      /\ pc' = pc \/ pc' \notin {"actCount", "avail"}
  <2>1. CASE FillFails
    <3>1. /\ LosesReply /\ broken' = TRUE /\ refill' = FALSE /\ (refill \/ outgoing = <<>>)
          /\ UNCHANGED <<outgoing, incoming, filled, extra, spanned, sum, torn, missed, setup, pc, want, act, msg,
                         back, testVars>>
      BY <2>1 DEF FillFails, MayFill, NoRequest, callVars, askVars
    <3>2. refill' \in BOOLEAN /\ broken' \in BOOLEAN /\ ~refill'
      BY <3>1, Zenon
    <3>3. outgoing = <<>>
      BY <1>3, <3>1 DEF DeviceInv
    <3> QED
      BY <3>1, <3>2, <3>3
  <2>2. CASE BasicFetchFails
    <3>1. /\ LosesReply /\ pc' = "failed"
          /\ UNCHANGED <<outgoing, incoming, filled, extra, refill, broken, spanned, sum, torn, missed, setup,
                         want, act, msg, back, testVars>>
      BY <2>2 DEF BasicFetchFails, GoTo, driverVars, callVars, askVars
    <3> QED
      BY <1>3, <3>1 DEF DeviceInv
  <2> QED
    BY <2>1, <2>2
<1>4. /\ DeviceInv' /\ Passes(<<>>)
      /\ {Len(fifo'), Len(usb')} \subseteq Nat
      /\ ~Astray' => ~Astray /\ Len(fifo') >= Len(fifo) /\ Len(fifo') + Len(usb') >= Len(fifo) + Len(usb)
  BY <1>1, <1>3, GoneKeeps
<1>5. RequestInv'
  <2>1. {Len(fifo), Len(usb), Len(incoming)} \subseteq Nat /\ Len(incoming') = Len(incoming)
    BY <1>1, <1>3, Lengths
  <2>2. ~Astray' => Len(incoming') + Len(fifo') + Len(usb') >= Len(incoming) + Len(fifo) + Len(usb)
    BY <1>4, <2>1
  <2>3. torn \in BOOLEAN
    BY <1>3 DEF AskInv
  <2> QED
    BY <1>1, <1>3, <1>4, <2>1, <2>2, <2>3, RequestStays
<1>6. AskInv'
  <2>1. missed' \in BOOLEAN
    BY <1>1, <1>3 DEF AskInv
  <2> QED
    BY <1>1, <1>3, <2>1, AskStays
<1>7. Counted(<<>>)
  <2>1. UNCHANGED <<act, written>>
    BY <1>1 DEF testVars
  <2> QED
    BY <1>1, <1>3, <1>5, <2>1, TransferCounts
<1> QED
  BY <1>4, <1>5, <1>6, <1>7 DEF Kept

\* What is accepted of a request at a time, when it goes on its way, are the next bytes.
LEMMA AcceptedPart ==
  ASSUME DeviceInv, RequestInv, pc = "writing", NEW n \in Nat, act + n <= want
  PROVE  LET part == SubSeq(msg, act + 1, act + n)
         IN /\ part \in Seq(Int) /\ Len(part) = n
            /\ \A i \in 1..Len(part) : part[i] = Accepted + i
<1>1. /\ msg \in Seq(Int) /\ act \in Nat /\ want \in Nat /\ Len(msg) = want /\ written \in Nat
      /\ \A i \in 1..want : msg[i] = written + i
  BY DEF RequestInv
<1> DEFINE part == SubSeq(msg, act + 1, act + n)
<1>2. /\ part \in Seq(Int) /\ Len(part) = n
      /\ \A i \in 1..n : part[i] = msg[act + i]
  BY <1>1, PartOf
<1> HIDE DEF part
<1>3. \A i \in 1..n : act + i \in 1..want /\ written + (act + i) = written + act + i
  BY <1>1
<1>4. \A i \in 1..n : part[i] = written + act + i
  BY <1>1, <1>2, <1>3
<1>5. Accepted = written + act
  BY DEF Accepted
<1> QED
  BY <1>2, <1>4, <1>5 DEF part

\* And the request goes on behind them.
LEMMA AcceptCounts ==
  ASSUME DeviceInv, RequestInv, pc = "writing", NEW n \in Nat, act + n <= want, act' = act + n,
         UNCHANGED <<setup, pc, want, msg, back, testVars>>, Sending = outgoing
  PROVE  RequestInv' /\ Counted(SubSeq(msg, act + 1, act + n))
<1> DEFINE part == SubSeq(msg, act + 1, act + n)
<1>1. part \in Seq(Int) /\ Len(part) = n /\ \A i \in 1..Len(part) : part[i] = Accepted + i
  BY AcceptedPart
<1> HIDE DEF part
<1>2. UNCHANGED <<written, got, writes, timeUp>>
  BY DEF testVars
<1>3. act \in Nat /\ want \in Nat /\ written \in Nat /\ act' \in Nat /\ act' <= want
  BY DEF RequestInv
<1>4. RequestInv'
  BY <1>2, <1>3 DEF RequestInv
<1>5. Accepted' = Accepted + Len(part) /\ Accepted \in Nat
  BY <1>1, <1>2, <1>3 DEF Accepted
<1> HIDE DEF Accepted
<1>6. Counted(part)
  BY <1>1, <1>5 DEF Counted
<1> QED
  BY <1>4, <1>6 DEF part

\* Part of a request is copied to the asynchronous driver's buffer.
LEMMA AcceptKeeps ==
  ASSUME WayInv, Accept
  PROVE  /\ Kept
         /\ \E n \in Nat : n > 0 /\ act + n <= want /\ act' = act + n /\ Len(outgoing') = Len(outgoing) + n
<1>1. DeviceInv /\ AskInv /\ RequestInv /\ CountInv
  BY DEF WayInv
<1> DEFINE n == Loop!Min2(want - act, PayloadSize - Len(outgoing))
           part == SubSeq(msg, act + 1, act + n)
<1>2. /\ Async /\ pc = "writing" /\ ~broken /\ ~refill /\ n > 0
      /\ outgoing' = outgoing \o part /\ act' = act + n
      /\ UNCHANGED <<picoVars, host, setup, incoming, filled, extra, refill, broken, spanned, pc, want, msg, back>>
      /\ UNCHANGED <<sum, torn, missed, testVars, dropped, losses>>
  BY DEF Accept, askVars, lossVars
<1>3. {Len(fifo), Len(usb), Len(host), Len(outgoing), Len(incoming), Len(back), PayloadSize} \subseteq Nat
  BY <1>1, Lengths
<1>4. act \in Nat /\ want \in Nat /\ act <= want /\ Len(outgoing) <= PayloadSize
  BY <1>1 DEF RequestInv, DeviceInv
<1>5. n \in Nat /\ act + n <= want /\ Len(outgoing) + n <= PayloadSize
  BY <1>3, <1>4 DEF Loop!Min2
<1> HIDE DEF n
<1>6. part \in Seq(Int) /\ Len(part) = n
  BY <1>1, <1>2, <1>5, AcceptedPart
<1>12. RequestInv' /\ Counted(part)
  <2>1. Sending = outgoing
    BY <1>2 DEF Sending
  <2> QED
    BY <1>1, <1>2, <1>5, <2>1, AcceptCounts
<1> HIDE DEF part
<1>7. outgoing \in Seq(Int)
  BY <1>1 DEF DeviceInv
<1>8. outgoing' \in Seq(Int) /\ Len(outgoing') = Len(outgoing) + n
  BY <1>2, <1>6, <1>7, ConcatProperties
<1>9. UNCHANGED <<state, knock, drive, sector, fifo, usb, host, incoming>>
  BY <1>2 DEF picoVars
<1>10. DeviceInv'
  <2>1. PicoInv' /\ Astray' = Astray /\ Len(fifo') >= Len(fifo)
    BY <1>1, <1>2, <1>3, <1>9 DEF PicoInv, DeviceInv, Wired, Astray
  <2>2. {refill', broken'} \subseteq BOOLEAN /\ ~Basic /\ ~refill' /\ Len(outgoing') <= PayloadSize
    BY <1>1, <1>2, <1>5, <1>8 DEF DeviceInv, Async, Basic
  <2> QED
    BY <1>1, <1>2, <1>8, <2>1, <2>2, DeviceStays
<1>11. AskInv'
  <2>1. missed' \in BOOLEAN
    BY <1>1, <1>2 DEF AskInv
  <2> QED
    BY <1>1, <1>2, <2>1, AskStays
<1>13. Passes(part)
  <2>1. Queues({back, incoming, fifo, usb, host, outgoing, part})
    BY <1>1, <1>6 DEF DeviceInv, Queues
  <2>2. Way(back, incoming, fifo, usb, host, outgoing \o part) = WayOf(outgoing) \o part
    BY <2>1, LineGrows, SMTT(60) DEF WayOf
  <2>3. WayOf(outgoing)' = WayOf(outgoing) \o part
    BY <1>2, <1>9, <2>2 DEF WayOf
  <2>4. Sending = outgoing /\ Sending' = outgoing'
    BY <1>2 DEF Sending
  <2>5. WayOf(Sending)' = WayOf(outgoing)' /\ WayOf(Sending) = WayOf(outgoing)
    BY <2>4 DEF WayOf
  <2>6. WayOf(outgoing) \o part \in Seq(Int)
    <3>1. WayOf(outgoing) \in Seq(Int)
      BY <1>1, Tails
    <3> QED
      BY <1>6, <3>1, ConcatProperties
  <2> DEFINE line == WayOf(outgoing) \o part
  <2>7. Queues({line})
    BY <2>6 DEF Queues
  <2>8. line = WayOf(Sending) \o part /\ line = WayOf(Sending)' /\ line = WayOf(outgoing)'
    BY <2>3, <2>5
  <2> HIDE DEF line
  <2>9. Shrinks(line, line)
    BY <2>7, NoneTaken
  <2>10. Astray' = Astray
    BY <1>2 DEF Astray
  <2> QED
    BY <1>2, <2>3, <2>8, <2>9, <2>10 DEF Passes
<1> QED
  BY <1>2, <1>5, <1>8, <1>10, <1>11, <1>12, <1>13 DEF Kept

\* The block the Basic driver sends next.
LEMMA NextPart ==
  ASSUME DeviceInv, RequestInv, pc = "writing", act < want
  PROVE  \E n \in Nat : /\ n > 0 /\ act + n <= want /\ NextBlock = SubSeq(msg, act + 1, act + n)
                        /\ NextBlock \in Seq(Int) /\ Len(NextBlock) = n
                        /\ \A i \in 1..Len(NextBlock) : NextBlock[i] = Accepted + i
<1> DEFINE n == Loop!Min2(want - act, BlockSize)
<1>1. act \in Nat /\ want \in Nat /\ BlockSize \in Nat \ {0}
  BY LoopbackAssumption DEF RequestInv
<1>2. n \in Nat /\ n > 0 /\ act + n <= want
  BY <1>1 DEF Loop!Min2
<1>3. NextBlock = SubSeq(msg, act + 1, act + n)
  BY DEF NextBlock
<1> HIDE DEF n, NextBlock
<1>4. /\ NextBlock \in Seq(Int) /\ Len(NextBlock) = n
      /\ \A i \in 1..Len(NextBlock) : NextBlock[i] = Accepted + i
  BY <1>2, <1>3, AcceptedPart
<1> QED
  BY <1>2, <1>3, <1>4

\* The Pico hears of it.
LEMMA BlockPasses ==
  ASSUME DeviceInv, Basic, NEW part \in Seq(Int), WriteBlock(part), UNCHANGED <<setup, driverVars, losses, back>>
  PROVE  /\ DeviceInv' /\ Passes(part) /\ Sent(part) /\ Astray' = Astray
         /\ {Len(fifo'), Len(usb')} \subseteq Nat /\ Len(fifo') + Len(usb') >= Len(fifo) + Len(usb)
<1>1. UNCHANGED <<outgoing, incoming, filled, extra, refill, broken, spanned>> /\ outgoing = <<>> /\ Sending = <<>>
  BY DEF driverVars, DeviceInv, Sending
<1>2. losses' \in Nat /\ Astray' = Astray
  BY DEF DeviceInv, Astray
<1>3. /\ PicoInv' /\ Sent(part) /\ Len(fifo') >= Len(fifo)
      /\ {Len(fifo'), Len(usb')} \subseteq Nat /\ Len(fifo') + Len(usb') >= Len(fifo) + Len(usb)
  BY <1>2, SendKeeps
<1>4. DeviceInv'
  <2>1. /\ {refill', broken'} \subseteq BOOLEAN /\ ~refill' /\ outgoing' \in Seq(Int) /\ Len(outgoing') <= PayloadSize
        /\ outgoing' = <<>>
    BY <1>1 DEF DeviceInv, Async, Basic
  <2> QED
    BY <1>1, <1>2, <1>3, <2>1, DeviceStays
<1>5. Passes(part)
  <2> DEFINE old == Way(back, incoming, fifo, usb, host, part \o <<>>)
             new == Way(back, incoming, fifo', usb', host', <<>>)
  <2>1. Shrinks(old, new) /\ (~dropped' => ~dropped /\ new = old)
    <3>1. <<>> \in Seq(Int)
      OBVIOUS
    <3> QED
      BY <1>3, <3>1, SendPasses
  <2>2. part \o <<>> = part
    BY ConcatEmptySeq
  <2>3. WayOf(part) = WayOf(<<>>) \o part
    BY AllQueues
  <2>4. old = WayOf(<<>>) \o part
    BY <2>2, <2>3 DEF WayOf
  <2>5. Sending' = <<>> /\ outgoing' = <<>>
    BY <1>1 DEF Sending
  <2>6. old = WayOf(Sending) \o part /\ old = WayOf(outgoing) \o part
    BY <1>1, <2>4
  <2>7. new = WayOf(Sending)' /\ new = WayOf(outgoing)'
    BY <1>1, <2>5 DEF WayOf
  <2> HIDE DEF old, new
  <2> QED
    BY <1>2, <2>1, <2>6, <2>7 DEF Passes
<1> QED
  BY <1>2, <1>3, <1>4, <1>5

\* A block of a request is sent by the Basic driver.
LEMMA BasicSendKeeps ==
  ASSUME WayInv, BasicSend
  PROVE  /\ Kept
         /\ \E n \in Nat : n > 0 /\ act + n <= want /\ act' = act + n /\ Len(NextBlock) = n
         /\ Sent(NextBlock)
<1>1. DeviceInv /\ AskInv /\ RequestInv /\ CountInv
  BY DEF WayInv
<1>2. /\ Basic /\ pc = "writing" /\ act < want /\ WriteBlock(NextBlock) /\ act' = act + Len(NextBlock)
      /\ UNCHANGED <<setup, driverVars, pc, want, msg, back, sum, torn, missed, testVars, losses>>
  BY DEF BasicSend, askVars
<1>3. PICK n \in Nat : /\ n > 0 /\ act + n <= want /\ NextBlock = SubSeq(msg, act + 1, act + n)
                       /\ NextBlock \in Seq(Int) /\ Len(NextBlock) = n
  BY <1>1, <1>2, NextPart
<1>4. DeviceInv' /\ Passes(NextBlock) /\ Sent(NextBlock)
  BY <1>1, <1>2, <1>3, BlockPasses
<1>5. RequestInv' /\ Counted(NextBlock)
  <2>1. Sending = outgoing
    BY <1>1, <1>2 DEF Sending, DeviceInv
  <2> QED
    BY <1>1, <1>2, <1>3, <2>1, AcceptCounts
<1>6. AskInv'
  <2>1. missed' \in BOOLEAN /\ pc' = "writing"
    BY <1>1, <1>2 DEF AskInv
  <2> QED
    BY <1>1, <1>2, <2>1, AskStays
<1> QED
  BY <1>2, <1>3, <1>4, <1>5, <1>6 DEF Kept

\* Or it is not sent, or the driver does not hear that it was.
LEMMA BasicSendFailsKeeps ==
  ASSUME WayInv, BasicSendFails
  PROVE  Kept
<1>1. DeviceInv /\ AskInv /\ RequestInv /\ CountInv
  BY DEF WayInv
<1>2. /\ Basic /\ pc = "writing" /\ act < want /\ pc' = "failed"
      /\ NotHeard \/ (WriteBlock(NextBlock) /\ UNCHANGED losses)
      /\ UNCHANGED <<setup, driverVars, want, act, msg, back, sum, torn, missed, testVars>>
  BY DEF BasicSendFails, callVars, askVars, GoTo
<1>3. PICK n \in Nat : /\ n > 0 /\ act + n <= want /\ NextBlock = SubSeq(msg, act + 1, act + n)
                       /\ NextBlock \in Seq(Int) /\ Len(NextBlock) = n
                       /\ \A i \in 1..Len(NextBlock) : NextBlock[i] = Accepted + i
  BY <1>1, <1>2, NextPart
<1>4. UNCHANGED <<outgoing, incoming, filled, extra, refill, broken, spanned>>
  BY <1>2 DEF driverVars
<1>5. {Len(fifo), Len(usb), Len(incoming)} \subseteq Nat /\ Len(incoming') = Len(incoming) /\ torn \in BOOLEAN
  BY <1>1, <1>4, Lengths DEF AskInv
<1>6. AskInv'
  <2>1. missed' \in BOOLEAN /\ pc' \notin {"actCount", "avail"}
    BY <1>1, <1>2 DEF AskInv
  <2> QED
    BY <1>1, <1>2, <2>1, AskStays
<1>7. CASE NotHeard
  <2>1. UNCHANGED <<state, knock, drive, sector, fifo, usb, host, dropped, losses>>
    BY <1>7 DEF NotHeard, picoVars, lossVars
  <2>2. Astray' = Astray /\ Len(fifo') >= Len(fifo)
    BY <1>5, <2>1 DEF Astray
  <2>3. DeviceInv'
    <3>1. PicoInv'
      BY <1>1, <1>2, <2>1 DEF PicoInv, DeviceInv, Wired
    <3>2. /\ {refill', broken'} \subseteq BOOLEAN /\ outgoing' \in Seq(Int) /\ Len(outgoing') <= PayloadSize
          /\ outgoing' = <<>> /\ ~refill'
      BY <1>1, <1>2, <1>4 DEF DeviceInv, Async, Basic
    <3> QED
      BY <1>1, <1>2, <1>4, <2>2, <3>1, <3>2, DeviceStays
  <2>4. RequestInv'
    <3>1. /\ Len(incoming') + Len(fifo') + Len(usb') >= Len(incoming) + Len(fifo) + Len(usb)
          /\ {Len(fifo'), Len(usb'), Len(incoming')} \subseteq Nat
      BY <1>5, <2>1
    <3> QED
      BY <1>1, <1>2, <1>5, <2>2, <3>1, RequestStays
  <2>5. Passes(<<>>)
    <3>1. WayOf(Sending)' = WayOf(Sending) /\ WayOf(outgoing)' = WayOf(outgoing)
      BY <1>2, <1>4, <2>1 DEF WayOf, Sending
    <3> QED
      BY <1>1, <2>1, <2>2, <3>1, LineStays
  <2>6. Counted(<<>>)
    <3>1. UNCHANGED <<act, written>>
      BY <1>2 DEF testVars
    <3> QED
      BY <1>1, <1>2, <2>4, <3>1, TransferCounts
  <2> QED
    BY <1>6, <2>3, <2>4, <2>5, <2>6 DEF Kept
<1>8. CASE WriteBlock(NextBlock) /\ UNCHANGED losses
  <2>1. /\ DeviceInv' /\ Passes(NextBlock) /\ Astray' = Astray
        /\ {Len(fifo'), Len(usb')} \subseteq Nat /\ Len(fifo') + Len(usb') >= Len(fifo) + Len(usb)
    BY <1>1, <1>2, <1>3, <1>8, BlockPasses
  <2>2. RequestInv'
    <3>1. Len(incoming') + Len(fifo') + Len(usb') >= Len(incoming) + Len(fifo) + Len(usb)
      BY <1>5, <2>1
    <3> QED
      BY <1>1, <1>2, <1>5, <2>1, <3>1, RequestStays
  <2>3. Counted(NextBlock)
    <3>1. Accepted = written + act /\ Accepted' = written /\ {written, act} \subseteq Nat
      BY <1>1, <1>2 DEF Accepted, RequestInv, testVars
    <3>3. Len(NextBlock) \in Nat
      BY <1>3
    <3>2. Accepted' <= Accepted + Len(NextBlock)
      BY <3>1, <3>3
    <3>4. Sending = outgoing
      BY <1>1, <1>2 DEF Sending, DeviceInv
    <3> QED
      BY <1>2, <1>3, <3>2, <3>4 DEF Counted
  <2> QED
    BY <1>6, <2>1, <2>2, <2>3 DEF Kept
<1> QED
  BY <1>2, <1>7, <1>8

\* Bytes are moved to the program's buffer, wherever in it.
LEMMA MoveKeeps ==
  ASSUME WayInv, pc = "reading", ~refill, NEW at \in Nat,
         Move(Loop!Min2(want - act, Len(incoming)), at)
  PROVE  /\ Kept
         /\ \E n \in Nat :
              /\ n > 0 /\ n <= Len(incoming) /\ act + n <= want /\ act' = act + n
              /\ back' = back \o SubSeq(incoming, 1, n)
              /\ incoming' = SubSeq(incoming, n + 1, Len(incoming))
              /\ Len(incoming') = Len(incoming) - n /\ Len(back') = Len(back) + n
              /\ msg' = [i \in 1..Len(msg) |-> IF i - at \in 1..n THEN incoming[i - at] ELSE msg[i]]
<1>1. DeviceInv /\ AskInv /\ RequestInv /\ CountInv
  BY DEF WayInv
<1> DEFINE n == Loop!Min2(want - act, Len(incoming))
           first == SubSeq(incoming, 1, n)
           last == SubSeq(incoming, n + 1, Len(incoming))
<1>2. /\ n > 0 /\ act' = act + n /\ back' = back \o first /\ incoming' = last
      /\ msg' = [i \in 1..Len(msg) |-> IF i - at \in 1..n THEN incoming[i - at] ELSE msg[i]]
      /\ spanned' = (spanned \/ act > 0)
      /\ UNCHANGED <<picoVars, host, setup, outgoing, filled, extra, refill, broken, pc, want,
                     sum, torn, missed, testVars, dropped, losses>>
  BY DEF Move, askVars, lossVars
<1>3. {Len(fifo), Len(usb), Len(host), Len(outgoing), Len(incoming), Len(back), PayloadSize} \subseteq Nat
  BY <1>1, Lengths
<1>4. act \in Nat /\ want \in Nat /\ act <= want
  BY <1>1 DEF RequestInv
<1>5. n \in Nat /\ act + n <= want /\ n <= Len(incoming)
  BY <1>3, <1>4 DEF Loop!Min2
<1>6. incoming \in Seq(Int) /\ back \in Seq(Int)
  BY <1>1 DEF DeviceInv
<1> HIDE DEF n
<1>16. n \in 0..Len(incoming)
  BY <1>3, <1>5
<1>7. /\ first \in Seq(Int) /\ Len(first) = n
      /\ last \in Seq(Int) /\ Len(last) = Len(incoming) - n
  BY <1>6, <1>16, CutInTwo
<1>8. incoming' = SubSeq(incoming, n + 1, Len(incoming)) /\ back' = back \o SubSeq(incoming, 1, n)
  BY <1>2
<1> HIDE DEF first, last
<1>9. back' \in Seq(Int) /\ Len(back') = Len(back) + n
  BY <1>2, <1>6, <1>7, ConcatProperties
<1>15. Len(back') = Len(back) + n /\ Len(incoming') = Len(incoming) - n /\ act' = act + n
  BY <1>2, <1>7, <1>9
<1>10. UNCHANGED <<state, knock, drive, sector, fifo, usb, host, outgoing, written, got, writes, timeUp>>
  BY <1>2 DEF picoVars, testVars
<1>17. Astray' = Astray /\ Slack' = Slack /\ Slack \in Nat
  BY <1>2, <1>3 DEF Astray, Slack
<1>11. DeviceInv'
  <2>1. Len(incoming') <= PayloadSize /\ Len(incoming') + extra <= FifoSize /\ (Async => Len(incoming') <= filled)
    <3>1. /\ Len(incoming) <= PayloadSize /\ Len(incoming) + extra <= FifoSize /\ extra \in Nat
          /\ PayloadSize \in Nat /\ FifoSize \in Nat /\ filled \in Nat /\ (Async => Len(incoming) <= filled)
      BY <1>1, Lengths DEF DeviceInv
    <3> QED
      BY <1>3, <1>5, <1>15, <3>1
  <2>2. spanned' \in BOOLEAN /\ ~refill'
    BY <1>2
  <2> QED
    BY <1>1, <1>2, <1>7, <1>9, <1>10, <1>17, <2>1, <2>2 DEF DeviceInv, Wired, Async, Basic
<1>12. RequestInv'
  <2>1. msg' \in Seq(Int) /\ Len(msg') = want
    <3>1. msg \in Seq(Int) /\ Len(msg) = want
      BY <1>1 DEF RequestInv
    <3>2. \A i \in 1..Len(incoming) : incoming[i] \in Int
      BY <1>6
    <3>3. \A i \in 1..want : (i - at \in 1..n => incoming[i - at] \in Int) /\ msg[i] \in Int
      BY <1>3, <1>5, <3>1, <3>2
    <3>4. msg' \in [1..want -> Int]
      BY <1>2, <3>1, <3>3
    <3> QED
      BY <1>4, <3>4
  <2>2. act' \in Nat /\ act' <= want
    BY <1>2, <1>4, <1>5
  <2>3. Len(back') = got + act'
    <3>1. Len(back) = got + act /\ got \in Nat
      BY <1>1 DEF RequestInv
    <3> QED
      BY <1>3, <1>4, <1>5, <1>15, <3>1
  <2>4. setup.serGet /\ ~Astray => want - act' <= Len(incoming') + Len(fifo) + Len(usb) + Slack
    <3>1. setup.serGet /\ ~Astray => want - act <= Len(incoming) + Len(fifo) + Len(usb) + Slack
      BY <1>1 DEF RequestInv
    <3> QED
      BY <1>3, <1>4, <1>5, <1>15, <1>17, <3>1
  <2> QED
    BY <1>1, <1>2, <1>10, <1>17, <2>1, <2>2, <2>3, <2>4 DEF RequestInv
<1>18. AskInv'
  <2>1. missed' \in BOOLEAN /\ pc' \notin {"actCount", "avail"}
    BY <1>1, <1>2 DEF AskInv
  <2> QED
    BY <1>1, <1>2, <2>1, AskStays
<1>13. Passes(<<>>)
  <2>1. ASSUME NEW o \in Seq(Int) PROVE Way(back', incoming', fifo', usb', host', o) = WayOf(o)
    <3>1. Way(back \o SubSeq(incoming, 1, n), SubSeq(incoming, n + 1, Len(incoming)), fifo, usb, host, o)
            = WayOf(o)
      BY <1>1, <1>16, MovePasses
    <3> QED
      BY <1>8, <1>10, <3>1
  <2>2. Sending' = Sending
    BY <1>2, <1>10 DEF Sending
  <2>3. Sending \in Seq(Int) /\ outgoing \in Seq(Int)
    BY <1>1, Tails
  <2>4. WayOf(Sending)' = WayOf(Sending) /\ WayOf(outgoing)' = WayOf(outgoing)
    BY <1>10, <2>1, <2>2, <2>3 DEF WayOf
  <2> QED
    BY <1>1, <1>2, <1>17, <2>4, LineStays
<1>19. Counted(<<>>)
  <2>1. Accepted' = Accepted /\ Accepted' <= Accepted
    <3>1. Accepted' = Accepted /\ Accepted \in Nat
      BY <1>1, <1>2, <1>10 DEF Accepted, RequestInv
    <3> QED
      BY <3>1
  <2> QED
    BY <1>1, <1>2, <1>12, <2>1, NoneCounted
<1>14. /\ n > 0 /\ n <= Len(incoming) /\ act + n <= want /\ act' = act + n
       /\ Len(incoming') = Len(incoming) - n
  BY <1>2, <1>5, <1>7
<1> QED
  BY <1>2, <1>5, <1>8, <1>9, <1>11, <1>12, <1>13, <1>14, <1>18, <1>19 DEF Kept

\* The echo program takes bytes from one end and gives them to the other.
LEMMA EchoKeeps ==
  ASSUME WayInv, HostEchoes
  PROVE  Kept /\ setup.pico # "loopback" /\ UNCHANGED <<fifo, outgoing, incoming>>
<1>1. DeviceInv /\ AskInv /\ RequestInv /\ CountInv
  BY DEF WayInv
<1>2. PICK n \in 1..Len(host), k \in 0..Len(host) :
        /\ k <= n /\ usb' = usb \o SubSeq(host, 1, k) /\ host' = SubSeq(host, n + 1, Len(host))
        /\ IF k = n THEN UNCHANGED losses ELSE Lose
  BY DEF HostEchoes
<1>3. /\ UNCHANGED <<state, knock, drive, sector, fifo>>
      /\ UNCHANGED <<setup, driverVars, pc, want, act, msg, back, sum, torn, missed, testVars, dropped>>
  BY DEF HostEchoes, callVars, askVars
<1>4. {Len(fifo), Len(usb), Len(host), Len(outgoing), Len(incoming), Len(back)} \subseteq Nat
  BY <1>1, Lengths
<1>5. host \in Seq(Int) /\ usb \in Seq(Int) /\ outgoing \in Seq(Int) /\ losses \in Nat
  BY <1>1 DEF DeviceInv
<1> DEFINE first == SubSeq(host, 1, n)
           last == SubSeq(host, n + 1, Len(host))
           kept == SubSeq(first, 1, k)
           lost == SubSeq(first, k + 1, Len(first))
<1>6. first \in Seq(Int) /\ Len(first) = n /\ last \in Seq(Int) /\ first \o last = host
  <2>1. n \in 0..Len(host)
    BY <1>4
  <2> QED
    BY <1>5, <2>1, CutInTwo
<1>7. SubSeq(host, 1, k) = kept
  <2>1. \A i \in 1..n : first[i] = host[i]
    <3>1. n \in 0..Len(host)
      BY <1>4
    <3> QED
      BY <1>5, <3>1, CutInTwo
  <2>2. /\ SubSeq(host, 1, k) \in Seq(Int) /\ Len(SubSeq(host, 1, k)) = k
        /\ \A i \in 1..k : SubSeq(host, 1, k)[i] = host[i]
    BY <1>5, CutInTwo
  <2> HIDE DEF first
  <2>3. k \in 0..Len(first)
    BY <1>2, <1>6
  <2>4. kept \in Seq(Int) /\ Len(kept) = k /\ \A i \in 1..k : kept[i] = first[i]
    BY <1>6, <2>3, CutInTwo
  <2>5. \A i \in 1..k : i \in 1..n
    BY <1>2
  <2> DEFINE now == SubSeq(host, 1, k)
  <2> HIDE DEF kept, now
  <2>6. now \in Seq(Int) /\ Len(now) = k /\ \A i \in 1..k : now[i] = kept[i]
    BY <2>1, <2>2, <2>4, <2>5 DEF now
  <2>7. now = kept
    BY <2>4, <2>6
  <2> QED
    BY <2>7 DEF now
<1> HIDE DEF first
<1>8. k \in 0..Len(first)
  BY <1>2, <1>6
<1>9. /\ kept \in Seq(Int) /\ Len(kept) = k /\ lost \in Seq(Int) /\ Len(lost) = n - k /\ kept \o lost = first
  BY <1>6, <1>8, CutInTwo
<1>10. usb' = usb \o kept /\ host' = last
  BY <1>2, <1>7
<1> HIDE DEF last, kept, lost
<1>11. usb' \in Seq(Int) /\ Len(usb') = Len(usb) + k /\ k \in Nat
  BY <1>5, <1>9, <1>10, ConcatProperties
<1>12. host = kept \o (lost \o last)
  <2>1. Queues({kept, lost, last})
    BY <1>6, <1>9 DEF Queues
  <2>2. (kept \o lost) \o last = kept \o (lost \o last)
    BY <2>1, Joined, SMTT(60)
  <2> QED
    BY <1>6, <1>9, <2>2
<1>13. losses' \in Nat /\ (~Astray' => ~Astray /\ lost = <<>>)
  <2>1. CASE k = n
    <3>1. losses' = losses /\ Len(lost) = 0
      BY <1>2, <1>9, <2>1
    <3> QED
      BY <1>5, <1>9, <3>1 DEF Astray
  <2>2. CASE k # n
    <3>1. losses' = losses + 1
      BY <1>2, <2>2 DEF Lose
    <3> QED
      BY <1>5, <3>1 DEF Astray
  <2> QED
    BY <2>1, <2>2
<1>14. UNCHANGED <<outgoing, incoming, filled, extra, refill, broken, spanned, back, written, act>>
  BY <1>3 DEF driverVars, testVars
<1>15. setup.pico # "loopback"
  BY <1>1 DEF DeviceInv, HostEchoes
<1>16. DeviceInv'
  <2>1. PicoInv'
    BY <1>1, <1>3, <1>6, <1>10, <1>11, <1>13, <1>15 DEF PicoInv, DeviceInv, Wired
  <2>2. Len(fifo') >= Len(fifo)
    BY <1>3, <1>4
  <2>3. /\ {refill', broken'} \subseteq BOOLEAN /\ outgoing' \in Seq(Int) /\ Len(outgoing') <= PayloadSize
        /\ (Basic => outgoing' = <<>>) /\ (refill' => Async /\ incoming = <<>> /\ outgoing' = <<>>)
    BY <1>1, <1>14 DEF DeviceInv
  <2> QED
    BY <1>1, <1>3, <1>13, <1>14, <2>1, <2>2, <2>3, DeviceStays
<1>17. RequestInv'
  <2>1. /\ {Len(fifo'), Len(usb'), Len(incoming')} \subseteq Nat
        /\ Len(incoming') + Len(fifo') + Len(usb') >= Len(incoming) + Len(fifo) + Len(usb)
    BY <1>3, <1>4, <1>11, <1>14
  <2>2. torn \in BOOLEAN
    BY <1>1 DEF AskInv
  <2> QED
    BY <1>1, <1>3, <1>13, <2>1, <2>2, RequestStays
<1>18. AskInv'
  <2>1. missed' \in BOOLEAN
    BY <1>1, <1>3 DEF AskInv
  <2> QED
    BY <1>1, <1>3, <1>14, <2>1, AskStays
<1>19. Passes(<<>>)
  <2>1. Sending' = Sending /\ Sending \in Seq(Int)
    BY <1>1, <1>14, Tails DEF Sending
  <2> HIDE DEF Sending
  <2>2. ASSUME NEW o \in Seq(Int)
        PROVE  /\ Shrinks(WayOf(o), Way(back, incoming, fifo, usb \o kept, last, o))
               /\ lost = <<>> => Way(back, incoming, fifo, usb \o kept, last, o) = WayOf(o)
    <3>1. /\ DeviceInv /\ kept \in Seq(Int) /\ lost \in Seq(Int) /\ last \in Seq(Int)
          /\ host = kept \o (lost \o last)
      BY <1>1, <1>6, <1>9, <1>12
    <3> HIDE DEF WayOf, Way, Shrinks
    <3> QED
      BY <3>1, EchoPasses, ZenonT(60)
  <2>3. Shrinks(WayOf(Sending), WayOf(Sending)')
    BY <1>3, <1>10, <1>14, <2>1, <2>2 DEF WayOf
  <2>4. lost = <<>> => WayOf(outgoing)' = WayOf(outgoing)
    BY <1>3, <1>5, <1>10, <1>14, <2>2 DEF WayOf
  <2>5. WayOf(Sending) \o <<>> = WayOf(Sending) /\ WayOf(outgoing) \o <<>> = WayOf(outgoing)
    BY <1>1, Tails
  <2> QED
    BY <1>3, <1>13, <2>3, <2>4, <2>5 DEF Passes
<1>20. Counted(<<>>)
  BY <1>1, <1>3, <1>14, <1>17, TransferCounts
<1> QED
  BY <1>3, <1>14, <1>15, <1>16, <1>17, <1>18, <1>19, <1>20 DEF Kept

\* Steps of the benchmark between its requests leave the driver and the Pico alone.
LEMMA QuietDevice ==
  ASSUME DeviceInv, Unchanged, UNCHANGED back
  PROVE  /\ DeviceInv' /\ Passes(<<>>) /\ Astray' = Astray
         /\ UNCHANGED <<setup, fifo, usb, host, outgoing, incoming, filled, extra, refill, broken, spanned>>
         /\ UNCHANGED <<dropped, losses>>
<1>1. /\ UNCHANGED <<state, knock, drive, sector, fifo, usb, host, setup>>
      /\ UNCHANGED <<outgoing, incoming, filled, extra, refill, broken, spanned, dropped, losses>>
  BY DEF Unchanged, picoVars, driverVars, lossVars
<1>2. Astray' = Astray
  BY <1>1 DEF Astray
<1>3. DeviceInv'
  BY <1>1, <1>2 DEF DeviceInv, Wired, Async, Basic
<1>4. WayOf(Sending)' = WayOf(Sending) /\ WayOf(outgoing)' = WayOf(outgoing)
  BY <1>1 DEF WayOf, Sending
<1>5. Passes(<<>>)
  BY <1>1, <1>2, <1>4, LineStays
<1> QED
  BY <1>1, <1>2, <1>3, <1>5

\* And they give the driver nothing.
LEMMA QuietKeeps ==
  ASSUME WayInv, Unchanged, UNCHANGED back, RequestInv', AskInv',
         pc # "failed", pc' # "failed", Accepted' = Accepted
  PROVE  Kept
<1>1. DeviceInv /\ RequestInv
  BY DEF WayInv
<1>2. DeviceInv' /\ Passes(<<>>)
  BY <1>1, QuietDevice
<1>3. Accepted \in Nat
  BY <1>1 DEF Accepted, RequestInv
<1>4. Accepted' <= Accepted
  BY <1>3
<1>5. Counted(<<>>)
  BY <1>1, <1>4, NoneCounted
<1> QED
  BY <1>2, <1>5 DEF Kept

\* The driver tells of the error.
LEMMA RequestFailsKeeps ==
  ASSUME WayInv, RequestFails
  PROVE  Kept /\ UNCHANGED <<outgoing, broken, dropped, losses>>
<1>1. DeviceInv /\ AskInv /\ RequestInv
  BY DEF WayInv
<1>2. /\ pc' = "failed" /\ Unchanged /\ UNCHANGED <<want, act, msg, back, sum, torn, missed, testVars>>
  BY DEF RequestFails, Unchanged, GoTo, callVars, askVars
<1>3. /\ DeviceInv' /\ Passes(<<>>) /\ Astray' = Astray
      /\ UNCHANGED <<setup, fifo, usb, host, outgoing, incoming, filled, extra, refill, broken, spanned>>
      /\ UNCHANGED <<dropped, losses>>
  BY <1>1, <1>2, QuietDevice
<1>4. {Len(fifo), Len(usb), Len(incoming)} \subseteq Nat
  BY <1>1, Lengths
<1>5. /\ {Len(fifo'), Len(usb'), Len(incoming')} \subseteq Nat /\ torn' \in BOOLEAN /\ missed' \in BOOLEAN
      /\ Len(incoming') + Len(fifo') + Len(usb') >= Len(incoming) + Len(fifo) + Len(usb)
  BY <1>1, <1>2, <1>3, <1>4 DEF AskInv
<1>6. RequestInv'
  BY <1>1, <1>2, <1>3, <1>5, RequestStays
<1>7. AskInv'
  BY <1>1, <1>2, <1>3, <1>5, AskStays
<1>8. Counted(<<>>)
  <2>1. UNCHANGED <<act, written>>
    BY <1>2 DEF testVars
  <2> QED
    BY <1>1, <1>2, <1>6, <2>1, TransferCounts
<1> QED
  BY <1>3, <1>6, <1>7, <1>8 DEF Kept

\* What doStatus has read is not touched by other steps of the benchmark.
LEMMA AskEnds ==
  ASSUME AskInv, sum' \in 0..PayloadSize, UNCHANGED torn, missed' \in BOOLEAN,
         pc' \notin {"actCount", "avail"}
  PROVE  AskInv'
BY DEF AskInv

\* A message is written.
LEMMA WriteKeeps ==
  ASSUME WayInv, WriteMessage
  PROVE  Kept
<1>1. DeviceInv /\ AskInv /\ RequestInv
  BY DEF WayInv
<1>2. /\ pc = "loop" /\ ~timeUp /\ timeUp' \in (IF writes + 1 = MaxWrites THEN {TRUE} ELSE BOOLEAN)
      /\ writes' = writes + 1 /\ msg' = [i \in 1..setup.size |-> written + i]
      /\ want' = setup.size /\ act' = 0 /\ pc' = "writing"
      /\ Unchanged /\ UNCHANGED <<back, written, got, sum, torn, missed>>
  BY DEF WriteMessage, GoTo, askVars
<1>3. UNCHANGED setup
  BY <1>2 DEF Unchanged
<1>4. setup.size \in Nat /\ setup.size <= BufferSize
  BY <1>1, Lengths
<1>5. written \in Nat /\ writes \in Nat /\ MaxWrites \in Nat /\ writes <= MaxWrites /\ writes # MaxWrites
  BY <1>1, <1>2, LoopbackAssumption DEF RequestInv
<1>6. /\ msg' \in Seq(Int) /\ Len(msg') = setup.size
      /\ \A i \in 1..setup.size : msg'[i] = written + i
  BY <1>2, <1>4, <1>5
<1>7. /\ writes' \in Nat /\ writes' <= MaxWrites /\ timeUp' \in BOOLEAN
      /\ writes' = MaxWrites => timeUp'
  <2>1. writes' \in Nat /\ writes' <= MaxWrites
    BY <1>2, <1>5
  <2>2. CASE writes + 1 = MaxWrites
    <3>1. timeUp' \in {TRUE}
      BY <1>2, <2>2, Zenon
    <3>2. timeUp' = TRUE
      BY <3>1, Zenon
    <3> QED
      BY <2>1, <3>2, Zenon
  <2>3. CASE writes + 1 # MaxWrites
    <3>1. timeUp' \in BOOLEAN
      BY <1>2, <2>3, Zenon
    <3>2. writes' # MaxWrites
      BY <1>2, <2>3, Zenon
    <3> QED
      BY <2>1, <3>1, <3>2, Zenon
  <2> QED
    BY <2>2, <2>3, Zenon
<1>8. RequestInv'
  BY <1>1, <1>2, <1>3, <1>4, <1>6, <1>7 DEF RequestInv
<1>9. AskInv'
  BY <1>1, <1>2, AskEnds DEF AskInv
<1>10. Accepted' = Accepted
  BY <1>2, <1>5 DEF Accepted
<1> QED
  BY <1>2, <1>8, <1>9, <1>10, QuietKeeps

\* Steps of the benchmark that only look at what it has counted.
LEMMA TurnKeeps ==
  ASSUME WayInv, WriteEnds \/ Ends
  PROVE  Kept
<1>1. DeviceInv /\ AskInv /\ RequestInv
  BY DEF WayInv
<1>2. /\ Unchanged /\ UNCHANGED <<want, act, msg, back, sum, torn, missed, got, writes, timeUp>>
  BY DEF WriteEnds, Ends, callVars, askVars, testVars
<1>3. UNCHANGED setup /\ missed' \in BOOLEAN
  BY <1>1, <1>2 DEF Unchanged, AskInv
<1>4. act \in Nat /\ want \in Nat /\ written \in Nat /\ got \in Nat /\ got <= written
  BY <1>1 DEF RequestInv
<1>5. CASE WriteEnds
  <2>1. pc = "writing" /\ act = want /\ written' = written + act /\ pc' = "check"
    BY <1>5 DEF WriteEnds, GoTo
  <2>2. written' \in Nat /\ got <= written'
    BY <1>4, <2>1
  <2>3. RequestInv'
    BY <1>1, <1>2, <1>3, <2>1, <2>2 DEF RequestInv
  <2>4. Accepted' = Accepted
    BY <2>1 DEF Accepted
  <2>5. AskInv'
    BY <1>1, <1>2, <1>3, <2>1, AskStays
  <2> QED
    BY <1>2, <2>1, <2>3, <2>4, <2>5, QuietKeeps
<1>6. CASE Ends
  <2>1. pc \in {"loop", "check"} /\ written' = written /\ pc' = "done"
    BY <1>6 DEF Ends, GoTo, testVars
  <2>2. RequestInv'
    BY <1>1, <1>2, <1>3, <2>1 DEF RequestInv
  <2>3. Accepted' = Accepted
    BY <2>1 DEF Accepted
  <2>4. AskInv'
    BY <1>1, <1>2, <1>3, <2>1, AskStays
  <2> QED
    BY <1>2, <2>1, <2>2, <2>3, <2>4, QuietKeeps
<1> QED
  BY <1>5, <1>6

\* The first and the second of doStatus's reads.
LEMMA AskKeeps ==
  ASSUME WayInv, AskAvail \/ AskActCount
  PROVE  Kept
<1>1. DeviceInv /\ AskInv /\ RequestInv
  BY DEF WayInv
<1>2. Unchanged /\ UNCHANGED <<want, act, msg, back, missed, written, got, writes, timeUp>>
  BY DEF AskAvail, AskActCount, callVars, testVars
<1>3. UNCHANGED <<setup, filled, incoming, fifo, usb, losses>>
  BY <1>2 DEF Unchanged, driverVars, picoVars, lossVars
<1>4. {Len(fifo), Len(usb), Len(incoming), PayloadSize} \subseteq Nat /\ filled \in 0..PayloadSize
  BY <1>1, Lengths DEF DeviceInv
<1>5. CASE AskAvail
  <2>1. /\ pc \in {"loop", "check"} /\ setup.serGet /\ sum' = filled /\ torn' = FALSE
        /\ pc' = IF Async THEN "actCount" ELSE "avail"
    BY <1>5 DEF AskAvail, GoTo
  <2>2. ~torn' /\ torn' \in BOOLEAN
    BY <2>1, Zenon
  <2>3. RequestInv'
    BY <1>1, <1>2, <1>3, <2>1 DEF RequestInv
  <2>4. AskInv'
    BY <1>1, <1>2, <1>3, <1>4, <2>1, <2>2 DEF AskInv, Async
  <2>5. Accepted' = Accepted /\ pc # "failed" /\ pc' # "failed"
    BY <1>2, <2>1 DEF Accepted
  <2> QED
    BY <1>2, <2>3, <2>4, <2>5, QuietKeeps
<1>6. CASE AskActCount
  <2>1. pc = "actCount" /\ sum' = sum - ActCount /\ pc' = "avail" /\ torn' = torn
    BY <1>6 DEF AskActCount, GoTo
  <2>2. Async /\ setup.serGet /\ (torn => Len(incoming) = filled) /\ (~torn => sum = filled)
        /\ sum \in 0..PayloadSize /\ torn \in BOOLEAN
    BY <1>1, <2>1 DEF AskInv
  <2>3. Len(incoming) <= filled
    BY <1>1, <2>2 DEF DeviceInv
  <2>4. sum' \in 0..PayloadSize /\ (~torn => sum' = Len(incoming))
    <3>1. CASE torn
      BY <1>4, <2>1, <2>2, <3>1 DEF ActCount
    <3>2. CASE ~torn
      BY <1>4, <2>1, <2>2, <2>3, <3>2 DEF ActCount
    <3> QED
      BY <3>1, <3>2
  <2>5. RequestInv'
    BY <1>1, <1>2, <1>3, <2>1 DEF RequestInv
  <2>6. AskInv'
    BY <1>1, <1>2, <1>3, <2>1, <2>2, <2>4 DEF AskInv, Async
  <2>7. Accepted' = Accepted /\ pc # "failed" /\ pc' # "failed"
    BY <1>2, <2>1 DEF Accepted
  <2> QED
    BY <1>2, <2>5, <2>6, <2>7, QuietKeeps
<1> QED
  BY <1>5, <1>6

\* A read begins, for what is there to be read.
LEMMA ReadStarts ==
  ASSUME RequestInv, NEW n \in Nat, StartRead(n)
  PROVE  /\ want' \in Nat /\ want' <= n /\ want' <= BufferSize /\ (n <= BufferSize => want' = n)
         /\ act' = 0 /\ msg' \in Seq(Int) /\ Len(msg') = want' /\ pc' = "reading" /\ UNCHANGED back
<1>1. /\ want' = Loop!Min2(n, BufferSize) /\ act' = 0 /\ pc' = "reading" /\ UNCHANGED back
      /\ msg' = [i \in 1..want' |-> IF i <= Len(msg) THEN msg[i] ELSE 0]
  BY DEF StartRead, GoTo
<1>2. want' \in Nat /\ want' <= n /\ want' <= BufferSize /\ (n <= BufferSize => want' = n)
  BY <1>1, LoopbackAssumption DEF Loop!Min2
<1>3. msg \in Seq(Int) /\ Len(msg) \in Nat
  BY DEF RequestInv
<1>4. msg' \in [1..want' -> Int]
  BY <1>1, <1>2, <1>3
<1>5. msg' \in Seq(Int) /\ Len(msg') = want'
  BY <1>2, <1>4
<1> QED
  BY <1>1, <1>2, <1>5

\* The request of a read, and that the driver is given nothing to send.
LEMMA ReadKeeps ==
  ASSUME WayInv, UNCHANGED <<setup, testVars>>,
         pc \in {"loop", "check", "avail"}, NEW n \in Nat, StartRead(n), torn' \in BOOLEAN,
         {Len(incoming'), Len(fifo'), Len(usb')} \subseteq Nat,
         setup.serGet /\ ~Astray' => n <= Len(incoming') + Len(fifo') + Len(usb') + Slack',
         ~setup.serGet => n <= written - got
  PROVE  RequestInv' /\ Accepted' = Accepted /\ pc' = "reading"
<1>1. RequestInv
  BY DEF WayInv
<1>2. /\ want' \in Nat /\ want' <= n /\ want' <= BufferSize
      /\ act' = 0 /\ msg' \in Seq(Int) /\ Len(msg') = want' /\ pc' = "reading" /\ back' = back
  BY <1>1, ReadStarts
<1>3. UNCHANGED <<written, got, writes, timeUp>>
  BY DEF testVars
<1>4. got \in Nat /\ written \in Nat /\ Len(back) = got /\ pc # "failed"
  BY <1>1 DEF RequestInv
<1>0. Slack' \in Nat
  BY LoopbackAssumption DEF Slack
<1>5. setup.serGet /\ ~Astray' => want' - act' <= Len(incoming') + Len(fifo') + Len(usb') + Slack'
  BY <1>0, <1>2
<1>6. ~setup.serGet => want' <= written - got
  BY <1>2, <1>4
<1>7. Len(back') = got + act' /\ act' <= want' /\ act' \in Nat
  BY <1>2, <1>4
<1>8. RequestInv'
  BY <1>1, <1>2, <1>3, <1>5, <1>6, <1>7 DEF RequestInv
<1>9. Accepted' = Accepted
  BY <1>2, <1>3 DEF Accepted
<1> QED
  BY <1>2, <1>8, <1>9

\* The benchmark asks for all it has written.
LEMMA BlockingKeeps ==
  ASSUME WayInv, BlockingRead
  PROVE  Kept
<1>1. DeviceInv /\ AskInv /\ RequestInv
  BY DEF WayInv
<1>2. /\ pc \in {"loop", "check"} /\ ~setup.serGet /\ StartRead(written - got)
      /\ Unchanged /\ UNCHANGED <<testVars, sum, torn, missed>>
  BY DEF BlockingRead, askVars
<1>3. UNCHANGED <<setup, back, incoming, fifo, usb>>
  BY <1>2 DEF StartRead, Unchanged, driverVars, picoVars
<1>4. {Len(incoming'), Len(fifo'), Len(usb')} \subseteq Nat
  BY <1>1, <1>3, Lengths
<1>5. written - got \in Nat /\ torn' \in BOOLEAN /\ missed' \in BOOLEAN
  BY <1>1, <1>2 DEF RequestInv, AskInv
<1>6. RequestInv' /\ Accepted' = Accepted /\ pc' = "reading"
  BY <1>2, <1>3, <1>4, <1>5, ReadKeeps
<1>7. AskInv'
  BY <1>1, <1>2, <1>3, <1>5, <1>6, AskStays
<1> QED
  BY <1>2, <1>3, <1>6, <1>7, QuietKeeps

\* SerGetBuf has answered with what is there, or with 0.
LEMMA AnswerKeeps ==
  ASSUME WayInv, UNCHANGED setup, NEW n \in Nat, ReadAvail(n), missed' \in BOOLEAN,
         {Len(incoming'), Len(fifo'), Len(usb')} \subseteq Nat,
         ~Astray' => n <= Len(incoming') + Len(fifo') + Len(usb') + Slack'
  PROVE  /\ RequestInv' /\ AskInv' /\ Accepted' = Accepted /\ pc # "failed" /\ pc' # "failed"
         /\ UNCHANGED <<back, written, got>>
<1>1. DeviceInv /\ AskInv /\ RequestInv
  BY DEF WayInv
<1>2. pc = "avail" /\ UNCHANGED testVars /\ setup.serGet /\ sum' = 0 /\ torn' = torn /\ torn \in BOOLEAN
  BY <1>1 DEF ReadAvail, AskInv
<1>3. CASE n = 0
  <2>1. pc' = "loop" /\ UNCHANGED <<want, act, msg, back, written, got, writes, timeUp>>
    BY <1>3 DEF ReadAvail, GoTo, callVars, testVars
  <2>2. RequestInv'
    BY <1>1, <1>2, <2>1 DEF RequestInv
  <2>3. Accepted' = Accepted
    BY <1>2, <2>1 DEF Accepted
  <2> QED
    BY <1>2, <2>1, <2>2, <2>3, <1>1, AskEnds, LoopbackAssumption
<1>4. CASE n # 0
  <2>1. StartRead(n)
    BY <1>4 DEF ReadAvail
  <2>2. RequestInv' /\ Accepted' = Accepted /\ pc' = "reading"
    BY <1>2, <2>1, ReadKeeps
  <2>3. UNCHANGED <<back, written, got>>
    BY <1>2, <2>1 DEF StartRead, testVars
  <2> QED
    BY <1>2, <2>2, <2>3, <1>1, AskEnds, LoopbackAssumption
<1> QED
  BY <1>3, <1>4

\* The asynchronous driver answers.
LEMMA AsyncGetBufKeeps ==
  ASSUME WayInv, AsyncGetBuf
  PROVE  Kept
<1>1. DeviceInv /\ AskInv /\ RequestInv
  BY DEF WayInv
<1>2. Async /\ pc = "avail" /\ ReadAvail(sum + extra) /\ Unchanged /\ UNCHANGED <<missed, torn>>
  BY DEF AsyncGetBuf, ReadAvail
<1>3. UNCHANGED <<setup, incoming, fifo, usb, losses>>
  BY <1>2 DEF Unchanged, driverVars, picoVars, lossVars
<1>4. /\ {Len(incoming), Len(fifo), Len(usb), PayloadSize, sum, extra} \subseteq Nat
      /\ sum <= PayloadSize /\ (~Astray => extra <= Len(fifo)) /\ torn \in BOOLEAN /\ missed \in BOOLEAN
      /\ ~torn => sum = Len(incoming)
  BY <1>1, <1>2, Lengths DEF DeviceInv, AskInv
<1>5. Slack' = Slack /\ Slack = IF torn THEN PayloadSize ELSE 0
  BY <1>2 DEF Slack
<1>6. ~Astray => sum + extra <= Len(incoming) + Len(fifo) + Len(usb) + Slack
  <2>1. CASE torn
    BY <1>4, <1>5, <2>1
  <2>2. CASE ~torn
    BY <1>4, <1>5, <2>2
  <2> QED
    BY <2>1, <2>2
<1>7. /\ sum + extra \in Nat /\ missed' \in BOOLEAN
      /\ {Len(incoming'), Len(fifo'), Len(usb')} \subseteq Nat
      /\ ~Astray' => sum + extra <= Len(incoming') + Len(fifo') + Len(usb') + Slack'
  <2>1. Astray' = Astray
    BY <1>3 DEF Astray
  <2> QED
    BY <1>2, <1>3, <1>4, <1>5, <1>6, <2>1
<1>8. /\ RequestInv' /\ AskInv' /\ Accepted' = Accepted /\ pc # "failed" /\ pc' # "failed"
      /\ UNCHANGED back
  BY <1>2, <1>3, <1>7, AnswerKeeps
<1> QED
  BY <1>2, <1>8, QuietKeeps

\* The Basic driver answers, from what it has or after a fetch.
LEMMA BasicGetBufKeeps ==
  ASSUME WayInv, BasicGetBuf
  PROVE  /\ Kept
         /\ incoming = <<>> => Popped(incoming', extra')
         /\ UNCHANGED <<outgoing, dropped, losses>>
<1>1. DeviceInv /\ AskInv /\ RequestInv
  BY DEF WayInv
<1>2. Basic /\ pc = "avail" /\ ReadAvail(Len(incoming') + extra') /\ UNCHANGED <<missed, torn, back>>
  BY DEF BasicGetBuf, ReadAvail, StartRead, callVars
<1>3. ~refill /\ refill \in BOOLEAN /\ missed' \in BOOLEAN
  BY <1>1, <1>2 DEF DeviceInv, AskInv, Basic, Async
<1>4. /\ DeviceInv' /\ Passes(<<>>) /\ UNCHANGED <<setup, outgoing, dropped, losses>> /\ Astray' = Astray
      /\ {Len(incoming'), Len(fifo'), Len(usb')} \subseteq Nat
      /\ incoming = <<>> => Popped(incoming', extra')
  <2>1. CASE incoming = <<>>
    <3>1. ReadBlock /\ UNCHANGED <<outgoing, filled, refill, broken, spanned, setup>>
      BY <2>1 DEF BasicGetBuf
    <3>2. ~refill' /\ refill' \in BOOLEAN
      BY <1>3, <3>1
    <3> QED
      BY <1>1, <1>2, <2>1, <3>1, <3>2, FetchKeeps
  <2>2. CASE incoming # <<>>
    <3>1. Unchanged
      BY <2>2 DEF BasicGetBuf
    <3>2. /\ DeviceInv' /\ Passes(<<>>) /\ UNCHANGED <<setup, outgoing, dropped, losses>> /\ Astray' = Astray
          /\ UNCHANGED <<incoming, fifo, usb>>
      BY <1>1, <1>2, <3>1, QuietDevice
    <3>3. {Len(incoming), Len(fifo), Len(usb)} \subseteq Nat
      BY <1>1, Lengths
    <3> QED
      BY <2>2, <3>2, <3>3
  <2> QED
    BY <2>1, <2>2
<1>5. /\ extra' \in Nat /\ (~Astray' => extra' <= Len(fifo')) /\ Slack' \in Nat
  BY <1>4, LoopbackAssumption DEF DeviceInv, Slack
<1>6. /\ Len(incoming') + extra' \in Nat
      /\ ~Astray' => Len(incoming') + extra' <= Len(incoming') + Len(fifo') + Len(usb') + Slack'
  BY <1>4, <1>5
<1>7. RequestInv' /\ AskInv' /\ Accepted' = Accepted /\ pc # "failed" /\ pc' # "failed"
  BY <1>3, <1>4, <1>6, <1>2, AnswerKeeps
<1>8. Accepted \in Nat
  BY <1>1 DEF Accepted, RequestInv
<1>9. Counted(<<>>)
  BY <1>1, <1>7, <1>8, NoneCounted
<1> QED
  BY <1>4, <1>7, <1>9 DEF Kept

\* The Basic driver answers from what it knew.
LEMMA GetBufFailsKeeps ==
  ASSUME WayInv, GetBufFails
  PROVE  /\ Kept /\ UNCHANGED <<host, dropped, outgoing, incoming>>
         /\ setup.pico = "loopback" => Len(fifo') <= Len(fifo)
<1>1. DeviceInv /\ AskInv /\ RequestInv
  BY DEF WayInv
<1>2. /\ Basic /\ pc = "avail" /\ incoming = <<>> /\ LosesReply /\ missed' = TRUE /\ ReadAvail(extra)
      /\ UNCHANGED <<outgoing, incoming, filled, extra, refill, broken, spanned, setup, back, torn>>
  BY DEF GetBufFails, ReadAvail, StartRead, callVars, driverVars
<1>3. missed' \in BOOLEAN /\ refill' \in BOOLEAN /\ broken' \in BOOLEAN
  <2>1. missed' \in BOOLEAN
    BY <1>2, Zenon
  <2> QED
    BY <1>1, <1>2, <2>1 DEF DeviceInv
<1>4. /\ DeviceInv' /\ Passes(<<>>) /\ UNCHANGED <<host, dropped>>
      /\ {Len(fifo'), Len(usb')} \subseteq Nat
      /\ setup.pico = "loopback" => Len(fifo') <= Len(fifo)
  <2>1. {refill', broken'} \subseteq BOOLEAN /\ (refill' => refill) /\ (outgoing = <<>> \/ broken' = broken)
    BY <1>2, <1>3
  <2> QED
    BY <1>1, <1>2, <2>1, GoneKeeps
<1>5. Len(incoming') \in Nat /\ Len(incoming') = 0
  BY <1>2
<1>6. extra \in Nat /\ (~Astray' => extra <= Len(fifo')) /\ Slack' \in Nat
  <2>1. extra' = extra
    BY <1>2
  <2> QED
    BY <1>4, <2>1, LoopbackAssumption DEF DeviceInv, Slack
<1>7. ~Astray' => extra <= Len(incoming') + Len(fifo') + Len(usb') + Slack'
  BY <1>4, <1>5, <1>6
<1>8. RequestInv' /\ AskInv' /\ Accepted' = Accepted /\ pc # "failed" /\ pc' # "failed"
  BY <1>2, <1>3, <1>4, <1>5, <1>6, <1>7, AnswerKeeps
<1>9. Accepted \in Nat
  BY <1>1 DEF Accepted, RequestInv
<1>10. Counted(<<>>)
  BY <1>1, <1>8, <1>9, NoneCounted
<1> QED
  BY <1>2, <1>4, <1>8, <1>10 DEF Kept

\* The benchmark compares what it has read.
LEMMA ReadEndKeeps ==
  ASSUME WayInv, ReadEnds
  PROVE  Kept
<1>1. DeviceInv /\ AskInv /\ RequestInv /\ CountInv
  BY DEF WayInv
<1>2. /\ pc = "reading" /\ act = want /\ Unchanged
      /\ UNCHANGED <<want, act, msg, back, sum, torn, missed, written, writes, timeUp>>
      /\ \/ got' = got + act /\ pc' = "loop"
         \/ got' = got /\ pc' = "mismatch"
  BY DEF ReadEnds, GoTo, callVars, askVars
<1>3. UNCHANGED setup /\ missed' \in BOOLEAN
  BY <1>1, <1>2 DEF Unchanged, AskInv
<1>4. act \in Nat /\ got \in Nat /\ written \in Nat /\ got <= written /\ Len(back) = got + act
  BY <1>1, <1>2 DEF RequestInv
<1>5. got + act <= written
  <2>1. OnWay + Len(Sending) <= written
    BY <1>1, <1>2 DEF CountInv, Accepted
  <2>2. OnWay \in Nat /\ Len(Sending) \in Nat /\ OnWay >= Len(back)
    <3>1. {Len(back), Len(incoming), Len(fifo), Len(usb), Len(host)} \subseteq Nat
      BY <1>1, Lengths
    <3>2. Len(Sending) \in Nat
      BY <1>1, Tails
    <3> QED
      BY <3>1, <3>2 DEF OnWay
  <2> HIDE DEF OnWay, Sending
  <2> QED
    BY <1>4, <2>1, <2>2
<1>6. got' \in Nat /\ got' <= written /\ (pc' = "loop" => Len(back) = got')
  BY <1>2, <1>4, <1>5
<1>7. RequestInv'
  <2>1. pc' = "mismatch" => Len(back') = got' + act'
    BY <1>2, <1>4
  <2>2. written' \in Nat /\ got' <= written'
    BY <1>2, <1>4, <1>6
  <2> QED
    BY <1>1, <1>2, <1>3, <1>6, <2>1, <2>2 DEF RequestInv
<1>8. Accepted' = Accepted /\ pc # "failed" /\ pc' # "failed"
  BY <1>2 DEF Accepted
<1>9. AskInv'
  BY <1>1, <1>2, <1>3, <1>8, AskStays
<1> QED
  BY <1>2, <1>7, <1>8, <1>9, QuietKeeps

-------------------------------------------------------------------------------
(* Every step *)

\* The driver's steps.
LEMMA DriverKeeps ==
  ASSUME WayInv, Driver
  PROVE  Kept
<1>1. CASE Take
  <2>1. act \in Nat
    BY DEF WayInv, RequestInv
  <2> QED
    BY <1>1, <2>1, MoveKeeps DEF Take
<1>2. CASE BasicMove
  <2>1. ~refill
    BY <1>2 DEF WayInv, DeviceInv, BasicMove, Basic, Async
  <2> QED
    BY <1>2, <2>1, MoveKeeps DEF BasicMove
<1>3. CASE Flush \/ Fill \/ Accept \/ RequestFails \/ BasicSend \/ BasicFetch
  BY <1>3, FlushKeeps, FillKeeps, AcceptKeeps, RequestFailsKeeps, BasicSendKeeps, BasicFetchKeeps
<1> QED
  BY <1>1, <1>2, <1>3 DEF Driver

\* Those of the benchmark.
LEMMA ProgramKeeps ==
  ASSUME WayInv, Program
  PROVE  Kept
BY WriteKeeps, TurnKeeps, BlockingKeeps, AskKeeps, AsyncGetBufKeeps, BasicGetBufKeeps, ReadEndKeeps
   DEF Program

\* And transfers that fail.
LEMMA FailureKeeps ==
  ASSUME WayInv, TransferFails
  PROVE  Kept
BY FlushFailsKeeps, FetchFailsKeeps, BasicSendFailsKeeps, GetBufFailsKeeps DEF TransferFails

\* Whatever happens, something passes along the line and is counted, or nothing.
LEMMA StepKeeps ==
  ASSUME WayInv, [Next]_vars
  PROVE  Kept
<1>1. CASE UNCHANGED vars
  <2>0. DeviceInv /\ AskInv /\ RequestInv
    BY DEF WayInv
  <2>1. /\ Unchanged
        /\ UNCHANGED <<want, act, msg, back, sum, torn, missed, pc, written, got, writes, timeUp>>
    BY <1>1 DEF vars, Unchanged, callVars, askVars, testVars
  <2>2. DeviceInv' /\ Passes(<<>>) /\ Astray' = Astray /\ UNCHANGED <<setup, fifo, usb, incoming, filled>>
    BY <2>0, <2>1, QuietDevice
  <2>3. RequestInv' /\ AskInv'
    BY <2>0, <2>1, <2>2 DEF RequestInv, AskInv, Slack, Async
  <2>4. Counted(<<>>)
    BY <2>0, <2>1, <2>3, TransferCounts
  <2> QED
    BY <2>2, <2>3, <2>4 DEF Kept
<1>2. CASE Next
  BY <1>2, DriverKeeps, ProgramKeeps, EchoKeeps, FailureKeeps DEF Next
<1> QED
  BY <1>1, <1>2

\* Every step keeps the device, the request and the counts.
LEMMA WayStep ==
  ASSUME WayInv, [Next]_vars
  PROVE  WayInv'
<1>1. Kept
  BY StepKeeps
<1>2. PICK x : Passes(x) /\ Counted(x)
  BY <1>1 DEF Kept
<1>3. DeviceInv' /\ AskInv' /\ RequestInv'
  BY <1>1 DEF Kept
<1>4. CountInv'
  BY <1>2, <1>3, CountsAgree DEF WayInv
<1> QED
  BY <1>3, <1>4 DEF WayInv

\* At the start there is nothing anywhere.
LEMMA WayBegins ==
  ASSUME Init
  PROVE  WayInv
<1>n. {PayloadSize, FifoSize, BufferSize, MaxWrites} \subseteq Nat \ {0} /\ PayloadSize <= FifoSize
  BY LoopbackAssumption
<1>f. /\ ~refill /\ refill \in BOOLEAN /\ ~broken /\ broken \in BOOLEAN /\ ~dropped /\ dropped \in BOOLEAN
      /\ spanned \in BOOLEAN /\ torn \in BOOLEAN /\ missed \in BOOLEAN /\ timeUp \in BOOLEAN
  BY Zenon DEF Init
<1>1. DeviceInv
  <2>1. Wired /\ {fifo, usb, host, outgoing, incoming, back} \subseteq Seq(Int)
    BY DEF Init, Wired
  <2>2. /\ setup.driver \in {"async", "basic"} /\ setup.serGet \in BOOLEAN /\ setup.size \in Sizes
        /\ losses \in Nat
    BY DEF Init
  <2>3. /\ fifo = <<>> /\ incoming = <<>> /\ outgoing = <<>> /\ usb = <<>> /\ host = <<>>
        /\ extra = 0 /\ filled = 0
    BY DEF Init
  <2>4. /\ Len(fifo) <= FifoSize /\ Len(incoming) <= PayloadSize /\ Len(outgoing) <= PayloadSize
        /\ extra \in 0..(FifoSize - PayloadSize) /\ extra <= Len(fifo)
        /\ Len(incoming) + extra <= FifoSize /\ filled \in 0..PayloadSize /\ Len(incoming) <= filled
    BY <1>n, <2>3
  <2> QED
    BY <1>f, <2>1, <2>2, <2>3, <2>4 DEF DeviceInv
<1>2. RequestInv
  <2>0. /\ act = 0 /\ want = 0 /\ msg = <<>> /\ got = 0 /\ written = 0 /\ writes = 0 /\ back = <<>>
        /\ pc = "loop"
    BY DEF Init
  <2>1. /\ {act, want, written, got, writes} \subseteq Nat /\ msg \in Seq(Int)
        /\ Len(msg) = want /\ Len(back) = got
    BY <2>0
  <2>2. act <= want /\ want <= BufferSize /\ got <= written /\ writes <= MaxWrites /\ writes # MaxWrites
    BY <1>n, <2>0
  <2> QED
    BY <1>f, <2>0, <2>1, <2>2 DEF RequestInv
<1>3. AskInv
  <2>1. pc = "loop" /\ sum \in 0..PayloadSize
    BY <1>n DEF Init
  <2> QED
    BY <1>f, <2>1 DEF AskInv
<1>4. CountInv
  <2>1. OnWay = 0 /\ Accepted = 0 /\ outgoing = <<>> /\ Sending = <<>>
    BY DEF Init, OnWay, Accepted, Sending
  <2>2. OnWay + Len(Sending) <= Accepted /\ OnWay + Len(outgoing) >= Accepted
    BY <2>1
  <2> QED
    BY <2>2 DEF CountInv
<1> QED
  BY <1>1, <1>2, <1>3, <1>4 DEF WayInv

\* What the driver and the Pico hold, what doStatus has added up, and what the
\* benchmark has counted agree; unless bytes went astray, what the driver believes to
\* be left in the Pico is there.
THEOREM WayInvariant == Spec => []WayInv
<1>1. Init => WayInv
  BY WayBegins
<1>2. WayInv /\ [Next]_vars => WayInv'
  BY WayStep
<1> QED
  BY <1>1, <1>2, PTL DEF Spec

\* Every buffer stays within its array and every count within its bounds.
THEOREM WayTypes == Spec => []TypeOK
<1>1. WayInv => TypeOK
  <2> SUFFICES ASSUME WayInv PROVE TypeOK
    OBVIOUS
  <2>1. DeviceInv /\ RequestInv /\ AskInv
    BY DEF WayInv
  <2>2. /\ Len(fifo) <= FifoSize /\ Len(outgoing) <= PayloadSize /\ Len(incoming) <= PayloadSize
        /\ extra \in 0..(FifoSize - PayloadSize) /\ filled \in 0..PayloadSize /\ sum \in 0..PayloadSize
    BY <2>1 DEF DeviceInv, AskInv
  <2>3. act \in 0..want /\ got \in 0..written
    BY <2>1 DEF RequestInv
  <2> QED
    BY <2>1, <2>2, <2>3 DEF TypeOK, RequestInv
<1> QED
  BY <1>1, WayInvariant, PTL

\* What SerGetBuf answers is there to be read, though the driver counts bytes it has
\* not fetched: unless bytes went astray, a read of that many does not wait for the
\* network, or, when a fetch came between doStatus's reads, for no more than a buffer.
THEOREM AnswerIsThere == Spec => []SerGetBufIsTrue
<1>1. WayInv => SerGetBufIsTrue
  BY DEF WayInv, RequestInv, SerGetBufIsTrue, Slack
<1> QED
  BY <1>1, WayInvariant, PTL

-------------------------------------------------------------------------------
(* No byte is lost, repeated or overtaken *)

\* The line is empty at the start.
LEMMA LineBegins ==
  ASSUME Init
  PROVE  OrderInv /\ LineInv
<1>1. /\ back = <<>> /\ incoming = <<>> /\ fifo = <<>> /\ usb = <<>> /\ host = <<>>
      /\ outgoing = <<>> /\ Sending = <<>>
  BY DEF Init, Sending
<1>2. <<>> \o <<>> = <<>>
  OBVIOUS
<1>3. WayOf(outgoing) = <<>> /\ WayOf(Sending) = <<>>
  BY <1>1, <1>2, Zenon DEF WayOf, Way
<1>4. <<>> = [i \in 1..Len(<<>>) |-> i] /\ Rises(<<>>) /\ UpTo(<<>>, Accepted)
  BY DEF Rises, UpTo
<1> QED
  BY <1>3, <1>4 DEF OrderInv, LineInv

\* Bytes that join the line rise with it.
LEMMA OrderStep ==
  ASSUME WayInv, OrderInv, [Next]_vars
  PROVE  OrderInv'
<1>1. PICK x : Passes(x) /\ Counted(x)
  BY StepKeeps DEF Kept
<1>2. DeviceInv /\ RequestInv /\ RequestInv'
  BY StepKeeps DEF Kept, WayInv
<1> DEFINE s == WayOf(Sending)
<1>3. s \in Seq(Int) /\ s \o <<>> = s
  BY <1>2, Tails
<1>4. Accepted \in Nat /\ x \in Seq(Int) /\ Len(x) \in Nat
  <2>1. x \in Seq(Int)
    BY <1>1 DEF Counted
  <2>2. Accepted \in Nat
    BY <1>2 DEF Accepted, RequestInv
  <2>3. Len(x) \in Nat
    BY <2>1
  <2> QED
    BY <2>1, <2>2, <2>3
<1>5. Shrinks(s \o x, s')
  BY <1>1 DEF Passes
<1>6. /\ Rises(s) /\ (pc # "failed" => UpTo(s, Accepted))
      /\ \A i \in 1..Len(x) : x[i] = Accepted + i
      /\ x # <<>> => pc # "failed"
      /\ pc' # "failed" => pc # "failed" /\ Accepted' = Accepted + Len(x)
  BY <1>1 DEF Counted, OrderInv
<1> DEFINE m == Accepted + Len(x)
<1>7. m \in Int
  BY <1>4
<1>8. Accepted \in Int
  BY <1>4
<1> HIDE DEF s, m
<1>9. CASE pc = "failed"
  <2>1. x = <<>> /\ pc' = "failed"
    BY <1>6, <1>9
  <2>2. Shrinks(s, s')
    BY <1>3, <1>5, <2>1
  <2>3. Rises(s')
    BY <1>6, <1>7, <2>2, Shrunk
  <2> QED
    BY <2>1, <2>3 DEF OrderInv, s
<1>10. CASE pc # "failed"
  <2>1. UpTo(s, Accepted)
    BY <1>6, <1>10
  <2>2. Rises(s \o x) /\ UpTo(s \o x, Accepted + Len(x))
    BY <1>3, <1>4, <1>6, <1>8, <2>1, PartJoined
  <2>3. Rises(s \o x) /\ UpTo(s \o x, m)
    BY <2>2 DEF m
  <2>4. Rises(s') /\ UpTo(s', m)
    BY <1>5, <1>7, <2>3, Shrunk
  <2>5. pc' # "failed" => Accepted' = m
    BY <1>6 DEF m
  <2> QED
    BY <2>4, <2>5 DEF OrderInv, s
<1> QED
  BY <1>9, <1>10

\* Unless some were lost they have the next numbers.
LEMMA LineStep ==
  ASSUME WayInv, LineInv, [Next]_vars
  PROVE  LineInv'
<1>1. PICK x : Passes(x) /\ Counted(x)
  BY StepKeeps DEF Kept
<1>2. DeviceInv /\ RequestInv /\ CountInv
  BY DEF WayInv
<1> SUFFICES ASSUME ~dropped', ~Astray' PROVE WayOf(outgoing)' = [i \in 1..Len(WayOf(outgoing)') |-> i]
  BY DEF LineInv
<1> DEFINE t == WayOf(outgoing)
<1>3. ~dropped /\ ~Astray /\ t' = t \o x
  BY <1>1 DEF Passes
<1>4. /\ t \in Seq(Int) /\ t \o <<>> = t /\ Len(t) = OnWay + Len(outgoing) /\ Len(t) \in Nat
  BY <1>2, Tails
<1>5. t = [i \in 1..Len(t) |-> i]
  BY <1>3 DEF LineInv
<1>6. x \in Seq(Int) /\ Accepted \in Nat /\ (x # <<>> => pc # "failed" /\ Sending = outgoing)
  BY <1>1, <1>2 DEF Counted, Accepted, RequestInv
<1>7. x # <<>> => Len(t) = Accepted
  <2> HAVE x # <<>>
  <2>1. OnWay + Len(outgoing) <= Accepted /\ OnWay + Len(outgoing) >= Accepted
    BY <1>2, <1>3, <1>6 DEF CountInv
  <2> HIDE DEF t
  <2>2. Len(t) <= Accepted /\ Len(t) >= Accepted
    BY <1>4, <2>1
  <2> QED
    BY <1>4, <1>6, <2>2
<1>8. \A i \in 1..Len(x) : x[i] = Accepted + i
  BY <1>1 DEF Counted
<1> HIDE DEF t
<1>9. CASE x = <<>>
  <2>1. t' = t
    BY <1>3, <1>4, <1>9
  <2> QED
    BY <1>5, <2>1 DEF t
<1>10. CASE x # <<>>
  <2>1. \A i \in 1..Len(x) : x[i] = Len(t) + i
    BY <1>7, <1>8, <1>10
  <2>2. t \o x = [i \in 1..Len(t \o x) |-> i]
    BY <1>4, <1>5, <1>6, <2>1, CountsOn
  <2>3. t' = [i \in 1..Len(t') |-> i]
    BY <1>3, <2>2
  <2> QED
    BY <2>3 DEF t
<1> QED
  BY <1>9, <1>10

\* The bytes on their way stand in the line as they were written, with none missing
\* unless one was lost.
THEOREM LineInvariant == Spec => [](OrderInv /\ LineInv)
<1>1. Init => OrderInv /\ LineInv
  BY LineBegins
<1>2. WayInv /\ OrderInv /\ LineInv /\ [Next]_vars => OrderInv' /\ LineInv'
  BY OrderStep, LineStep
<1> QED
  BY <1>1, <1>2, WayInvariant, PTL DEF Spec

\* No byte is on its way twice, and none overtakes another, whatever fails,
\* overflows, or is written short.
THEOREM NoByteOvertakes == Spec => []OnceAndInOrder
<1>1. WayInv /\ OrderInv => OnceAndInOrder
  <2> SUFFICES ASSUME WayInv, OrderInv PROVE OnceAndInOrder
    OBVIOUS
  <2>1. DeviceInv
    BY DEF WayInv
  <2>2. Sending \in Seq(Int)
    BY <2>1, Tails
  <2>3. Queues({back, incoming, fifo, usb, host, Sending})
    BY <2>1, <2>2 DEF DeviceInv, Queues
  <2>4. back \o incoming \o fifo \o usb \o host \o Sending = WayOf(Sending)
    BY <2>3, Lined DEF WayOf
  <2>5. Line = back \o incoming \o fifo \o usb \o host \o Sending
    BY DEF Line, Sending
  <2>6. Rises(Line)
    BY <2>4, <2>5 DEF OrderInv
  <2> QED
    BY <2>6 DEF Rises, OnceAndInOrder
<1> QED
  BY <1>1, WayInvariant, LineInvariant, PTL

\* Every byte the driver has taken is somewhere between the two ends, once, and in
\* order: in the program's hands again, in either buffer of the driver, in the FIFO,
\* or with the USB host, unless the FIFO has overflowed or bytes went astray.
THEOREM NoByteIsLost == Spec => []NothingLost
<1>1. WayInv /\ LineInv => NothingLost
  <2> SUFFICES ASSUME WayInv, LineInv, ~dropped, ~Astray
               PROVE  LET whole == back \o incoming \o fifo \o usb \o host \o outgoing
                      IN Len(whole) >= written /\ whole = [i \in 1..Len(whole) |-> i]
    BY DEF NothingLost
  <2>1. DeviceInv /\ RequestInv /\ CountInv
    BY DEF WayInv
  <2>2. Queues({back, incoming, fifo, usb, host, outgoing})
    BY <2>1 DEF DeviceInv, Queues
  <2>3. back \o incoming \o fifo \o usb \o host \o outgoing = WayOf(outgoing)
    <3>1. back \o incoming \o fifo \o usb \o host \o outgoing = Way(back, incoming, fifo, usb, host, outgoing)
      BY <2>2, Lined, SMTT(60)
    <3> QED
      BY <3>1 DEF WayOf
  <2>4. WayOf(outgoing) = [i \in 1..Len(WayOf(outgoing)) |-> i]
    BY DEF LineInv
  <2>5. Len(WayOf(outgoing)) >= written
    <3>1. Len(WayOf(outgoing)) = OnWay + Len(outgoing) /\ OnWay \in Nat /\ Len(outgoing) \in Nat
      BY <2>1, Tails
    <3>2. OnWay + Len(outgoing) >= Accepted
      BY <2>1 DEF CountInv
    <3>3. Accepted >= written /\ Accepted \in Nat /\ written \in Nat
      BY <2>1 DEF Accepted, RequestInv
    <3> HIDE DEF OnWay, Accepted
    <3>4. OnWay + Len(outgoing) >= written
      BY <3>1, <3>2, <3>3
    <3> QED
      BY <3>1, <3>4
  <2> QED
    BY <2>3, <2>4, <2>5
<1> QED
  BY <1>1, WayInvariant, LineInvariant, PTL

-------------------------------------------------------------------------------
(* What a failed comparison means *)

\* The program's buffer holds, as far as it has been filled, the bytes that follow
\* those the benchmark has checked.
Unharmed == ~dropped /\ ~Astray /\ ~(Basic /\ spanned)
ReadInv == pc = "reading" /\ Unharmed => \A j \in 1..act : msg[j] = got + j

\* The next byte the driver has for the program is the next in the line.
LEMMA NextIsNext ==
  ASSUME WayInv, LineInv, pc = "reading", ~dropped, ~Astray
  PROVE  \A i \in 1..Len(incoming) : incoming[i] = got + act + i
<1>1. DeviceInv /\ RequestInv
  BY DEF WayInv
<1> DEFINE atHost == host \o outgoing
           fromUsb == usb \o atHost
           rest == fifo \o fromUsb
<1>2. atHost \in Seq(Int)
  BY <1>1, ConcatProperties DEF DeviceInv
<1> HIDE DEF atHost
<1>3. fromUsb \in Seq(Int)
  BY <1>1, <1>2, ConcatProperties DEF DeviceInv
<1> HIDE DEF fromUsb
<1>4. rest \in Seq(Int) /\ back \in Seq(Int) /\ incoming \in Seq(Int)
  BY <1>1, <1>3, ConcatProperties DEF DeviceInv
<1> DEFINE line == WayOf(outgoing)
<1>5. line = back \o (incoming \o rest)
  BY DEF WayOf, Way, rest, fromUsb, atHost
<1>6. line = [i \in 1..Len(line) |-> i]
  BY DEF LineInv
<1> HIDE DEF rest, line
<1>7. \A i \in 1..Len(incoming) : incoming[i] = Len(back) + i
  BY <1>4, <1>5, <1>6, NumberIsPlace
<1>8. Len(back) = got + act
  BY <1>1 DEF RequestInv
<1> QED
  BY <1>7, <1>8

\* Bytes that are moved behind those that were moved before are the right ones.
LEMMA MoveFills ==
  ASSUME WayInv, LineInv, ReadInv, pc = "reading", ~refill, Unharmed,
         Move(Loop!Min2(want - act, Len(incoming)), act)
  PROVE  \A j \in 1..act' : msg'[j] = got + j
<1>1. PICK n \in Nat :
        /\ n > 0 /\ n <= Len(incoming) /\ act + n <= want /\ act' = act + n
        /\ msg' = [i \in 1..Len(msg) |-> IF i - act \in 1..n THEN incoming[i - act] ELSE msg[i]]
  <2>1. act \in Nat
    BY DEF WayInv, RequestInv
  <2> QED
    BY <2>1, MoveKeeps
<1>2. act \in Nat /\ want \in Nat /\ got \in Nat /\ Len(msg) = want /\ Len(incoming) \in Nat
  BY Lengths DEF WayInv, RequestInv
<1>3. \A i \in 1..Len(incoming) : incoming[i] = got + act + i
  BY NextIsNext DEF Unharmed
<1>4. \A j \in 1..act : msg[j] = got + j
  BY DEF ReadInv
<1> TAKE j \in 1..act'
<1>5. j \in 1..Len(msg)
  BY <1>1, <1>2
<1>6. CASE j <= act
  <2>1. j \in 1..act /\ ~(j - act \in 1..n)
    BY <1>2, <1>6
  <2> QED
    BY <1>1, <1>4, <1>5, <2>1
<1>7. CASE ~(j <= act)
  <2>1. j - act \in 1..n /\ j - act \in 1..Len(incoming)
    BY <1>1, <1>2, <1>7
  <2>2. msg'[j] = incoming[j - act]
    BY <1>1, <1>5, <2>1
  <2>3. incoming[j - act] = got + act + (j - act)
    BY <1>3, <2>1
  <2> QED
    BY <1>2, <2>2, <2>3
<1> QED
  BY <1>6, <1>7

\* Every step keeps what has been read right, or has an excuse.
LEMMA ReadStep ==
  ASSUME WayInv, LineInv, ReadInv, MismatchExplained, [Next]_vars
  PROVE  ReadInv' /\ MismatchExplained'
<1>0. ~dropped' /\ ~Astray' => ~dropped /\ ~Astray
  BY StepKeeps DEF Kept, Passes
<1>1. CASE Take \/ BasicMove
  <2>1. /\ pc = "reading" /\ UNCHANGED <<pc, got, setup, dropped, losses>>
        /\ spanned' = (spanned \/ act > 0) /\ ~refill
        /\ \/ Async /\ Move(Loop!Min2(want - act, Len(incoming)), act)
           \/ Basic /\ Move(Loop!Min2(want - act, Len(incoming)), 0)
    <3>1. Basic => ~refill
      BY DEF WayInv, DeviceInv, Basic, Async
    <3>2. /\ pc = "reading" /\ ~refill
          /\ \/ Async /\ Move(Loop!Min2(want - act, Len(incoming)), act)
             \/ Basic /\ Move(Loop!Min2(want - act, Len(incoming)), 0)
      BY <1>1, <3>1 DEF Take, BasicMove
    <3>3. UNCHANGED <<pc, got, setup, dropped, losses>> /\ spanned' = (spanned \/ act > 0)
      BY <3>2, Zenon DEF Move, testVars, lossVars
    <3> QED
      BY <3>2, <3>3
  <2>2. MismatchExplained'
    BY <2>1 DEF MismatchExplained
  <2> SUFFICES ASSUME Unharmed'
               PROVE  \A j \in 1..act' : msg'[j] = got' + j
    BY <2>2 DEF ReadInv
  <2>3. Unharmed
    BY <2>1 DEF Unharmed, Astray, Basic
  <2>4. Move(Loop!Min2(want - act, Len(incoming)), act)
    <3>1. CASE Basic
      <4>1. ~(act > 0) /\ act \in Nat /\ ~Async
        BY <2>1, <3>1 DEF Unharmed, Basic, Async, WayInv, RequestInv
      <4>2. act = 0
        BY <4>1
      <4> QED
        BY <2>1, <4>1, <4>2
    <3> QED
      BY <2>1, <3>1
  <2> QED
    BY <2>1, <2>3, <2>4, MoveFills
<1>2. CASE ReadEnds
  <2>1. /\ pc = "reading" /\ pc' # "reading" /\ UNCHANGED <<setup, dropped, losses, spanned>>
        /\ pc' = "mismatch" => \E j \in 1..act : msg[j] # got + j
    BY <1>2 DEF ReadEnds, GoTo, Unchanged, driverVars, lossVars
  <2>2. Unharmed' = Unharmed
    BY <2>1 DEF Unharmed, Astray, Basic
  <2> QED
    BY <2>1, <2>2 DEF ReadInv, MismatchExplained, Unharmed
<1>3. CASE WriteMessage \/ WriteEnds \/ AskAvail \/ AskActCount \/ Ends \/ RequestFails
             \/ BasicSendFails \/ BasicFetchFails \/ Accept \/ BasicSend
  <2>1. pc' \notin {"reading", "mismatch"}
    BY <1>3 DEF WriteMessage, WriteEnds, AskAvail, AskActCount, Ends, RequestFails, BasicSendFails,
       BasicFetchFails, Accept, BasicSend, GoTo
  <2> QED
    BY <2>1 DEF ReadInv, MismatchExplained
<1>4. CASE BlockingRead \/ AsyncGetBuf \/ BasicGetBuf \/ GetBufFails
  <2>1. \/ pc' = "loop"
        \/ pc' = "reading" /\ act' = 0
    BY <1>4 DEF BlockingRead, AsyncGetBuf, BasicGetBuf, GetBufFails, ReadAvail, StartRead, GoTo
  <2>2. pc' = "reading" => 1..act' = {}
    BY <2>1
  <2> QED
    BY <2>1, <2>2 DEF ReadInv, MismatchExplained
<1>5. CASE UNCHANGED <<pc, setup, spanned, act, msg, got>>
  BY <1>0, <1>5 DEF ReadInv, MismatchExplained, Unharmed, Basic
<1>6. CASE Flush \/ Fill \/ BasicFetch \/ HostEchoes \/ FlushFails \/ FillFails \/ UNCHANGED vars
  <2>3. UNCHANGED <<pc, setup, spanned, act, msg, got>>
    BY <1>6 DEF Flush, Fill, FillWith, BasicFetch, HostEchoes, FlushFails, FillFails, NoRequest, vars,
       callVars, testVars, driverVars
  <2> QED
    BY <1>5, <2>3, Zenon
<1> QED
  BY <1>1, <1>2, <1>3, <1>4, <1>6 DEF Next, Driver, Program, TransferFails

\* "Data verification error": the comparison finds a difference only after the FIFO
\* has overflowed or bytes went astray, or when the Basic driver served one request
\* from two blocks.
THEOREM MismatchIsExplained == Spec => []MismatchExplained
<1>1. Init => ReadInv /\ MismatchExplained
  BY DEF Init, ReadInv, MismatchExplained
<1>2. WayInv /\ LineInv /\ ReadInv /\ MismatchExplained /\ [Next]_vars => ReadInv' /\ MismatchExplained'
  BY ReadStep
<1>3. OrderInv /\ LineInv => LineInv
  OBVIOUS
<1> QED
  BY <1>1, <1>2, <1>3, WayInvariant, LineInvariant, PTL DEF Spec

-------------------------------------------------------------------------------
(* When the FIFO overflows *)

\* Whose transfers have failed, and what follows where the Pico loops the bytes back.
FailInv ==
  /\ Basic => ~broken
  /\ missed => Basic
  /\ Astray /\ setup.pico = "loopback" => broken \/ missed \/ pc = "failed"
  /\ pc = "failed" /\ Async => broken

\* With blocking reads the benchmark waits for each message before it writes the next.
BlockingInv ==
  ~setup.serGet =>
    /\ pc \in {"loop", "writing", "done"} => written = got
    /\ pc = "check" => written - got = setup.size
    /\ pc = "reading" => written - got = setup.size /\ want = setup.size

\* The bytes the driver would tell of, and those it does not know of.
Known == Len(incoming) + extra
Unknown == Len(fifo) + Len(outgoing) - extra
\* How many of the latter there may be while it has some to tell of.
Due == CASE pc = "loop" -> 0 [] pc = "writing" -> act [] OTHER -> setup.size

\* With SerGetBuf and the asynchronous driver: a read leaves at most a message behind,
\* or nothing the driver does not know of; and when the driver has nothing to tell of,
\* the FIFO has no more than a message, or what a write has just added to it.
ReadRoom ==
  /\ \/ Known + Unknown <= setup.size + (want - act) /\ (Known > want - act => Unknown = 0)
     \/ Unknown = 0 /\ extra <= setup.size
  /\ Len(fifo) + Len(outgoing) <= 2 * setup.size
IdleRoom ==
  /\ extra <= setup.size
  /\ incoming = <<>> => Len(fifo) <= setup.size + (IF refill THEN PayloadSize ELSE 0)
  /\ Known > 0 => Unknown <= Due
  /\ pc \in {"actCount", "avail"} /\ torn => Unknown = 0
Polled == setup.serGet /\ setup.pico = "loopback"
AsyncPolled == Polled /\ Async /\ ~broken
AsyncRoom ==
  AsyncPolled =>
    /\ pc = "reading" => ReadRoom
    /\ pc \notin {"reading", "mismatch", "failed"} => IdleRoom

\* And with the Basic driver, which fetches only when it is asked.
BasicPolled == Polled /\ Basic /\ ~missed
BasicRoom ==
  BasicPolled =>
    /\ pc = "reading" => /\ Len(incoming) + Len(fifo) <= setup.size + (want - act)
                         /\ want - act = Known \/ Len(fifo) = extra
    /\ pc \notin {"reading", "mismatch", "failed"} =>
         /\ Len(incoming) + Len(fifo) <= setup.size + Due
         /\ incoming # <<>> => Len(fifo) <= extra + Due

\* Every step that fails has a name.
LEMMA FailStep ==
  ASSUME WayInv, FailInv, [Next]_vars
  PROVE  FailInv'
<1>1. DeviceInv /\ RequestInv /\ AskInv
  BY DEF WayInv
<1>2. setup.driver \in {"async", "basic"} /\ broken \in BOOLEAN /\ missed \in BOOLEAN
  BY <1>1 DEF DeviceInv, AskInv
<1>3. CASE UNCHANGED <<setup, broken, missed, losses, pc>>
  BY <1>3 DEF FailInv, Basic, Async, Astray
<1>4. CASE UNCHANGED <<setup, broken, missed, losses>> /\ pc # "failed" /\ pc' # "failed"
  BY <1>4 DEF FailInv, Basic, Async, Astray
<1>5. CASE Flush \/ Fill \/ Accept \/ Take \/ BasicSend \/ BasicFetch \/ BasicMove \/ UNCHANGED vars
  <2>1. UNCHANGED <<setup, broken, missed, losses, pc>>
    BY <1>5 DEF Flush, Fill, FillWith, Accept, Take, BasicSend, BasicFetch, BasicMove, Move, ReadBlock,
       NoRequest, vars, driverVars, askVars, lossVars
  <2> QED
    BY <1>3, <2>1
<1>6. CASE RequestFails
  <2>1. Async /\ broken /\ UNCHANGED <<setup, broken, missed, losses>>
    BY <1>6 DEF RequestFails, driverVars, askVars, lossVars
  <2> QED
    BY <2>1 DEF FailInv, Basic, Async, Astray
<1>7. CASE WriteMessage \/ WriteEnds \/ BlockingRead \/ AskAvail \/ AskActCount \/ AsyncGetBuf \/ BasicGetBuf
             \/ ReadEnds \/ Ends
  <2>1. UNCHANGED <<setup, broken, missed, losses>>
    BY <1>7 DEF WriteMessage, WriteEnds, BlockingRead, AskAvail, AskActCount, AsyncGetBuf, BasicGetBuf,
       ReadEnds, Ends, Unchanged, ReadBlock, driverVars, askVars, lossVars
  <2>2. pc # "failed" /\ pc' # "failed"
    BY <1>7 DEF WriteMessage, WriteEnds, BlockingRead, AskAvail, AskActCount, AsyncGetBuf, BasicGetBuf,
       ReadEnds, Ends, ReadAvail, StartRead, GoTo
  <2> QED
    BY <1>4, <2>1, <2>2
<1>8. CASE HostEchoes
  <2>1. setup.pico # "loopback"
    BY <1>8, EchoKeeps
  <2>2. UNCHANGED <<setup, broken, missed, pc>>
    BY <1>8 DEF HostEchoes, driverVars, askVars
  <2> QED
    BY <2>1, <2>2 DEF FailInv, Basic, Async
<1>9. CASE FlushFails \/ FillFails
  <2>1. broken' = TRUE /\ Async /\ UNCHANGED <<setup, missed>>
    BY <1>9 DEF FlushFails, FillFails, MayFlush, MayFill, NoRequest, askVars
  <2>2. broken'
    BY <2>1, Zenon
  <2>3. ~Basic /\ ~missed
    BY <2>1 DEF FailInv, Basic, Async
  <2> QED
    BY <2>1, <2>2, <2>3 DEF FailInv, Basic, Async
<1>10. CASE BasicSendFails \/ BasicFetchFails
  <2>1. Basic /\ pc' = "failed" /\ UNCHANGED <<setup, broken, missed>>
    BY <1>10 DEF BasicSendFails, BasicFetchFails, GoTo, driverVars, askVars
  <2> QED
    BY <2>1 DEF FailInv, Basic, Async
<1>11. CASE GetBufFails
  <2>1. Basic /\ missed' = TRUE /\ UNCHANGED <<setup, broken>>
    BY <1>11 DEF GetBufFails, driverVars
  <2>2. missed'
    BY <2>1, Zenon
  <2> QED
    BY <2>1, <2>2 DEF FailInv, Basic, Async
<1> QED
  BY <1>5, <1>6, <1>7, <1>8, <1>9, <1>10, <1>11 DEF Next, Driver, Program, TransferFails

\* Every step keeps the benchmark waiting.
LEMMA BlockingStep ==
  ASSUME WayInv, BlockingInv, [Next]_vars
  PROVE  BlockingInv'
<1>1. RequestInv /\ DeviceInv /\ AskInv
  BY DEF WayInv
<1>2. /\ written \in Nat /\ got \in Nat /\ act \in Nat /\ want \in Nat /\ setup.size \in Nat
      /\ setup.size <= BufferSize
  BY <1>1, Lengths DEF RequestInv
<1>3. CASE \/ Flush \/ Fill \/ Accept \/ Take \/ BasicSend \/ BasicFetch \/ BasicMove
           \/ HostEchoes \/ FlushFails \/ FillFails \/ UNCHANGED vars
  <2>1. UNCHANGED <<setup, pc, want, written, got>>
    BY <1>3 DEF Flush, Fill, FillWith, Accept, Take, BasicSend, BasicFetch, BasicMove, Move, HostEchoes,
       FlushFails, FillFails, NoRequest, vars, callVars, testVars
  <2> QED
    BY <2>1 DEF BlockingInv
<1>7. CASE RequestFails \/ BasicSendFails \/ BasicFetchFails
  <2>1. pc' = "failed"
    BY <1>7 DEF RequestFails, BasicSendFails, BasicFetchFails, GoTo
  <2> QED
    BY <2>1 DEF BlockingInv
<1>4. CASE WriteMessage \/ WriteEnds \/ ReadEnds \/ Ends
  <2>1. UNCHANGED setup
    BY <1>4 DEF WriteMessage, WriteEnds, ReadEnds, Ends, Unchanged
  <2>2. CASE WriteMessage
    BY <2>1, <2>2 DEF WriteMessage, GoTo, BlockingInv
  <2>3. CASE WriteEnds
    <3>1. /\ pc = "writing" /\ act = want /\ pc' = "check" /\ written' = written + act /\ got' = got
          /\ want = setup.size
      BY <1>1, <2>3 DEF WriteEnds, GoTo, RequestInv
    <3> QED
      BY <1>2, <2>1, <3>1 DEF BlockingInv
  <2>4. CASE ReadEnds
    <3>1. /\ pc = "reading" /\ act = want /\ written' = written
          /\ pc' = "mismatch" \/ (pc' = "loop" /\ got' = got + act)
      BY <2>4 DEF ReadEnds, GoTo
    <3> QED
      BY <1>2, <2>1, <3>1 DEF BlockingInv
  <2>5. CASE Ends
    BY <2>1, <2>5 DEF Ends, GoTo, BlockingInv, testVars
  <2> QED
    BY <1>4, <2>2, <2>3, <2>4, <2>5
<1>5. CASE AskAvail \/ AskActCount \/ AsyncGetBuf \/ BasicGetBuf \/ GetBufFails
  <2>1. (pc \in {"actCount", "avail"} \/ setup.serGet) /\ UNCHANGED setup
    BY <1>5 DEF AskAvail, AskActCount, AsyncGetBuf, BasicGetBuf, GetBufFails, ReadAvail, Unchanged
  <2>2. setup.serGet
    BY <1>1, <2>1 DEF AskInv
  <2> QED
    BY <2>1, <2>2 DEF BlockingInv
<1>6. CASE BlockingRead
  <2>1. /\ pc \in {"check", "loop"} /\ written # got /\ ~setup.serGet /\ StartRead(written - got)
        /\ UNCHANGED <<setup, written, got>>
    BY <1>6 DEF BlockingRead, Unchanged, testVars
  <2>2. written - got = setup.size
    BY <2>1 DEF BlockingInv
  <2>3. written - got \in Nat /\ written - got <= BufferSize
    BY <1>2, <2>2
  <2>4. want' = written - got /\ pc' = "reading"
    BY <1>1, <2>1, <2>3, ReadStarts
  <2> QED
    BY <2>1, <2>2, <2>4 DEF BlockingInv
<1> QED
  BY <1>3, <1>4, <1>5, <1>6, <1>7 DEF Next, Driver, Program, TransferFails

\* Where bytes have gone astray nothing is counted on.
LEMMA NothingAstray ==
  ASSUME WayInv, FailInv, setup.pico = "loopback", pc # "failed" \/ Async,
         (Async /\ ~broken) \/ (Basic /\ ~missed)
  PROVE  ~Astray /\ extra <= Len(fifo)
<1>1. ~Astray
  BY DEF FailInv, Async, Basic
<1> QED
  BY <1>1 DEF WayInv, DeviceInv

\* What is counted is a number.
LEMMA RoomNumbers ==
  ASSUME WayInv
  PROVE  /\ {Len(fifo), Len(outgoing), Len(incoming), extra, act, want} \subseteq Nat
         /\ {PayloadSize, FifoSize, BufferSize, setup.size} \subseteq Nat \ {0}
         /\ act <= want /\ Len(incoming) + extra <= FifoSize /\ Len(outgoing) <= PayloadSize
         /\ Known \in Nat /\ Unknown \in Int /\ Due \in Nat
         /\ extra <= Len(fifo) => Unknown \in Nat
<1>1. DeviceInv /\ RequestInv
  BY DEF WayInv
<1>2. /\ {Len(fifo), Len(outgoing), Len(incoming)} \subseteq Nat
      /\ {PayloadSize, FifoSize, BufferSize, setup.size} \subseteq Nat \ {0}
  BY <1>1, Lengths
<1>3. /\ extra \in Nat /\ Len(incoming) + extra <= FifoSize /\ Len(outgoing) <= PayloadSize
  BY <1>1 DEF DeviceInv
<1>4. act \in Nat /\ want \in Nat /\ act <= want
  BY <1>1 DEF RequestInv
<1>5. Known \in Nat /\ Unknown \in Int /\ (extra <= Len(fifo) => Unknown \in Nat)
  BY <1>2, <1>3 DEF Known, Unknown
<1>6. Due \in Nat
  BY <1>2, <1>4 DEF Due
<1> QED
  BY <1>2, <1>3, <1>4, <1>5, <1>6

\* The Basic driver's room.
LEMMA BasicNumbers ==
  ASSUME WayInv, FailInv, BasicPolled, pc # "failed"
  PROVE  /\ {Len(fifo), Len(incoming), extra, act, want, setup.size, FifoSize, BufferSize} \subseteq Nat
         /\ outgoing = <<>> /\ extra <= Len(fifo) /\ act <= want /\ Len(incoming) + extra <= FifoSize
         /\ Due \in Nat /\ usb = <<>>
<1>1. extra <= Len(fifo)
  BY NothingAstray DEF BasicPolled, Polled
<1>2. outgoing = <<>> /\ usb = <<>>
  BY DEF BasicPolled, Polled, WayInv, DeviceInv
<1> QED
  BY <1>1, <1>2, RoomNumbers

\* A block is sent.
LEMMA SendKeepsRoom ==
  ASSUME WayInv, FailInv, BasicRoom, BasicSend
  PROVE  BasicRoom'
<1>1. /\ pc = "writing" /\ Basic /\ UNCHANGED <<setup, incoming, extra, pc, missed>>
  BY DEF BasicSend, driverVars, askVars
<1> SUFFICES ASSUME BasicPolled PROVE BasicRoom'
  BY <1>1 DEF BasicRoom, BasicPolled, Polled, Basic
<1>2. {Len(fifo), Len(incoming), extra, act, setup.size} \subseteq Nat
  BY <1>1, BasicNumbers
<1>3. PICK n \in Nat : act' = act + n /\ Len(NextBlock) = n /\ Sent(NextBlock) /\ NextBlock \in Seq(Int)
  <2>1. NextBlock \in Seq(Int)
    BY <1>1, NextPart DEF WayInv, BasicSend
  <2> QED
    BY <2>1, BasicSendKeeps
<1>4. Len(fifo') \in Nat /\ Len(fifo') <= Len(fifo) + n
  <2>1. fifo' = fifo \o NextBlock \/ fifo' = fifo
    BY <1>3 DEF Sent, BasicPolled, Polled
  <2>2. fifo \in Seq(Int)
    BY DEF WayInv, DeviceInv
  <2>3. Len(fifo \o NextBlock) = Len(fifo) + n
    BY <1>3, <2>2, ConcatProperties
  <2> QED
    BY <1>2, <2>1, <2>3
<1>5. Due = act /\ Due' = act + n
  BY <1>1, <1>3 DEF Due
<1>6. Len(incoming') = Len(incoming) /\ extra' = extra /\ setup' = setup
  BY <1>1
<1>7. Len(incoming) + Len(fifo) <= setup.size + Due /\ (incoming # <<>> => Len(fifo) <= extra + Due)
  BY <1>1 DEF BasicRoom
<1>8. Len(incoming') + Len(fifo') <= setup'.size + Due' /\ (incoming' # <<>> => Len(fifo') <= extra' + Due')
  <2> DEFINE i == Len(incoming)
             f == Len(fifo)
             f1 == Len(fifo')
             size == setup.size
  <2>1. {i, f, f1, size, act, extra, n} \subseteq Nat /\ f1 <= f + n /\ i + f <= size + act
    BY <1>2, <1>4, <1>5, <1>7
  <2>2. incoming # <<>> => f <= extra + act
    BY <1>5, <1>7
  <2> HIDE DEF i, f, f1, size
  <2>3. i + f1 <= size + (act + n)
    BY <2>1
  <2>4. incoming # <<>> => f1 <= extra + (act + n)
    BY <1>2, <2>1, <2>2
  <2> QED
    BY <1>1, <1>5, <1>6, <2>3, <2>4 DEF i, f1, size
<1> QED
  BY <1>1, <1>8 DEF BasicRoom

\* A block is fetched, for a request or for doStatus: all of the FIFO is known.
LEMMA AllKnown ==
  ASSUME WayInv, FailInv, BasicPolled, pc # "failed", incoming = <<>>, Popped(incoming', extra')
  PROVE  /\ {Len(fifo'), Len(incoming'), extra'} \subseteq Nat /\ Len(fifo') = extra'
         /\ Known' = Len(fifo) /\ Len(incoming') + Len(fifo') = Len(fifo)
<1>1. /\ {Len(fifo'), Len(usb'), Len(incoming'), extra'} \subseteq Nat
      /\ Len(incoming') + Len(fifo') + Len(usb') = Len(fifo) + Len(usb)
  BY PopCounts DEF WayInv
<1>2. usb' = usb /\ extra' = Len(fifo')
  BY DEF Popped, BasicPolled, Polled
<1>3. Len(usb) = 0 /\ Len(fifo) \in Nat
  BY BasicNumbers
<1> QED
  BY <1>1, <1>2, <1>3 DEF Known

\* The driver fetches for a request.
LEMMA FetchKeepsRoom ==
  ASSUME WayInv, FailInv, BasicRoom, BasicFetch
  PROVE  BasicRoom'
<1>1. /\ pc = "reading" /\ incoming = <<>> /\ UNCHANGED <<setup, pc, missed, act, want>>
  BY DEF BasicFetch, askVars, callVars
<1> SUFFICES ASSUME BasicPolled PROVE BasicRoom'
  BY <1>1 DEF BasicRoom, BasicPolled, Polled, Basic
<1>2. Len(fifo') = extra' /\ Len(incoming') + Len(fifo') = Len(fifo)
  BY <1>1, AllKnown, BasicFetchKeeps
<1>3. Len(incoming) + Len(fifo) <= setup.size + (want - act)
  BY <1>1 DEF BasicRoom
<1>4. Len(incoming) = 0 /\ Len(fifo) \in Nat
  BY <1>1, BasicNumbers
<1>5. Len(incoming') + Len(fifo') <= setup.size + (want - act)
  BY <1>2, <1>3, <1>4
<1> QED
  BY <1>1, <1>2, <1>5 DEF BasicRoom

\* And moves its bytes.
LEMMA MoveKeepsRoom ==
  ASSUME WayInv, FailInv, BasicRoom, BasicMove
  PROVE  BasicRoom'
<1>1. pc = "reading" /\ UNCHANGED <<setup, fifo, extra, want, pc, missed>>
  BY DEF BasicMove, Move, picoVars, askVars
<1> SUFFICES ASSUME BasicPolled PROVE BasicRoom'
  BY <1>1 DEF BasicRoom, BasicPolled, Polled, Basic
<1>2. {Len(fifo), Len(incoming), extra, act, want, setup.size} \subseteq Nat /\ act <= want
  BY <1>1, BasicNumbers
<1>3. PICK n \in Nat : /\ n <= Len(incoming) /\ act + n <= want /\ act' = act + n
                       /\ Len(incoming') = Len(incoming) - n
  <2>1. ~refill /\ Move(Loop!Min2(want - act, Len(incoming)), 0)
    BY DEF BasicMove, WayInv, DeviceInv, Basic, Async
  <2> QED
    BY <1>1, <2>1, MoveKeeps
<1>4. /\ Len(incoming) + Len(fifo) <= setup.size + (want - act)
      /\ want - act = Known \/ Len(fifo) = extra
  BY <1>1 DEF BasicRoom
<1>5. Len(incoming') + Len(fifo) <= setup.size + (want - act')
  <2> DEFINE i == Len(incoming)
             i1 == Len(incoming')
             f == Len(fifo)
             size == setup.size
  <2>1. /\ {i, f, size, act, want, n} \subseteq Nat /\ act' = act + n /\ i1 = i - n
        /\ i + f <= size + (want - act)
    BY <1>2, <1>3, <1>4
  <2> HIDE DEF i, i1, f, size
  <2>2. i1 + f <= size + (want - act')
    BY <2>1
  <2> QED
    BY <2>2 DEF i1, f, size
<1>6. want - act' = Len(incoming') + extra \/ Len(fifo) = extra
  <2>1. CASE want - act = Known
    <3>1. want - act = Len(incoming) + extra
      BY <2>1 DEF Known
    <3> DEFINE i == Len(incoming)
               i1 == Len(incoming')
    <3>2. /\ {i, extra, act, want, n} \subseteq Nat /\ act' = act + n /\ i1 = i - n
          /\ want - act = i + extra
      BY <1>2, <1>3, <3>1
    <3> HIDE DEF i, i1
    <3>3. want - act' = i1 + extra
      BY <3>2
    <3> QED
      BY <3>3 DEF i1
  <2> QED
    BY <1>4, <2>1
<1> QED
  BY <1>1, <1>5, <1>6 DEF BasicRoom, Known

\* doStatus answers with all the driver knows of.
LEMMA AnswerKeepsBasicRoom ==
  ASSUME WayInv, FailInv, BasicRoom, BasicGetBuf
  PROVE  BasicRoom'
<1>1. pc = "avail" /\ UNCHANGED <<setup, missed>> /\ ReadAvail(Len(incoming') + extra') /\ Basic
  BY DEF BasicGetBuf, ReadAvail, Unchanged
<1> SUFFICES ASSUME BasicPolled PROVE BasicRoom'
  BY <1>1 DEF BasicRoom, BasicPolled, Polled, Basic
<1>2. /\ {Len(fifo), Len(incoming), extra, act, want, setup.size, FifoSize, BufferSize} \subseteq Nat
      /\ extra <= Len(fifo) /\ Len(incoming) + extra <= FifoSize
  BY <1>1, BasicNumbers
<1>3. /\ Len(incoming) + Len(fifo) <= setup.size + setup.size
      /\ incoming # <<>> => Len(fifo) <= extra + setup.size
  BY <1>1 DEF BasicRoom, Due
<1>4. /\ {Len(fifo'), Len(incoming'), extra'} \subseteq Nat /\ Known' \in Nat /\ Known' <= FifoSize
      /\ Len(incoming') + Len(fifo') <= setup.size + Known'
      /\ Len(incoming') + Len(fifo') <= setup.size + setup.size
      /\ Known' = 0 => Len(fifo') = 0 /\ Len(incoming') = 0
  <2>1. CASE incoming = <<>>
    <3>1. /\ {Len(fifo'), Len(incoming'), extra'} \subseteq Nat /\ Len(fifo') = extra'
          /\ Known' = Len(fifo) /\ Len(incoming') + Len(fifo') = Len(fifo)
      BY <1>1, <2>1, AllKnown, BasicGetBufKeeps
    <3>2. Len(fifo) <= FifoSize /\ Len(incoming) = 0
      BY <2>1 DEF WayInv, DeviceInv
    <3> QED
      BY <1>2, <1>3, <3>1, <3>2
  <2>2. CASE incoming # <<>>
    <3>1. UNCHANGED <<fifo, incoming, extra>>
      BY <2>2 DEF BasicGetBuf, Unchanged, picoVars, driverVars
    <3>2. Len(incoming) > 0
      <4>1. Len(incoming) # 0
        BY <2>2, EmptySeq DEF WayInv, DeviceInv
      <4> QED
        BY <1>2, <4>1
    <3>3. Known' = Len(incoming) + extra
      BY <3>1 DEF Known
    <3> DEFINE i == Len(incoming)
               f == Len(fifo)
               size == setup.size
    <3>4. /\ {i, f, extra, size, FifoSize} \subseteq Nat /\ i > 0 /\ extra <= f /\ i + extra <= FifoSize
          /\ i + f <= size + size /\ f <= extra + size
      BY <1>2, <1>3, <2>2, <3>2
    <3> HIDE DEF i, f, size
    <3>5. /\ i + extra \in Nat /\ i + extra # 0 /\ i + f <= size + (i + extra)
      BY <3>4
    <3> QED
      BY <3>1, <3>3, <3>4, <3>5 DEF i, f, size
  <2> QED
    BY <2>1, <2>2
<1>5. ReadAvail(Known')
  BY <1>1 DEF Known
<1>6. CASE Known' = 0
  <2>1. pc' = "loop"
    BY <1>5, <1>6 DEF ReadAvail, GoTo
  <2>2. incoming' = <<>>
    <3>1. incoming' \in Seq(Int) /\ Len(incoming') = 0
      BY <1>4, <1>6, BasicGetBufKeeps DEF Kept, DeviceInv
    <3> QED
      BY <3>1, EmptySeq
  <2>3. Due' = 0
    BY <2>1 DEF Due
  <2>4. Len(incoming') + Len(fifo') <= setup'.size + Due'
    BY <1>1, <1>2, <1>4, <1>6, <2>3
  <2> QED
    BY <2>1, <2>2, <2>4 DEF BasicRoom
<1>7. CASE Known' # 0
  <2>1. StartRead(Known')
    BY <1>5, <1>7 DEF ReadAvail
  <2>2. Known' <= BufferSize
    BY <1>2, <1>4, RoomAssumption
  <2>3. want' = Known' /\ act' = 0 /\ pc' = "reading"
    BY <1>4, <2>1, <2>2, ReadStarts DEF WayInv
  <2> DEFINE k == Known'
  <2>5. k \in Nat /\ want' = k /\ act' = 0 /\ Len(incoming') + Len(fifo') <= setup.size + k /\ setup' = setup
    BY <1>1, <1>4, <2>3
  <2>4. want' - act' = Known' /\ Len(incoming') + Len(fifo') <= setup'.size + (want' - act')
    <3> HIDE DEF k
    <3>1. want' - act' = k
      BY <2>5
    <3> QED
      BY <2>5, <3>1 DEF k
  <2> QED
    BY <2>3, <2>4 DEF BasicRoom
<1> QED
  BY <1>6, <1>7

\* A read that has been served leaves at most a message, all of it known or not fetched.
LEMMA ReadEndKeepsBasicRoom ==
  ASSUME WayInv, FailInv, BasicRoom, ReadEnds
  PROVE  BasicRoom'
<1>1. /\ pc = "reading" /\ act = want /\ pc' \in {"loop", "mismatch"}
      /\ UNCHANGED <<setup, fifo, incoming, extra, missed>>
  BY DEF ReadEnds, GoTo, Unchanged, picoVars, driverVars, askVars
<1> SUFFICES ASSUME BasicPolled, pc' = "loop" PROVE BasicRoom'
  BY <1>1 DEF BasicRoom, BasicPolled, Polled, Basic
<1>2. {Len(fifo), Len(incoming), extra, act, want, setup.size} \subseteq Nat
  BY <1>1, BasicNumbers
<1>3. /\ Len(incoming) + Len(fifo) <= setup.size + (want - act)
      /\ want - act = Known \/ Len(fifo) = extra
  BY <1>1 DEF BasicRoom
<1>4. Due' = 0
  BY DEF Due
<1>5. Len(incoming') + Len(fifo') <= setup'.size + Due'
  BY <1>1, <1>2, <1>3, <1>4
<1>6. incoming' # <<>> => Len(fifo') <= extra' + Due'
  <2> SUFFICES ASSUME incoming # <<>> PROVE Len(fifo) <= extra
    BY <1>1, <1>2, <1>4
  <2>1. Len(incoming) # 0
    BY EmptySeq DEF WayInv, DeviceInv
  <2>2. want - act # Known
    BY <1>1, <1>2, <2>1 DEF Known
  <2> QED
    BY <1>2, <1>3, <2>2
<1> QED
  BY <1>5, <1>6 DEF BasicRoom

\* From one step of the benchmark to the next more may come back.
LEMMA DueGrows ==
  ASSUME WayInv, WriteMessage \/ WriteEnds \/ AskAvail \/ AskActCount \/ Ends
  PROVE  /\ UNCHANGED <<setup, fifo, outgoing, incoming, extra, refill, broken, missed>>
         /\ pc \notin {"reading", "mismatch", "failed"} /\ pc' \notin {"reading", "mismatch", "failed"}
         /\ Due \in Nat /\ Due' \in Nat /\ Due <= Due'
<1>1. /\ UNCHANGED <<setup, fifo, outgoing, incoming, extra, refill, broken, missed>>
      /\ pc \notin {"reading", "mismatch", "failed"} /\ pc' \notin {"reading", "mismatch", "failed"}
  BY DEF WriteMessage, WriteEnds, AskAvail, AskActCount, Ends, Unchanged, GoTo, picoVars, driverVars, askVars
<1>3. act \in Nat /\ setup.size \in Nat /\ (pc = "writing" => want = setup.size)
  BY RoomNumbers DEF WayInv, RequestInv
<1>4. Due \in Nat /\ Due' \in Nat /\ Due <= Due'
  <2>1. CASE WriteMessage
    <3>1. pc = "loop" /\ pc' = "writing" /\ act' = 0
      BY <2>1 DEF WriteMessage, GoTo
    <3> QED
      BY <3>1 DEF Due
  <2>2. CASE WriteEnds
    <3>1. pc = "writing" /\ pc' = "check" /\ act = want
      BY <2>2 DEF WriteEnds, GoTo
    <3> QED
      BY <1>1, <1>3, <3>1 DEF Due
  <2>3. CASE AskAvail \/ AskActCount \/ Ends
    <3>1. pc \in {"loop", "check", "actCount"} /\ pc' \in {"actCount", "avail", "done"}
      BY <2>3 DEF AskAvail, AskActCount, Ends, GoTo
    <3> QED
      BY <1>1, <1>3, <3>1 DEF Due
  <2> QED
    BY <2>1, <2>2, <2>3
<1> QED
  BY <1>1, <1>4

\* Which the Basic driver's room allows.
LEMMA TurnKeepsBasicRoom ==
  ASSUME WayInv, FailInv, BasicRoom, WriteMessage \/ WriteEnds \/ AskAvail \/ AskActCount \/ Ends
  PROVE  BasicRoom'
<1>1. /\ UNCHANGED <<setup, fifo, outgoing, incoming, extra, refill, broken, missed>>
      /\ pc \notin {"reading", "mismatch", "failed"} /\ pc' \notin {"reading", "mismatch", "failed"}
      /\ Due \in Nat /\ Due' \in Nat /\ Due <= Due'
  BY DueGrows
<1> SUFFICES ASSUME BasicPolled PROVE BasicRoom'
  BY <1>1 DEF BasicRoom, BasicPolled, Polled, Basic
<1>2. {Len(fifo), Len(incoming), extra, setup.size} \subseteq Nat
  BY <1>1, BasicNumbers
<1>3. Len(incoming) + Len(fifo) <= setup.size + Due /\ (incoming # <<>> => Len(fifo) <= extra + Due)
  BY <1>1 DEF BasicRoom
<1> DEFINE before == Due
           after == Due'
<1>4. {before, after} \subseteq Nat /\ before <= after
  BY <1>1
<1>5. Len(incoming) + Len(fifo) <= setup.size + before /\ (incoming # <<>> => Len(fifo) <= extra + before)
  BY <1>3
<1> HIDE DEF before, after
<1>6. Len(incoming) + Len(fifo) <= setup.size + after /\ (incoming # <<>> => Len(fifo) <= extra + after)
  BY <1>2, <1>4, <1>5
<1> QED
  BY <1>1, <1>6 DEF BasicRoom, after

\* Every step keeps the Basic driver's room.
LEMMA BasicRoomStep ==
  ASSUME WayInv, FailInv, BasicRoom, [Next]_vars
  PROVE  BasicRoom'
<1>1. CASE \/ Flush \/ Fill \/ Accept \/ Take \/ RequestFails \/ AsyncGetBuf \/ FlushFails \/ FillFails
  <2>1. UNCHANGED setup /\ Async
    BY <1>1 DEF Flush, Fill, FillWith, Accept, Take, Move, RequestFails, AsyncGetBuf, Unchanged, FlushFails,
       FillFails, MayFlush, MayFill, NoRequest
  <2> QED
    BY <2>1 DEF BasicRoom, BasicPolled, Polled, Basic, Async
<1>2. CASE BlockingRead
  <2>1. UNCHANGED setup /\ ~setup.serGet
    BY <1>2 DEF BlockingRead, Unchanged
  <2> QED
    BY <2>1 DEF BasicRoom, BasicPolled, Polled, Basic
<1>3. CASE HostEchoes
  <2>1. UNCHANGED setup /\ setup.pico # "loopback"
    BY <1>3, EchoKeeps DEF HostEchoes
  <2> QED
    BY <2>1 DEF BasicRoom, BasicPolled, Polled, Basic
<1>4. CASE BasicSendFails \/ BasicFetchFails
  <2>1. pc' = "failed"
    BY <1>4 DEF BasicSendFails, BasicFetchFails, GoTo
  <2> QED
    BY <2>1 DEF BasicRoom
<1>5. CASE GetBufFails
  <2>1. missed' = TRUE
    BY <1>5 DEF GetBufFails
  <2>2. missed'
    BY <2>1, Zenon
  <2> QED
    BY <2>2 DEF BasicRoom, BasicPolled
<1>6. CASE UNCHANGED vars
  <2>1. UNCHANGED <<setup, fifo, incoming, extra, pc, act, want, missed>>
    BY <1>6 DEF vars, picoVars, driverVars, callVars, askVars
  <2> QED
    BY <2>1 DEF BasicRoom, BasicPolled, Polled, Basic, Known, Due
<1> QED
  BY <1>1, <1>2, <1>3, <1>4, <1>5, <1>6, SendKeepsRoom, FetchKeepsRoom, MoveKeepsRoom,
     AnswerKeepsBasicRoom, ReadEndKeepsBasicRoom, TurnKeepsBasicRoom DEF Next, Driver, Program, TransferFails

\* The asynchronous driver's room.
LEMMA AsyncNumbers ==
  ASSUME WayInv, FailInv, AsyncPolled
  PROVE  /\ {Len(fifo), Len(outgoing), Len(incoming), extra, act, want} \subseteq Nat
         /\ {PayloadSize, FifoSize, BufferSize, setup.size} \subseteq Nat
         /\ extra <= Len(fifo) /\ act <= want /\ Len(incoming) + extra <= FifoSize
         /\ Known \in Nat /\ Unknown \in Nat /\ Due \in Nat
<1>1. extra <= Len(fifo)
  BY NothingAstray DEF AsyncPolled, Polled
<1> QED
  BY <1>1, RoomNumbers

\* What is sent is not known of, as it was in the write buffer; or it is gone.
LEMMA FlushKeepsRoom ==
  ASSUME WayInv, FailInv, AsyncRoom, Flush
  PROVE  AsyncRoom'
<1>1. /\ UNCHANGED <<setup, incoming, extra, broken, pc, want, act, torn>>
      /\ outgoing' = <<>> /\ ~refill
  BY DEF Flush, MayFlush, NoRequest, callVars, askVars
<1> SUFFICES ASSUME AsyncPolled PROVE AsyncRoom'
  BY <1>1 DEF AsyncRoom, AsyncPolled, Polled, Async
<1>2. /\ {Len(fifo), Len(outgoing), Len(incoming), extra, act, want} \subseteq Nat
      /\ {PayloadSize, setup.size} \subseteq Nat /\ extra <= Len(fifo)
      /\ Known \in Nat /\ Unknown \in Nat /\ Due \in Nat
  BY AsyncNumbers
<1>3. Len(fifo') = Len(fifo) + Len(outgoing) \/ Len(fifo') = Len(fifo)
  <2>1. Sent(outgoing) /\ fifo \in Seq(Int) /\ outgoing \in Seq(Int)
    BY FlushKeeps DEF WayInv, DeviceInv
  <2>2. fifo' = fifo \o outgoing \/ fifo' = fifo
    BY <2>1 DEF Sent, AsyncPolled, Polled
  <2> QED
    BY <2>1, <2>2, ConcatProperties
<1>4. Len(outgoing') = 0
  BY <1>1
<1>5. Known' = Known /\ Unknown' \in 0..Unknown
  <2>1. Known' = Known
    BY <1>1 DEF Known
  <2> DEFINE f1 == Len(fifo')
             f == Len(fifo)
             o == Len(outgoing)
  <2>2. /\ {f, o, extra} \subseteq Nat /\ extra <= f /\ (f1 = f + o \/ f1 = f)
        /\ Unknown = f + o - extra /\ Unknown' = f1 + 0 - extra
    BY <1>1, <1>2, <1>3, <1>4 DEF Unknown
  <2> HIDE DEF f, f1, o
  <2>3. Unknown' \in 0..Unknown
    BY <2>2
  <2> QED
    BY <2>1, <2>3
<1> DEFINE k == Known
           u == Unknown
           v == Unknown'
           left == want - act
<1>6. /\ {k, u, v} \subseteq Nat /\ left \in Int /\ v <= u /\ v \in 0..u /\ Known' = k
      /\ setup' = setup /\ want' - act' = left /\ extra' = extra
  BY <1>1, <1>2, <1>5
<1>7. ASSUME pc = "reading" PROVE ReadRoom'
  <2>1. /\ \/ k + u <= setup.size + left /\ (k > left => u = 0)
           \/ u = 0 /\ extra <= setup.size
        /\ Len(fifo) + Len(outgoing) <= 2 * setup.size
    BY <1>7 DEF AsyncRoom, ReadRoom
  <2>2. Len(fifo') + Len(outgoing') <= 2 * setup.size
    <3> DEFINE before == Len(fifo) + Len(outgoing)
               after == Len(fifo') + Len(outgoing')
               room == 2 * setup.size
    <3>1. {before, after, room} \subseteq Nat /\ after <= before /\ before <= room
      <4> DEFINE f == Len(fifo)
                 f1 == Len(fifo')
                 o == Len(outgoing)
                 o1 == Len(outgoing')
                 size == setup.size
      <4>1. {f, o, size} \subseteq Nat /\ (f1 = f + o \/ f1 = f) /\ o1 = 0 /\ f + o <= 2 * size
        BY <1>2, <1>3, <1>4, <2>1
      <4> HIDE DEF f, f1, o, o1, size
      <4>2. /\ {f + o, f1 + o1, 2 * size} \subseteq Nat
            /\ f1 + o1 <= f + o
        BY <4>1
      <4> QED
        BY <4>1, <4>2 DEF f, f1, o, o1, size
    <3> HIDE DEF before, after, room
    <3>2. after <= room
      BY <3>1
    <3> QED
      BY <3>2 DEF after, room
  <2>3. \/ k + v <= setup.size + left /\ (k > left => v = 0)
        \/ v = 0 /\ extra <= setup.size
    <3> DEFINE most == setup.size + left
    <3>1. {k, u, v} \subseteq Nat /\ most \in Int /\ v <= u /\ v \in 0..u
      BY <1>2, <1>6
    <3>2. CASE k + u <= most /\ (k > left => u = 0)
      <4> HIDE DEF k, u, v, left, most
      <4>1. k + v <= most
        BY <3>1, <3>2
      <4>2. k > left => v = 0
        BY <3>1, <3>2
      <4> QED
        BY <4>1, <4>2 DEF most
    <3>3. CASE u = 0 /\ extra <= setup.size
      <4> HIDE DEF k, u, v, left, most
      <4> QED
        BY <3>1, <3>3
    <3> QED
      BY <2>1, <3>2, <3>3
  <2>4. \/ Known' + Unknown' <= setup'.size + (want' - act') /\ (Known' > want' - act' => Unknown' = 0)
        \/ Unknown' = 0 /\ extra' <= setup'.size
    <3> HIDE DEF k, left
    <3> QED
      BY <1>6, <2>3 DEF v
  <2> QED
    BY <1>1, <2>2, <2>4 DEF ReadRoom
<1>8. ASSUME pc \notin {"reading", "mismatch", "failed"} PROVE IdleRoom'
  <2>1. IdleRoom
    BY <1>8 DEF AsyncRoom
  <2>2. Due' = Due
    BY <1>1 DEF Due
  <2>3. Known' > 0 => Unknown' <= Due'
    <3>1. Known > 0 => Unknown <= Due
      BY <2>1 DEF IdleRoom
    <3> HIDE DEF Known, Unknown, Due
    <3> QED
      BY <1>2, <1>5, <2>2, <3>1
  <2>4. incoming' = <<>> => Len(fifo') <= setup.size + (IF refill' THEN PayloadSize ELSE 0)
    <3> SUFFICES ASSUME incoming = <<>> PROVE Len(fifo') <= setup.size + PayloadSize
      BY <1>1 DEF Flush
    <3>1. Len(fifo) <= setup.size + (IF refill THEN PayloadSize ELSE 0)
      BY <2>1 DEF IdleRoom
    <3>2. Len(fifo) <= setup.size
      BY <1>1, <1>2, <3>1
    <3>3. Len(outgoing) <= PayloadSize
      BY RoomNumbers
    <3> QED
      BY <1>2, <1>3, <3>2, <3>3
  <2>5. pc' \in {"actCount", "avail"} /\ torn' => Unknown' = 0
    <3>1. pc \in {"actCount", "avail"} /\ torn => Unknown = 0
      BY <2>1 DEF IdleRoom
    <3> HIDE DEF Unknown
    <3> QED
      BY <1>1, <1>2, <1>5, <3>1
  <2>6. extra' <= setup'.size
    BY <1>1, <2>1 DEF IdleRoom
  <2> QED
    BY <1>1, <2>3, <2>4, <2>5, <2>6 DEF IdleRoom
<1> QED
  BY <1>1, <1>7, <1>8 DEF AsyncRoom

\* A read tells the driver how much the FIFO has.
LEMMA FillKeepsRoom ==
  ASSUME WayInv, FailInv, AsyncRoom, Fill
  PROVE  AsyncRoom'
<1>1. /\ UNCHANGED <<setup, outgoing, broken, pc, want, act>>
      /\ refill \/ outgoing = <<>>
      /\ refill' = FALSE
  BY DEF Fill, FillWith, MayFill, NoRequest, callVars
<1> SUFFICES ASSUME AsyncPolled PROVE AsyncRoom'
  BY <1>1 DEF AsyncRoom, AsyncPolled, Polled, Async
<1>2. /\ {Len(fifo), Len(outgoing), Len(incoming), extra, act, want} \subseteq Nat
      /\ {PayloadSize, setup.size} \subseteq Nat /\ extra <= Len(fifo) /\ act <= want
      /\ Known \in Nat /\ Unknown \in Nat /\ Due \in Nat
  BY AsyncNumbers
<1>3. DeviceInv /\ Popped(incoming', extra') /\ incoming = <<>>
  BY FillKeeps DEF WayInv
<1>4. outgoing = <<>> /\ Len(outgoing) = 0 /\ Len(outgoing') = 0 /\ Len(incoming) = 0
  BY <1>1, <1>3 DEF DeviceInv
<1>5. /\ {Len(fifo'), Len(incoming')} \subseteq Nat /\ Len(incoming') + Len(fifo') = Len(fifo)
      /\ extra' = Len(fifo') /\ (extra' > 0 => Len(incoming') = PayloadSize)
  <2>1. /\ {Len(fifo'), Len(usb'), Len(incoming')} \subseteq Nat
        /\ Len(incoming') + Len(fifo') + Len(usb') = Len(fifo) + Len(usb)
    BY <1>3, PopCounts
  <2>2. Len(usb') = Len(usb) /\ Len(usb) \in Nat /\ Len(fifo) \in Nat
    BY <1>3, Lengths DEF AsyncPolled, Polled, Popped
  <2>3. extra' = Len(fifo') /\ (extra' > 0 => Len(incoming') = PayloadSize)
    BY <1>3 DEF Popped
  <2> QED
    BY <2>1, <2>2, <2>3
<1>6. Known' = Len(fifo) /\ Unknown' = 0
  BY <1>2, <1>4, <1>5 DEF Known, Unknown
<1>7. ASSUME pc = "reading" PROVE ReadRoom'
  <2>1. /\ \/ Known + Unknown <= setup.size + (want - act)
           \/ Unknown = 0 /\ extra <= setup.size
        /\ Len(fifo) + Len(outgoing) <= 2 * setup.size
    BY <1>7 DEF AsyncRoom, ReadRoom
  <2>2. Known + Unknown = Len(fifo) /\ Unknown = Len(fifo) - extra
    BY <1>2, <1>4 DEF Known, Unknown
  <2>3. \/ Len(fifo) + 0 <= setup.size + (want - act)
        \/ Len(fifo') <= setup.size
    <3>1. CASE Known + Unknown <= setup.size + (want - act)
      BY <1>2, <2>2, <3>1
    <3>2. CASE Unknown = 0 /\ extra <= setup.size
      <4>1. Len(fifo) - extra = 0
        BY <2>2, <3>2
      <4> QED
        BY <1>2, <1>5, <3>2, <4>1
    <3> QED
      BY <2>1, <3>1, <3>2
  <2>4. Len(fifo') + Len(outgoing') <= 2 * setup.size
    BY <1>2, <1>4, <1>5, <2>1
  <2>5. want' = want /\ act' = act /\ setup' = setup
    BY <1>1
  <2>6. \/ Known' + Unknown' <= setup'.size + (want' - act') /\ (Known' > want' - act' => Unknown' = 0)
        \/ Unknown' = 0 /\ extra' <= setup'.size
    BY <1>5, <1>6, <2>3, <2>5
  <2> QED
    BY <2>4, <2>5, <2>6 DEF ReadRoom
<1>8. ASSUME pc \notin {"reading", "mismatch", "failed"} PROVE IdleRoom'
  <2>1. IdleRoom
    BY <1>8 DEF AsyncRoom
  <2>2. Len(fifo) <= setup.size + PayloadSize
    <3>1. Len(fifo) <= setup.size + (IF refill THEN PayloadSize ELSE 0)
      BY <1>3, <2>1 DEF IdleRoom
    <3> QED
      BY <1>2, <3>1
  <2>3. extra' <= setup.size
    BY <1>2, <1>5, <2>2
  <2>4. incoming' = <<>> => Len(fifo') <= setup.size
    <3>1. incoming' = <<>> => Len(incoming') = 0
      OBVIOUS
    <3> QED
      BY <1>2, <1>5, <2>2, <3>1
  <2>5. Unknown' <= Due'
    <3>1. Due' = Due
      BY <1>1 DEF Due
    <3> QED
      BY <1>2, <1>6, <3>1
  <2>6. setup' = setup /\ ~refill'
    BY <1>1
  <2>7. incoming' = <<>> => Len(fifo') <= setup'.size + (IF refill' THEN PayloadSize ELSE 0)
    <3>1. setup.size + (IF refill' THEN PayloadSize ELSE 0) = setup.size
      BY <1>2, <2>6
    <3> QED
      BY <2>4, <2>6, <3>1
  <2> QED
    BY <1>6, <2>3, <2>5, <2>6, <2>7 DEF IdleRoom
<1> QED
  BY <1>1, <1>7, <1>8 DEF AsyncRoom

\* While a message is accepted the driver knows of all that came before.
LEMMA AcceptKeepsRoom ==
  ASSUME WayInv, FailInv, AsyncRoom, Accept
  PROVE  AsyncRoom'
<1>1. pc = "writing" /\ UNCHANGED <<setup, fifo, incoming, extra, refill, broken, pc>>
  BY DEF Accept, picoVars
<1> SUFFICES ASSUME AsyncPolled PROVE IdleRoom'
  BY <1>1 DEF AsyncRoom, AsyncPolled, Polled, Async
<1>2. /\ {Len(fifo), Len(outgoing), Len(incoming), extra, act} \subseteq Nat
      /\ Known \in Nat /\ Unknown \in Nat
  BY AsyncNumbers
<1>3. PICK n \in Nat : act' = act + n /\ Len(outgoing') = Len(outgoing) + n
  BY AcceptKeeps
<1>4. IdleRoom
  BY <1>1 DEF AsyncRoom
<1>5. Known' = Known /\ Unknown' = Unknown + n
  <2>1. Len(incoming') = Len(incoming) /\ Len(fifo') = Len(fifo) /\ extra' = extra
    BY <1>1
  <2> QED
    BY <1>2, <1>3, <2>1 DEF Known, Unknown
<1>6. Due = act /\ Due' = act'
  BY <1>1 DEF Due
<1>7. Known' > 0 => Unknown' <= Due'
  <2>1. Known > 0 => Unknown <= Due
    BY <1>4 DEF IdleRoom
  <2> QED
    BY <1>2, <1>3, <1>5, <1>6, <2>1
<1>8. /\ extra' <= setup'.size
      /\ incoming' = <<>> => Len(fifo') <= setup'.size + (IF refill' THEN PayloadSize ELSE 0)
  BY <1>1, <1>4 DEF IdleRoom
<1> QED
  BY <1>1, <1>7, <1>8 DEF IdleRoom

\* A read takes what the driver knows of.
LEMMA TakeKeepsRoom ==
  ASSUME WayInv, FailInv, AsyncRoom, Take
  PROVE  AsyncRoom'
<1>1. pc = "reading" /\ UNCHANGED <<setup, fifo, outgoing, extra, broken, want, pc>>
  BY DEF Take, Move, picoVars
<1> SUFFICES ASSUME AsyncPolled PROVE ReadRoom'
  BY <1>1 DEF AsyncRoom, AsyncPolled, Polled, Async
<1>2. /\ {Len(fifo), Len(outgoing), Len(incoming), extra, act, want, setup.size} \subseteq Nat
      /\ Known \in Nat /\ Unknown \in Nat
  BY AsyncNumbers
<1>3. PICK n \in Nat : /\ n <= Len(incoming) /\ act + n <= want /\ act' = act + n
                       /\ Len(incoming') = Len(incoming) - n
  <2>1. act \in Nat /\ pc = "reading" /\ ~refill /\ Move(Loop!Min2(want - act, Len(incoming)), act)
    BY <1>2 DEF Take
  <2> QED
    BY <2>1, MoveKeeps
<1>4. /\ \/ Known + Unknown <= setup.size + (want - act) /\ (Known > want - act => Unknown = 0)
         \/ Unknown = 0 /\ extra <= setup.size
      /\ Len(fifo) + Len(outgoing) <= 2 * setup.size
  BY <1>1 DEF AsyncRoom, ReadRoom
<1>5. Known' = Known - n /\ Unknown' = Unknown
  <2>1. Len(outgoing') = Len(outgoing) /\ Len(fifo') = Len(fifo) /\ extra' = extra
    BY <1>1
  <2> QED
    BY <1>2, <1>3, <2>1 DEF Known, Unknown
<1>6. \/ Known' + Unknown' <= setup.size + (want - act') /\ (Known' > want - act' => Unknown' = 0)
      \/ Unknown' = 0 /\ extra <= setup.size
  <2> DEFINE left == want - act
             k == Known
             u == Unknown
  <2>1. /\ {left, n, k, u, setup.size} \subseteq Nat /\ want - act' = left - n
        /\ \/ k + u <= setup.size + left /\ (k > left => u = 0)
           \/ u = 0 /\ extra <= setup.size
    <3>1. left \in Nat
      BY <1>2, <1>3
    <3>2. want - act' = left - n
      BY <1>2, <1>3
    <3>3. {n, k, u, setup.size} \subseteq Nat
      BY <1>2
    <3> QED
      BY <1>4, <3>1, <3>2, <3>3
  <2>2. Known' = k - n /\ Unknown' = u
    BY <1>5
  <2> HIDE DEF left, k, u
  <2>3. \/ (k - n) + u <= setup.size + (left - n) /\ (k - n > left - n => u = 0)
        \/ u = 0 /\ extra <= setup.size
    BY <2>1
  <2> QED
    BY <2>1, <2>2, <2>3
<1>7. Len(fifo') + Len(outgoing') <= 2 * setup'.size
  BY <1>1, <1>4
<1>8. want' = want /\ setup' = setup /\ extra' = extra
  BY <1>1
<1> QED
  BY <1>6, <1>7, <1>8 DEF ReadRoom

\* From one step of the benchmark to the next no byte moves.
LEMMA TurnKeepsAsyncRoom ==
  ASSUME WayInv, FailInv, AsyncRoom, WriteMessage \/ WriteEnds \/ AskAvail \/ AskActCount \/ Ends
  PROVE  AsyncRoom'
<1>1. /\ UNCHANGED <<setup, fifo, outgoing, incoming, extra, refill, broken>>
      /\ pc \notin {"reading", "mismatch", "failed"} /\ pc' \notin {"reading", "mismatch", "failed"}
      /\ Due \in Nat /\ Due' \in Nat /\ Due <= Due'
  BY DueGrows
<1> SUFFICES ASSUME AsyncPolled PROVE IdleRoom'
  BY <1>1 DEF AsyncRoom, AsyncPolled, Polled, Async
<1>2. IdleRoom
  BY <1>1 DEF AsyncRoom
<1>3. Known' = Known /\ Unknown' = Unknown /\ Unknown \in Nat
  BY <1>1, AsyncNumbers DEF Known, Unknown
<1>4. Known' > 0 => Unknown' <= Due'
  <2>1. Known > 0 => Unknown <= Due
    BY <1>2 DEF IdleRoom
  <2> DEFINE u == Unknown
             before == Due
             after == Due'
  <2>2. {u, before, after} \subseteq Nat /\ before <= after /\ (Known > 0 => u <= before)
    BY <1>1, <1>3, <2>1
  <2> HIDE DEF u, before, after
  <2>3. Known > 0 => u <= after
    BY <2>2
  <2> QED
    BY <1>3, <2>3 DEF u, after
<1>5. pc' \in {"actCount", "avail"} /\ torn' => Unknown' = 0
  <2>1. CASE AskAvail
    <3>1. torn' = FALSE
      BY <2>1 DEF AskAvail
    <3>2. ~torn'
      BY <3>1, Zenon
    <3> QED
      BY <3>2
  <2>2. CASE AskActCount
    <3>1. pc = "actCount" /\ torn' = torn
      BY <2>2 DEF AskActCount
    <3>2. pc \in {"actCount", "avail"} /\ torn => Unknown = 0
      BY <1>2 DEF IdleRoom
    <3> QED
      BY <1>3, <3>1, <3>2
  <2>3. CASE WriteMessage \/ WriteEnds \/ Ends
    <3>1. pc' \notin {"actCount", "avail"}
      BY <2>3 DEF WriteMessage, WriteEnds, Ends, GoTo
    <3> QED
      BY <3>1
  <2> QED
    BY <2>1, <2>2, <2>3
<1>6. /\ extra' <= setup'.size
      /\ incoming' = <<>> => Len(fifo') <= setup'.size + (IF refill' THEN PayloadSize ELSE 0)
  BY <1>1, <1>2 DEF IdleRoom
<1> QED
  BY <1>4, <1>5, <1>6 DEF IdleRoom

\* SerGetBuf answers with what the driver knows of, and that is what is read; or a fetch
\* came between its reads, and the driver knows of all there is.
LEMMA AnswerKeepsAsyncRoom ==
  ASSUME WayInv, FailInv, AsyncRoom, AsyncGetBuf
  PROVE  AsyncRoom'
<1>1. /\ pc = "avail" /\ Async /\ ReadAvail(sum + extra)
      /\ UNCHANGED <<setup, fifo, outgoing, incoming, extra, refill, broken>>
  BY DEF AsyncGetBuf, ReadAvail, Unchanged, picoVars, driverVars
<1> SUFFICES ASSUME AsyncPolled PROVE AsyncRoom'
  BY <1>1 DEF AsyncRoom, AsyncPolled, Polled, Async
<1>2. /\ {Len(fifo), Len(outgoing), Len(incoming), extra, setup.size, FifoSize, BufferSize} \subseteq Nat
      /\ Known \in Nat /\ Unknown \in Nat /\ Len(incoming) + extra <= FifoSize
  BY AsyncNumbers
<1>3. IdleRoom /\ Due = setup.size
  BY <1>1 DEF AsyncRoom, Due
<1>4. /\ extra <= setup.size /\ (Known > 0 => Unknown <= setup.size)
      /\ torn => Unknown = 0
      /\ incoming = <<>> => Len(fifo) <= setup.size + (IF refill THEN PayloadSize ELSE 0)
  BY <1>1, <1>3 DEF IdleRoom
<1>5. Known' = Known /\ Unknown' = Unknown
  BY <1>1 DEF Known, Unknown
<1>6. sum \in Nat /\ (~torn => sum + extra = Known)
  BY <1>1 DEF WayInv, AskInv, Known
<1>7. CASE sum + extra = 0
  <2>1. pc' = "loop"
    BY <1>1, <1>7 DEF ReadAvail, GoTo
  <2>2. Known > 0 => Unknown = 0
    BY <1>4, <1>6, <1>7
  <2>3. Due' = 0
    BY <2>1 DEF Due
  <2>4. Known' > 0 => Unknown' <= Due'
    BY <1>5, <2>2, <2>3
  <2>5. IdleRoom'
    BY <1>1, <1>4, <2>1, <2>4 DEF IdleRoom
  <2> QED
    BY <2>1, <2>5 DEF AsyncRoom
<1>8. CASE sum + extra # 0
  <2>1. StartRead(sum + extra) /\ sum + extra \in Nat
    BY <1>1, <1>2, <1>6, <1>8 DEF ReadAvail
  <2>2. act' = 0 /\ pc' = "reading" /\ (sum + extra <= BufferSize => want' = sum + extra)
    BY <2>1, ReadStarts DEF WayInv
  <2>3. Len(fifo) + Len(outgoing) = Unknown + extra
    BY <1>2 DEF Unknown
  <2>4. CASE torn
    <3>1. Unknown' = 0 /\ extra' <= setup'.size
      BY <1>1, <1>4, <1>5, <2>4
    <3>2. Len(fifo') + Len(outgoing') <= 2 * setup'.size
      <4>1. Len(fifo) + Len(outgoing) <= 2 * setup.size
        BY <1>2, <1>4, <2>3, <2>4
      <4> QED
        BY <1>1, <4>1
    <3> QED
      BY <2>2, <3>1, <3>2 DEF AsyncRoom, ReadRoom
  <2>5. CASE ~torn
    <3>1. Known \in Nat /\ Known # 0 /\ Known <= BufferSize /\ want' = Known
      <4>1. Known <= BufferSize
        BY <1>2, RoomAssumption DEF Known
      <4> QED
        BY <1>2, <1>6, <1>8, <2>2, <2>5, <4>1
    <3>2. Unknown <= setup.size
      BY <1>4, <3>1
    <3>3. want' - act' = Known
      BY <2>2, <3>1
    <3>4. Known' + Unknown' <= setup'.size + (want' - act') /\ ~(Known' > want' - act')
      <4> DEFINE k == Known
                 u == Unknown
      <4>1. {k, u, setup.size} \subseteq Nat /\ u <= setup.size
        BY <1>2, <3>2
      <4>2. Known' = k /\ Unknown' = u /\ setup' = setup /\ want' - act' = k
        BY <1>1, <1>5, <3>3
      <4> HIDE DEF k, u
      <4>3. k + u <= setup.size + k /\ ~(k > k)
        BY <4>1
      <4> QED
        BY <4>2, <4>3
    <3>5. Len(fifo') + Len(outgoing') <= 2 * setup'.size
      <4>1. Len(fifo) + Len(outgoing) <= 2 * setup.size
        BY <1>2, <1>4, <2>3, <3>2
      <4> QED
        BY <1>1, <4>1
    <3> QED
      BY <2>2, <3>4, <3>5 DEF AsyncRoom, ReadRoom
  <2> QED
    BY <2>4, <2>5
<1> QED
  BY <1>7, <1>8

\* A read that has been served leaves the driver with nothing unknown, or with nothing.
LEMMA ReadEndKeepsAsyncRoom ==
  ASSUME WayInv, FailInv, AsyncRoom, ReadEnds
  PROVE  AsyncRoom'
<1>1. /\ pc = "reading" /\ act = want /\ pc' \in {"loop", "mismatch"}
      /\ UNCHANGED <<setup, fifo, outgoing, incoming, extra, refill, broken>>
  BY DEF ReadEnds, GoTo, Unchanged, picoVars, driverVars
<1> SUFFICES ASSUME AsyncPolled, pc' = "loop" PROVE IdleRoom'
  BY <1>1 DEF AsyncRoom, AsyncPolled, Polled, Async
<1>2. /\ {Len(fifo), Len(outgoing), Len(incoming), extra, act, want, setup.size, PayloadSize} \subseteq Nat
      /\ Known \in Nat /\ Unknown \in Nat /\ extra <= Len(fifo)
  BY AsyncNumbers
<1>3. /\ \/ Known + Unknown <= setup.size + (want - act) /\ (Known > want - act => Unknown = 0)
         \/ Unknown = 0 /\ extra <= setup.size
  BY <1>1 DEF AsyncRoom, ReadRoom
<1>4. extra <= setup.size /\ Len(fifo) <= setup.size /\ (Known > 0 => Unknown = 0)
  <2>1. want - act = 0 /\ setup.size + 0 = setup.size
    BY <1>1, <1>2
  <2>2. CASE Known + Unknown <= setup.size + (want - act) /\ (Known > want - act => Unknown = 0)
    <3>1. Known + Unknown <= setup.size /\ (Known > 0 => Unknown = 0)
      BY <2>1, <2>2
    <3>2. Known + Unknown = Len(incoming) + Len(fifo) + Len(outgoing)
      BY <1>2 DEF Known, Unknown
    <3>3. Len(incoming) + Len(fifo) + Len(outgoing) <= setup.size
      BY <3>1, <3>2
    <3> QED
      BY <1>2, <3>1, <3>3
  <2>3. CASE Unknown = 0 /\ extra <= setup.size
    <3>1. Len(fifo) + Len(outgoing) - extra = 0
      BY <2>3 DEF Unknown
    <3> QED
      BY <1>2, <2>3, <3>1
  <2> QED
    BY <1>3, <2>2, <2>3
<1>5. Known' = Known /\ Unknown' = Unknown /\ Due' = 0
  BY <1>1 DEF Known, Unknown, Due
<1>6. Known' > 0 => Unknown' <= Due'
  BY <1>4, <1>5
<1>7. Len(fifo') <= setup'.size + (IF refill' THEN PayloadSize ELSE 0)
  BY <1>1, <1>2, <1>4
<1> QED
  BY <1>1, <1>4, <1>6, <1>7 DEF IdleRoom

\* Every step keeps the asynchronous driver's room.
LEMMA AsyncRoomStep ==
  ASSUME WayInv, FailInv, AsyncRoom, [Next]_vars
  PROVE  AsyncRoom'
<1>1. CASE \/ BasicSend \/ BasicFetch \/ BasicMove \/ BasicGetBuf \/ BasicSendFails \/ BasicFetchFails
           \/ GetBufFails
  <2>1. UNCHANGED setup /\ Basic
    BY <1>1 DEF BasicSend, BasicFetch, BasicMove, Move, BasicGetBuf, Unchanged, BasicSendFails,
       BasicFetchFails, GetBufFails
  <2> QED
    BY <2>1 DEF AsyncRoom, AsyncPolled, Polled, Basic, Async
<1>2. CASE BlockingRead
  <2>1. UNCHANGED setup /\ ~setup.serGet
    BY <1>2 DEF BlockingRead, Unchanged
  <2> QED
    BY <2>1 DEF AsyncRoom, AsyncPolled, Polled
<1>3. CASE HostEchoes
  <2>1. UNCHANGED setup /\ setup.pico # "loopback"
    BY <1>3, EchoKeeps DEF HostEchoes
  <2> QED
    BY <2>1 DEF AsyncRoom, AsyncPolled, Polled
<1>4. CASE FlushFails \/ FillFails
  <2>1. broken' = TRUE
    BY <1>4 DEF FlushFails, FillFails
  <2>2. broken'
    BY <2>1, Zenon
  <2> QED
    BY <2>2 DEF AsyncRoom, AsyncPolled
<1>5. CASE RequestFails
  <2>1. broken /\ broken' = broken
    BY <1>5 DEF RequestFails, driverVars
  <2> QED
    BY <2>1 DEF AsyncRoom, AsyncPolled
<1>6. CASE UNCHANGED vars
  <2>1. UNCHANGED <<setup, fifo, outgoing, incoming, extra, refill, broken, pc, act, want, torn>>
    BY <1>6 DEF vars, picoVars, driverVars, callVars, askVars
  <2> QED
    BY <2>1 DEF AsyncRoom, AsyncPolled, Polled, Async, ReadRoom, IdleRoom, Known, Unknown, Due
<1> QED
  BY <1>1, <1>2, <1>3, <1>4, <1>5, <1>6, FlushKeepsRoom, FillKeepsRoom, AcceptKeepsRoom, TakeKeepsRoom,
     TurnKeepsAsyncRoom, AnswerKeepsAsyncRoom, ReadEndKeepsAsyncRoom
     DEF Next, Driver, Program, TransferFails

\* What the FIFO holds and what comes to it fit, if they are at most two messages, or one
\* and a block.
LEMMA Fits ==
  ASSUME NEW f \in Nat, NEW o \in Nat, NEW size \in Nat, NEW block \in Nat, NEW capacity \in Nat,
         2 * size <= capacity, size + block <= capacity,
         \/ f + o <= size
         \/ f + o <= 2 * size
         \/ f <= size /\ o <= block
         \/ \E x \in 0..size, u \in 0..size : f + o = u + x
  PROVE  f + o <= capacity
OBVIOUS

\* With blocking reads there is at most a message on its way.
LEMMA OneMessage ==
  ASSUME WayInv, BlockingInv, ~setup.serGet, ~broken, pc \notin {"mismatch", "failed"}
  PROVE  Len(fifo) + Len(outgoing) <= (IF pc = "writing" THEN act ELSE setup.size)
<1>1. DeviceInv /\ AskInv /\ RequestInv /\ CountInv
  BY DEF WayInv
<1>2. /\ {Len(fifo), Len(usb), Len(host), Len(outgoing), Len(incoming), Len(back), setup.size} \subseteq Nat
      /\ {act, want, written, got} \subseteq Nat
  BY <1>1, Lengths DEF RequestInv
<1>3. Len(back) + (Len(fifo) + Len(outgoing)) <= Accepted
  <2>1. OnWay + Len(outgoing) <= Accepted
    BY <1>1 DEF CountInv, Sending
  <2>2. Accepted \in Nat
    BY <1>2 DEF Accepted
  <2> HIDE DEF Accepted
  <2> QED
    BY <1>2, <2>1, <2>2 DEF OnWay
<1>4. pc \in {"loop", "writing", "check", "reading", "done"}
  BY <1>1 DEF AskInv, RequestInv
<1> DEFINE total == Len(fifo) + Len(outgoing)
<1>5. total \in Nat
  BY <1>2
<1>6. CASE pc = "writing"
  <2>1. Len(back) = got /\ written = got /\ Accepted = written + act
    BY <1>1, <1>6 DEF BlockingInv, RequestInv, Accepted
  <2>2. written + total <= written + act
    BY <1>3, <2>1
  <2> HIDE DEF total
  <2>3. total <= act
    BY <1>2, <1>5, <2>2
  <2> QED
    BY <1>6, <2>3 DEF total
<1>7. CASE pc # "writing"
  <2>1. Accepted = written /\ Len(back) >= got
    <3>1. Len(back) = got \/ Len(back) = got + act
      BY <1>1, <1>4 DEF RequestInv
    <3> QED
      BY <1>2, <1>7, <3>1 DEF Accepted
  <2>2. written - got = 0 \/ written - got = setup.size
    BY <1>2, <1>4, <1>7 DEF BlockingInv
  <2>3. Len(back) + total <= written
    BY <1>3, <2>1
  <2> HIDE DEF total
  <2>4. total <= setup.size
    BY <1>2, <1>5, <2>1, <2>2, <2>3
  <2> QED
    BY <1>7, <2>4 DEF total
<1> QED
  BY <1>6, <1>7

\* There is room for the block the asynchronous driver sends.
LEMMA RoomToFlush ==
  ASSUME WayInv, FailInv, BlockingInv, AsyncRoom, MismatchExplained, ~dropped,
         setup.pico = "loopback", MayFlush
  PROVE  Len(fifo) + Len(outgoing) <= FifoSize
<1>1. DeviceInv /\ RequestInv /\ Async /\ ~broken /\ ~refill
  BY DEF WayInv, MayFlush
<1>2. /\ {Len(fifo), Len(outgoing), Len(incoming), extra, act, want} \subseteq Nat
      /\ {PayloadSize, FifoSize, setup.size} \subseteq Nat
      /\ Known \in Nat /\ Unknown \in Int /\ Due \in Nat /\ Len(outgoing) <= PayloadSize
  BY RoomNumbers
<1>3. 2 * setup.size <= FifoSize /\ setup.size + PayloadSize <= FifoSize
  BY <1>1, RoomAssumption DEF DeviceInv
<1>4. pc # "failed" /\ pc # "mismatch" /\ extra <= Len(fifo)
  <2>1. ~Astray /\ extra <= Len(fifo)
    BY <1>1, NothingAstray
  <2> QED
    BY <1>1, <2>1 DEF MismatchExplained, FailInv, Async, Basic
<1>5. pc = "writing" => act <= setup.size
  BY <1>1 DEF RequestInv
<1>6. CASE ~setup.serGet
  <2>1. Len(fifo) + Len(outgoing) <= (IF pc = "writing" THEN act ELSE setup.size)
    BY <1>1, <1>4, <1>6, OneMessage
  <2>2. Len(fifo) + Len(outgoing) <= setup.size
    BY <1>2, <1>5, <2>1
  <2> QED
    BY <1>2, <1>3, <2>2, Fits
<1>7. CASE setup.serGet
  <2>1. AsyncPolled
    BY <1>1, <1>7 DEF AsyncPolled, Polled
  <2>2. CASE pc = "reading"
    <3>1. Len(fifo) + Len(outgoing) <= 2 * setup.size
      BY <2>1, <2>2 DEF AsyncRoom, ReadRoom
    <3> QED
      BY <1>2, <1>3, <3>1, Fits
  <2>3. CASE pc # "reading" /\ incoming = <<>>
    <3>1. Len(fifo) <= setup.size + (IF refill THEN PayloadSize ELSE 0)
      BY <1>4, <2>1, <2>3 DEF AsyncRoom, IdleRoom
    <3>2. Len(fifo) <= setup.size
      BY <1>1, <1>2, <3>1
    <3> QED
      BY <1>2, <1>3, <3>2, Fits
  <2>4. CASE pc # "reading" /\ incoming # <<>>
    <3>1. Known > 0
      <4>1. Len(incoming) # 0
        BY <1>1, <2>4, EmptySeq DEF DeviceInv
      <4> QED
        BY <1>2, <4>1 DEF Known
    <3>2. extra <= setup.size /\ Unknown <= Due
      BY <1>4, <2>1, <2>4, <3>1 DEF AsyncRoom, IdleRoom
    <3>3. Due <= setup.size
      BY <1>2, <1>5 DEF Due
    <3>4. Len(fifo) + Len(outgoing) = Unknown + extra /\ Unknown \in Nat
      BY <1>2, <1>4 DEF Unknown
    <3>5. Unknown + extra <= 2 * setup.size
      <4> DEFINE u == Unknown
                 d == Due
      <4>1. {u, d, extra, setup.size} \subseteq Nat /\ u <= d /\ d <= setup.size /\ extra <= setup.size
        BY <1>2, <3>2, <3>3, <3>4
      <4> HIDE DEF u, d
      <4>2. u + extra <= 2 * setup.size
        BY <4>1
      <4> QED
        BY <4>2 DEF u
    <3> DEFINE f == Len(fifo)
               o == Len(outgoing)
    <3>6. {f, o} \subseteq Nat /\ f + o <= 2 * setup.size
      BY <1>2, <3>4, <3>5
    <3> HIDE DEF f, o
    <3>7. f + o <= FifoSize
      BY <1>2, <1>3, <3>6, Fits
    <3> QED
      BY <3>7 DEF f, o
  <2> QED
    BY <2>2, <2>3, <2>4
<1> QED
  BY <1>1, <1>6, <1>7 DEF DeviceInv

\* And for those of the Basic driver's request, unless a fetch of doStatus has failed.
LEMMA RoomToSend ==
  ASSUME WayInv, FailInv, BlockingInv, BasicRoom, setup.pico = "loopback",
         ~(setup.serGet /\ missed), Basic, pc = "writing", act < want
  PROVE  NextBlock \in Seq(Int) /\ Len(fifo) + Len(NextBlock) <= FifoSize
<1>1. DeviceInv /\ RequestInv
  BY DEF WayInv
<1>2. PICK n \in Nat : act + n <= want /\ Len(NextBlock) = n /\ NextBlock \in Seq(Int)
  BY <1>1, NextPart
<1>3. /\ {Len(fifo), Len(outgoing), Len(incoming), act, want} \subseteq Nat
      /\ {PayloadSize, FifoSize, setup.size} \subseteq Nat
  BY RoomNumbers
<1>4. 2 * setup.size <= FifoSize /\ want = setup.size
  BY <1>1, RoomAssumption DEF DeviceInv, RequestInv
<1>5. Len(fifo) <= setup.size + act
  <2>1. CASE ~setup.serGet
    <3>1. Len(fifo) + Len(outgoing) <= act
      BY <2>1, OneMessage DEF FailInv
    <3> QED
      BY <1>3, <3>1
  <2>2. CASE setup.serGet
    <3>1. Len(incoming) + Len(fifo) <= setup.size + Due /\ Due = act
      BY <2>2 DEF BasicRoom, BasicPolled, Polled, Due
    <3> QED
      BY <1>3, <3>1
  <2> QED
    BY <1>1, <2>1, <2>2 DEF DeviceInv
<1>6. Len(fifo) + n <= FifoSize
  BY <1>2, <1>3, <1>4, <1>5
<1> QED
  BY <1>2, <1>6

\* A block there is room for is not dropped.
LEMMA NoneDropped ==
  ASSUME WayInv, ~dropped, setup.pico = "loopback", NEW bytes \in Seq(Int), WriteBlock(bytes),
         Len(fifo) + Len(bytes) <= FifoSize
  PROVE  ~dropped'
<1>1. Sent(bytes)
  BY Sends DEF WayInv, DeviceInv
<1>2. {Len(fifo), Len(bytes), FifoSize} \subseteq Nat
  BY RoomNumbers
<1>3. ~(Len(fifo) + Len(bytes) > FifoSize)
  BY <1>2
<1> QED
  BY <1>1, <1>3 DEF Sent

\* There is room for what is sent, unless fetches of SerGetBuf have failed.
LEMMA ThereIsRoom ==
  ASSUME WayInv, FailInv, BlockingInv, AsyncRoom, BasicRoom, MismatchExplained, ~dropped,
         setup.pico = "loopback", ~(Basic /\ setup.serGet /\ missed), Next
  PROVE  ~dropped'
<1>1. CASE Flush \/ FlushFails
  <2>1. MayFlush /\ (WriteBlock(outgoing) \/ UNCHANGED dropped)
    BY <1>1 DEF Flush, FlushFails, NotHeard, lossVars
  <2>2. Len(fifo) + Len(outgoing) <= FifoSize /\ outgoing \in Seq(Int)
    BY <2>1, RoomToFlush DEF WayInv, DeviceInv
  <2> QED
    BY <2>1, <2>2, NoneDropped
<1>2. CASE BasicSend \/ BasicSendFails
  <2>1. Basic /\ pc = "writing" /\ act < want /\ (WriteBlock(NextBlock) \/ UNCHANGED dropped)
    BY <1>2 DEF BasicSend, BasicSendFails, NotHeard, lossVars
  <2>2. NextBlock \in Seq(Int) /\ Len(fifo) + Len(NextBlock) <= FifoSize
    BY <2>1, RoomToSend
  <2> QED
    BY <2>1, <2>2, NoneDropped
<1>3. CASE Fill \/ Accept \/ Take \/ RequestFails \/ BasicFetch \/ BasicMove \/ HostEchoes
  BY <1>3 DEF Fill, FillWith, ReadBlock, Accept, Take, RequestFails, BasicFetch, BasicMove, Move, HostEchoes,
     lossVars
<1>4. CASE Program
  BY <1>4 DEF Program, WriteMessage, WriteEnds, BlockingRead, AskAvail, AskActCount, AsyncGetBuf, BasicGetBuf,
     ReadBlock, ReadEnds, Ends, Unchanged, lossVars
<1>5. CASE FillFails \/ BasicFetchFails \/ GetBufFails
  BY <1>5 DEF FillFails, BasicFetchFails, GetBufFails, LosesReply, NotHeard, lossVars
<1> QED
  BY <1>1, <1>2, <1>3, <1>4, <1>5 DEF Next, Driver, TransferFails

\* A failed fetch is not forgotten.
LEMMA MissedStays ==
  ASSUME [Next]_vars, missed
  PROVE  missed'
<1>1. CASE GetBufFails
  <2>1. missed' = TRUE
    BY <1>1 DEF GetBufFails
  <2> QED
    BY <2>1, Zenon
<1>2. CASE ~GetBufFails
  BY <1>2 DEF Next, Driver, Program, TransferFails, Flush, Fill, FillWith, Accept, Take, RequestFails, BasicSend,
     BasicFetch, BasicMove, Move, HostEchoes, WriteMessage, WriteEnds, BlockingRead, AskAvail, AskActCount,
     AsyncGetBuf, BasicGetBuf, ReadEnds, Ends, FlushFails, FillFails, BasicSendFails, BasicFetchFails,
     Unchanged, NoRequest, askVars, vars
<1> QED
  BY <1>1, <1>2

\* No step changes the setup.
LEMMA SetupStays ==
  ASSUME [Next]_vars
  PROVE  UNCHANGED setup
BY DEF Next, Driver, Program, TransferFails, Flush, Fill, FillWith, Accept, Take, RequestFails, BasicSend,
   BasicFetch, BasicMove, Move, HostEchoes, WriteMessage, WriteEnds, BlockingRead, AskAvail, AskActCount,
   AsyncGetBuf, BasicGetBuf, ReadEnds, Ends, FlushFails, FillFails, BasicSendFails, BasicFetchFails, GetBufFails,
   Unchanged, NoRequest, vars

\* At the start nothing is on its way.
LEMMA RoomBegins ==
  ASSUME Init
  PROVE  FailInv /\ BlockingInv /\ AsyncRoom /\ BasicRoom /\ OverflowsOnFailedFetchOnly
<1>1. /\ pc = "loop" /\ written = got /\ ~dropped /\ incoming = <<>> /\ extra = 0 /\ fifo = <<>>
      /\ outgoing = <<>> /\ ~refill /\ ~broken /\ ~missed /\ losses = 0
  BY DEF Init
<1>2. FailInv /\ BlockingInv /\ OverflowsOnFailedFetchOnly
  BY <1>1 DEF FailInv, BlockingInv, OverflowsOnFailedFetchOnly, Astray
<1>3. setup.size \in Nat /\ PayloadSize \in Nat
  BY WayBegins, RoomNumbers
<1>4. ~(Known > 0) /\ Len(fifo) = 0 /\ Len(incoming) = 0
  BY <1>1 DEF Known
<1>5. IdleRoom
  BY <1>1, <1>3, <1>4 DEF IdleRoom
<1>6. Due = 0
  BY <1>1 DEF Due
<1>7. AsyncRoom
  BY <1>1, <1>5 DEF AsyncRoom
<1>8. Len(incoming) + Len(fifo) <= setup.size + Due
  BY <1>3, <1>4, <1>6
<1>9. BasicRoom
  BY <1>1, <1>8 DEF BasicRoom
<1> QED
  BY <1>2, <1>7, <1>9

\* The FIFO overflows only when the program uses SerGetBuf with the Basic driver, and
\* only after a fetch of its doStatus has failed: with blocking reads the benchmark never
\* has more than a message on its way, and with SerGetBuf no more than two, or one and a
\* block, of which the driver does not know of more than one.
THEOREM OnlyFailedFetchesOverflow == Spec => []OverflowsOnFailedFetchOnly
<1>1. Init => FailInv /\ BlockingInv /\ AsyncRoom /\ BasicRoom /\ OverflowsOnFailedFetchOnly
  BY RoomBegins
<1>2. WayInv /\ FailInv /\ [Next]_vars => FailInv'
  BY FailStep
<1>3. WayInv /\ BlockingInv /\ [Next]_vars => BlockingInv'
  BY BlockingStep
<1>4. WayInv /\ FailInv /\ AsyncRoom /\ [Next]_vars => AsyncRoom'
  BY AsyncRoomStep
<1>5. WayInv /\ FailInv /\ BasicRoom /\ [Next]_vars => BasicRoom'
  BY BasicRoomStep
<1>6. (/\ WayInv /\ WayInv' /\ FailInv /\ BlockingInv /\ AsyncRoom /\ BasicRoom /\ MismatchExplained
       /\ OverflowsOnFailedFetchOnly /\ [Next]_vars) => OverflowsOnFailedFetchOnly'
  <2> SUFFICES ASSUME WayInv, WayInv', FailInv, BlockingInv, AsyncRoom, BasicRoom, MismatchExplained,
                      OverflowsOnFailedFetchOnly, [Next]_vars, dropped'
               PROVE  Basic' /\ setup'.serGet /\ missed'
    BY DEF OverflowsOnFailedFetchOnly
  <2>1. UNCHANGED setup
    BY SetupStays
  <2>2. setup.pico = "loopback"
    BY <2>1 DEF WayInv, DeviceInv
  <2>3. Basic /\ setup.serGet /\ missed
    <3>1. CASE dropped
      BY <3>1 DEF OverflowsOnFailedFetchOnly
    <3>2. CASE ~dropped /\ Next
      BY <2>2, <3>2, ThereIsRoom
    <3>3. CASE ~dropped /\ UNCHANGED vars
      BY <3>3 DEF vars, lossVars
    <3> QED
      BY <3>1, <3>2, <3>3
  <2>4. missed'
    BY <2>3, MissedStays
  <2> QED
    BY <2>1, <2>3, <2>4 DEF Basic
<1> QED
  BY <1>1, <1>2, <1>3, <1>4, <1>5, <1>6, WayInvariant, MismatchIsExplained, PTL DEF Spec

===============================================================================
