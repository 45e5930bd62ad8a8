------------------------------ MODULE FujiLoopback -----------------------------
(* From one end to the other and back: the benchmark of the test application    *)
(* (testSerialThroughput) writes messages to a serial driver and reads them     *)
(* back; the driver, which is either version of .Fuji, exchanges blocks with    *)
(* the Pico (MacNdev, its handshake done); and the Pico either loops the bytes  *)
(* back through its FIFO or passes them to the echo program on a USB host       *)
(* (mac_ndev_loopback.cpp).  The asynchronous driver is here at the grain of    *)
(* its transfers; FujiSerialAsync has its threads and its mutex.                *)
EXTENDS Integers, Sequences

CONSTANTS
  PayloadSize,  \* bytes a reply carries, and a message of the async driver (500)
  BlockSize,    \* bytes a message of the Basic driver carries (512)
  FifoSize,     \* capacity of the Pico's FIFO (2000)
  BufferSize,   \* kMesgBufSIze of the benchmark (2000)
  Sizes,        \* message sizes of the benchmark
  MaxWrites,    \* bound: messages written before the time is up
  MaxLosses     \* bound: times that bytes go astray

ASSUME LoopbackAssumption ==
  /\ Sizes \subseteq 1..BufferSize
  /\ {PayloadSize, BlockSize, FifoSize, BufferSize, MaxWrites} \subseteq Nat \ {0}
  /\ PayloadSize <= FifoSize /\ MaxLosses \in Nat
\* The longest message (768 bytes) is at most half of the FIFO, and what the FIFO can
\* hold fits the benchmark's buffer.  With a longer one the FIFO overflows.
ASSUME RoomAssumption ==
  /\ FifoSize <= BufferSize
  /\ \A s \in Sizes : 2 * s <= FifoSize /\ s + PayloadSize <= FifoSize

VARIABLES
  state, knock, drive, sector, fifo, usb, usbSent, put, io, heard, given,  \* MacNdev
  host,      \* bytes the echo program has not read yet
  setup,     \* which driver, which configuration of the Pico, useSerGet, messageSize
  outgoing,  \* writeData: bytes taken from the program
  incoming,  \* readData: bytes not yet moved to the program
  filled,    \* readStorage.ioReqCount: bytes that were in readData at first (async)
  extra,     \* readExtraAvail or readAvail: bytes left in the Pico
  refill,    \* a write has ended and a read follows in the same transfer
  broken,    \* conn.iopb.ioResult: a transfer of the async driver has failed
  pc,        \* where the benchmark is
  want, act, \* ioReqCount and ioActCount of its request
  sum,       \* what the async driver's doStatus has added up so far
  msg,       \* its buffer
  written, got, \* bytesWritten, bytesRead
  writes,    \* messages written
  timeUp,    \* the last time it looked, 20 seconds had passed
  back,      \* history: bytes moved to the program
  spanned,   \* history: a read has taken bytes from two blocks
  torn,      \* history: a fetch came between the last doStatus's reads
  missed,    \* history: a fetch of doStatus has failed
  dropped,   \* history: the FIFO has overflowed
  losses     \* history: how often bytes went astray: with a reply that was lost, with a
             \* failed write that the Pico may have got, or in a short write of the echo

Loop == INSTANCE MacNdev WITH
  Drives <- {1}, Sectors <- {0, 9}, NegativeLBA <- 99, KnockSeq <- <<0>>,
  Loopback <- TRUE, MaxUsb <- 0, Blocks <- {}
Usb == INSTANCE MacNdev WITH
  Drives <- {1}, Sectors <- {0, 9}, NegativeLBA <- 99, KnockSeq <- <<0>>,
  Loopback <- FALSE, MaxUsb <- 0, Blocks <- {}

picoVars  == <<state, knock, drive, sector, fifo, usb, usbSent, put, io, heard, given>>
driverVars == <<outgoing, incoming, filled, extra, refill, broken, spanned>>
callVars  == <<want, act, msg, back>>
askVars   == <<sum, torn, missed>>
testVars  == <<written, got, writes, timeUp>>
lossVars  == <<dropped, losses>>
vars == <<picoVars, host, setup, driverVars, pc, callVars, askVars, testVars, lossVars>>

Init ==
  /\ state = "magicSector" /\ knock = 0 /\ drive = 1 /\ sector = 9
  /\ fifo = <<>> /\ usb = <<>> /\ usbSent = 0 /\ put = <<>> /\ given = <<>>
  /\ io = Loop!NoAccess /\ heard = <<>>
  /\ setup \in [driver : {"async", "basic"}, pico : {"loopback", "usb"},
                serGet : BOOLEAN, size : Sizes]
  /\ host = <<>> /\ outgoing = <<>> /\ incoming = <<>> /\ filled = 0 /\ extra = 0
  /\ refill = FALSE /\ broken = FALSE
  /\ pc = "loop" /\ want = 0 /\ act = 0 /\ msg = <<>> /\ sum = 0
  /\ written = 0 /\ got = 0 /\ writes = 0 /\ timeUp = FALSE
  /\ back = <<>> /\ spanned = FALSE /\ torn = FALSE /\ missed = FALSE
  /\ dropped = FALSE /\ losses = 0

GoTo(l) == pc' = l
Async == setup.driver = "async"
Basic == setup.driver = "basic"

-------------------------------------------------------------------------------
(* Blocks and the Pico                                                          *)

Access(m, b) ==
  IF setup.pico = "loopback" THEN Loop!Access(1, 9, m, b) ELSE Usb!Access(1, 9, m, b)

\* mutant: bytes that were left once are left for ever.
ExtraKept(avail) == IF avail > PayloadSize THEN avail - PayloadSize ELSE extra
\* What a reply announces beyond the bytes it carries.
Extra(avail) == IF avail > PayloadSize THEN avail - PayloadSize ELSE 0

\* fujiReadInput, fillReadBufDone
ReadBlock ==
  /\ Access("read", Loop!OnDisk)
  /\ incoming' = io'.block.bytes /\ extra' = Extra(io'.block.avail)
  /\ UNCHANGED <<host, lossVars>>

WriteBlock(bytes) ==
  /\ Access("write", Loop!Request(bytes))
  /\ host' = host \o put'
  /\ dropped' = (dropped \/ (setup.pico = "loopback" /\ Len(fifo) + Len(bytes) > FifoSize))

Astray == losses > 0
Lose == losses < MaxLosses /\ losses' = losses + 1

\* A transfer fails before the Pico has heard of it.
NotHeard == UNCHANGED <<picoVars, host, lossVars>>

\* A read fails, or its reply has the wrong tag: the Pico may have taken the bytes of
\* the reply from its FIFO, and they are gone.
LosesReply ==
  \/ NotHeard
  \/ /\ Access("read", Loop!OnDisk)
     /\ IF io'.block.bytes = <<>> THEN UNCHANGED losses ELSE Lose
     /\ UNCHANGED <<host, dropped>>

\* The echo program reads what has come, and writes it back; when the write is short
\* it only says so.
HostEchoes ==
  /\ host # <<>>
  /\ \E n \in 1..Len(host), k \in 0..Len(host) :
       /\ k <= n
       /\ usb' = usb \o SubSeq(host, 1, k) /\ host' = SubSeq(host, n + 1, Len(host))
       /\ IF k = n THEN UNCHANGED losses ELSE Lose
  /\ UNCHANGED <<state, knock, drive, sector, fifo, usbSent, put, io, heard, given>>
  /\ UNCHANGED <<setup, driverVars, pc, callVars, askVars, testVars, dropped>>

-------------------------------------------------------------------------------
(* The asynchronous driver.  A transfer excludes the program's request from the *)
(* buffers (the VBL mutex), also the read that follows a write.  A failed one   *)
(* is the last, whenever it comes: at its next request the program learns of it.*)

\* The transfer of the write buffer or into the read buffer begins and ends here.
MayFlush == Async /\ ~broken /\ ~refill /\ outgoing # <<>>
MayFill == Async /\ ~broken /\ incoming = <<>> /\ (refill \/ outgoing = <<>>)

NoRequest == UNCHANGED <<setup, pc, callVars, testVars>>

\* mutant: the write buffer is not emptied.
FlushKeeping ==
  /\ MayFlush /\ WriteBlock(outgoing) /\ refill' = (incoming = <<>>)
  /\ UNCHANGED <<outgoing, incoming, filled, extra, broken, spanned, askVars, losses>> /\ NoRequest
\* mutant: no read follows the write.
FlushOnly ==
  /\ MayFlush /\ WriteBlock(outgoing) /\ outgoing' = <<>>
  /\ UNCHANGED <<incoming, filled, extra, refill, broken, spanned, askVars, losses>> /\ NoRequest
\* emptyWriteBuffer and its completion
Flush ==
  /\ MayFlush /\ WriteBlock(outgoing) /\ outgoing' = <<>> /\ refill' = (incoming = <<>>)
  /\ UNCHANGED <<incoming, filled, extra, broken, spanned, askVars, losses>> /\ NoRequest

\* The bytes stay in the write buffer, and the Pico may have them, too.
FlushFails ==
  /\ MayFlush /\ broken' = TRUE
  /\ \/ NotHeard
     \/ WriteBlock(outgoing) /\ Lose
  /\ UNCHANGED <<outgoing, incoming, filled, extra, refill, spanned, askVars>> /\ NoRequest

FillWith(guard) ==
  /\ guard /\ ReadBlock /\ filled' = Len(incoming') /\ refill' = FALSE
  /\ torn' = (torn \/ pc \in {"actCount", "avail"})
  /\ UNCHANGED <<outgoing, broken, spanned, sum, missed>> /\ NoRequest

\* mutant: the VBL task does not poll.
FillAfterWrite == FillWith(MayFill /\ refill)
\* mutant: it polls with bytes in the read buffer.
FillOver == FillWith(Async /\ ~broken /\ (refill \/ outgoing = <<>>))
\* fillReadBuffer and its completion: right after a write, or when the VBL task
\* finds nothing to write.
Fill == FillWith(MayFill)

FillFails ==
  /\ MayFill /\ LosesReply /\ broken' = TRUE /\ refill' = FALSE
  /\ UNCHANGED <<outgoing, incoming, filled, extra, spanned, askVars>> /\ NoRequest

\* mutant: the room in the write buffer is not looked at.
AcceptUnlimited ==
  /\ Async /\ pc = "writing" /\ ~broken /\ ~refill /\ act < want
  /\ outgoing' = outgoing \o SubSeq(msg, act + 1, want) /\ act' = want
  /\ UNCHANGED <<picoVars, host, setup, incoming, filled, extra, refill, broken, spanned, pc, want, msg, back>>
  /\ UNCHANGED <<askVars, testVars, lossVars>>
\* doPrime and bufferCopy: the next bytes of the request, as many as there is room for.
Accept ==
  LET n == Loop!Min2(want - act, PayloadSize - Len(outgoing)) IN
  /\ Async /\ pc = "writing" /\ ~broken /\ ~refill /\ n > 0
  /\ outgoing' = outgoing \o SubSeq(msg, act + 1, act + n) /\ act' = act + n
  /\ UNCHANGED <<picoVars, host, setup, incoming, filled, extra, refill, broken, spanned, pc, want, msg, back>>
  /\ UNCHANGED <<askVars, testVars, lossVars>>

\* The next n bytes go to the program's buffer behind the first at bytes.
Move(n, at) ==
  /\ n > 0
  /\ msg' = [i \in 1..Len(msg) |-> IF i - at \in 1..n THEN incoming[i - at] ELSE msg[i]]
  /\ act' = act + n /\ back' = back \o SubSeq(incoming, 1, n)
  /\ incoming' = SubSeq(incoming, n + 1, Len(incoming))
  /\ spanned' = (spanned \/ act > 0)
  /\ UNCHANGED <<picoVars, host, setup, outgoing, filled, extra, refill, broken, pc, want, askVars, testVars,
                 lossVars>>

\* mutant: the bytes go to the start of the buffer.
TakeToStart ==
  Async /\ pc = "reading" /\ ~broken /\ ~refill /\ Move(Loop!Min2(want - act, Len(incoming)), 0)
Take ==
  Async /\ pc = "reading" /\ ~broken /\ ~refill /\ Move(Loop!Min2(want - act, Len(incoming)), act)

\* A request that is not served yet ends with the error, and the benchmark with it.
RequestFails ==
  /\ Async /\ broken /\ pc \in {"writing", "reading"} /\ act < want
  /\ GoTo("failed")
  /\ UNCHANGED <<picoVars, host, setup, driverVars, callVars, askVars, testVars, lossVars>>

-------------------------------------------------------------------------------
(* The Basic driver: doPrime runs to the end of the request, or to an error.    *)

NextBlock == LET n == Loop!Min2(want - act, BlockSize) IN SubSeq(msg, act + 1, act + n)

BasicSend ==
  /\ Basic /\ pc = "writing" /\ act < want
  /\ WriteBlock(NextBlock) /\ act' = act + Len(NextBlock)
  /\ UNCHANGED <<setup, driverVars, pc, want, msg, back, askVars, testVars, losses>>

BasicSendFails ==
  /\ Basic /\ pc = "writing" /\ act < want
  /\ NotHeard \/ (WriteBlock(NextBlock) /\ UNCHANGED losses)
  /\ GoTo("failed")
  /\ UNCHANGED <<setup, driverVars, callVars, askVars, testVars>>

BasicFetch ==
  /\ Basic /\ pc = "reading" /\ act < want /\ incoming = <<>>
  /\ ReadBlock
  /\ UNCHANGED <<outgoing, filled, refill, broken, spanned, setup, pc, callVars, askVars, testVars>>

BasicFetchFails ==
  /\ Basic /\ pc = "reading" /\ act < want /\ incoming = <<>>
  /\ LosesReply /\ GoTo("failed")
  /\ UNCHANGED <<driverVars, setup, callVars, askVars, testVars>>

\* BlockMove goes to ioBuffer, which is not advanced.
BasicMove ==
  Basic /\ pc = "reading" /\ Move(Loop!Min2(want - act, Len(incoming)), 0)

-------------------------------------------------------------------------------
(* testSerialThroughput, one message size                                       *)

Unchanged == UNCHANGED <<picoVars, host, setup, driverVars, lossVars>>

\* PBWrite.  The clock was read just before.
WriteMessage ==
  /\ pc = "loop" /\ ~timeUp
  /\ timeUp' \in IF writes + 1 = MaxWrites THEN {TRUE} ELSE BOOLEAN
  /\ writes' = writes + 1
  /\ msg' = [i \in 1..setup.size |-> written + i] /\ want' = setup.size /\ act' = 0
  /\ GoTo("writing") /\ Unchanged /\ UNCHANGED <<back, askVars, written, got>>

WriteEnds ==
  /\ pc = "writing" /\ act = want
  /\ written' = written + act
  /\ GoTo("check") /\ Unchanged /\ UNCHANGED <<callVars, askVars, got, writes, timeUp>>

\* PBRead of n bytes.  BENCH_CLEAR_MESSAGES is 0: the buffer keeps what was written.
StartRead(n) ==
  /\ want' = Loop!Min2(n, BufferSize) /\ act' = 0
  /\ msg' = [i \in 1..want' |-> IF i <= Len(msg) THEN msg[i] ELSE 0]
  /\ GoTo("reading") /\ UNCHANGED back

\* All that was written is read back.
BlockingRead ==
  /\ pc = "check" \/ (pc = "loop" /\ timeUp)
  /\ written # got /\ ~setup.serGet
  /\ StartRead(written - got)
  /\ Unchanged /\ UNCHANGED <<askVars, testVars>>

\* SerGetBuf.  The async driver's doStatus reads ioReqCount, then ioActCount, then
\* readExtraAvail, and nothing keeps a transfer from ending between two of them.
AskAvail ==
  /\ pc = "check" \/ (pc = "loop" /\ timeUp)
  /\ written # got /\ setup.serGet
  /\ sum' = filled /\ torn' = FALSE
  /\ GoTo(IF Async THEN "actCount" ELSE "avail")
  /\ Unchanged /\ UNCHANGED <<callVars, missed, testVars>>

ActCount == filled - Len(incoming)

AskActCount ==
  /\ pc = "actCount" /\ sum' = sum - ActCount /\ GoTo("avail")
  /\ Unchanged /\ UNCHANGED <<callVars, torn, missed, testVars>>

\* SerGetBuf has answered: read as much, or try again later.
ReadAvail(n) ==
  /\ pc = "avail" /\ sum' = 0
  /\ \/ n = 0 /\ GoTo("loop") /\ UNCHANGED callVars
     \/ n # 0 /\ StartRead(n)
  /\ UNCHANGED <<torn, testVars>>

AsyncGetBuf == Async /\ ReadAvail(sum + extra) /\ Unchanged /\ UNCHANGED missed

\* The Basic driver fetches when it has nothing ...
BasicGetBuf ==
  /\ Basic
  /\ IF incoming = <<>>
     THEN ReadBlock /\ UNCHANGED <<outgoing, filled, refill, broken, spanned, setup>>
     ELSE Unchanged
  /\ ReadAvail(Len(incoming') + extra')
  /\ UNCHANGED missed

\* ... ignores an error, and answers from what it knew.
GetBufFails ==
  /\ Basic /\ incoming = <<>> /\ LosesReply
  /\ missed' = TRUE /\ ReadAvail(extra)
  /\ UNCHANGED <<driverVars, setup>>

\* The message is compared with what was written.
ReadEnds ==
  /\ pc = "reading" /\ act = want
  /\ IF \A j \in 1..act : msg[j] = got + j
     THEN got' = got + act /\ GoTo("loop")
     ELSE UNCHANGED got /\ GoTo("mismatch")
  /\ Unchanged /\ UNCHANGED <<callVars, askVars, written, writes, timeUp>>

Ends ==
  /\ pc = "check" \/ (pc = "loop" /\ timeUp)
  /\ written = got
  /\ GoTo("done") /\ Unchanged /\ UNCHANGED <<callVars, askVars, testVars>>

Driver == Flush \/ Fill \/ Accept \/ Take \/ RequestFails \/ BasicSend \/ BasicFetch \/ BasicMove
Program ==
  \/ WriteMessage \/ WriteEnds \/ BlockingRead \/ AskAvail \/ AskActCount \/ AsyncGetBuf
  \/ BasicGetBuf \/ ReadEnds \/ Ends
TransferFails == FlushFails \/ FillFails \/ BasicSendFails \/ BasicFetchFails \/ GetBufFails

Next == Driver \/ Program \/ HostEchoes \/ TransferFails

\* The VBL task runs, transfers end, and the program and its echo go on.  A request
\* of the asynchronous driver may find the buffers busy again and again, but not for
\* ever, nor does every fetch of the Basic driver's doStatus fail.
Fairness ==
  /\ WF_vars(Flush) /\ WF_vars(Fill) /\ SF_vars(Accept) /\ SF_vars(Take) /\ WF_vars(RequestFails)
  /\ WF_vars(BasicSend) /\ WF_vars(BasicFetch) /\ WF_vars(BasicMove)
  /\ WF_vars(Program) /\ SF_vars(BasicGetBuf) /\ WF_vars(HostEchoes)

Spec == Init /\ [][Next]_vars /\ Fairness

-------------------------------------------------------------------------------
(* Properties *)

\* Types, and buffers within their arrays.
TypeOK ==
  /\ Len(fifo) <= FifoSize /\ Len(outgoing) <= PayloadSize /\ Len(incoming) <= PayloadSize
  /\ extra \in 0..(FifoSize - PayloadSize)
  /\ filled \in 0..PayloadSize /\ sum \in 0..PayloadSize
  /\ act \in 0..want /\ want <= BufferSize /\ Len(msg) = want
  /\ got \in 0..written /\ writes <= MaxWrites
  /\ pc \in {"loop", "writing", "check", "actCount", "avail", "reading", "mismatch", "done", "failed"}

\* All that is on its way from one end to the other and back.  What is left in the
\* write buffer after an error is not: it is never sent.
Line == back \o incoming \o fifo \o usb \o host \o (IF broken THEN <<>> ELSE outgoing)

\* Whatever fails, overflows, or is written short: no byte is on its way twice, and
\* none overtakes another or comes back before an earlier one that is still to come.
\* (The reset of the write buffer, fifoPutData, fifoGetData, bufferCopy, BlockMove.)
OnceAndInOrder == \A i, j \in 1..Len(Line) : i < j => Line[i] < Line[j]

\* Every byte the driver has taken is somewhere between the two ends: in the
\* program's hands again, in either buffer of the driver, in the FIFO, or with the
\* USB host.  None is missing unless the FIFO has overflowed, a transfer failed that
\* the Pico had acted on, or the echo program wrote less than it had read.
NothingLost ==
  LET whole == back \o incoming \o fifo \o usb \o host \o outgoing
  IN ~dropped /\ ~Astray => Len(whole) >= written /\ whole = [i \in 1..Len(whole) |-> i]

\* "Data verification error": the comparison finds a difference only after bytes were
\* lost in one of these ways, or when the Basic driver served one request from two
\* blocks.  (SerialTests.c:315; the Basic driver writes both to the start of the buffer.)
MismatchExplained == pc = "mismatch" => dropped \/ Astray \/ (Basic /\ spanned)

\* The FIFO does not overflow: with blocking reads the benchmark never has more on its
\* way than it holds; with SerGetBuf it goes on writing while there is nothing to read,
\* but the read that follows each write makes the async driver know of what came back,
\* and the Basic driver asks.  Only after a fetch of the Basic driver's doStatus has
\* failed, which it answers with 0, can it pile up.
\* (SerialTests.c:258, emptyWriteBufDone, fifoPutData.)
OverflowsOnFailedFetchOnly == dropped => Basic /\ setup.serGet /\ missed

\* What SerGetBuf answers is there to be read: a read of that many bytes does not
\* wait for the network.  A fetch between doStatus's reads can make the answer too
\* large, but by no more than the buffer that was read before.
\* (readExtraAvail counts bytes the driver has not fetched.)
SerGetBufIsTrue ==
  pc = "reading" /\ setup.serGet /\ ~Astray =>
    want - act <= Len(incoming) + Len(fifo) + Len(usb) + (IF torn THEN PayloadSize ELSE 0)

\* After an error of a background transfer, nobody tells a benchmark that only asks.
AsksForEver == broken /\ timeUp /\ setup.serGet /\ incoming = <<>> /\ extra = 0

\* The benchmark ends, unless what it waits for was lost, a transfer of the async
\* driver failed while it only asks, or an answer that was too large makes it read
\* what does not come.
BenchmarkEnds ==
  \/ <>(pc \in {"done", "failed", "mismatch"} \/ dropped \/ Astray \/ AsksForEver)
  \/ <>[](pc = "reading" /\ torn)

===============================================================================
