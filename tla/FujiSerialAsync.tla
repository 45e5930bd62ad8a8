--------------------------- MODULE FujiSerialAsync ----------------------------
(* The asynchronous .Fuji serial driver: the Prime routine, the VBL task and    *)
(* the completion routines of FujiSerialAsync.c, after the driver was opened.   *)
(* Two threads of control run on the one processor: the main program ("main")   *)
(* and interrupt level ("intr": the VBL task, I/O completion and interrupt      *)
(* handlers).  Interrupts happen between any two steps of the main program and  *)
(* run to their end before it continues.  The Device Manager (request queues,   *)
(* IODone) and the file system below the driver are external.                   *)
EXTENDS Integers, Sequences, FiniteSets

CONSTANTS
  Drivers,      \* drivers that share the data handle: .Fuji, .AIn, .AOut, ...
  Reads,        \* read requests that programs make
  Writes,       \* write requests
  DriverOf,     \* the driver each request is made to
  ReqCount,     \* its ioReqCount
  AtInterrupt,  \* requests made by completion routines and interrupt handlers
  Blocking,     \* synchronous requests: the caller spins on ioResult
  Registered,   \* refNums in drvrInfo when the driver starts, in order
  Entries,      \* length of drvrInfo (7 in the code)
  PayloadSize,  \* payload bytes of a message block (500 in the code)
  MaxFed,       \* bound: how many bytes the device has for us in all
  MayFail,      \* whether transfers of message blocks may fail
  NoDriver,     \* refNum 0
  NoReq         \* a null parameter block pointer

Req == Reads \cup Writes
Ctx == {"main", "intr"}

ASSUME RequestsAssumption ==
  /\ Reads \cap Writes = {}
  /\ DriverOf \in [Req -> Drivers] /\ ReqCount \in [Req -> Nat]
  /\ AtInterrupt \subseteq Req /\ Blocking \subseteq Req \ AtInterrupt
ASSUME SentinelsAssumption == NoDriver \notin Drivers /\ NoReq \notin Req
ASSUME BoundsAssumption ==
  Entries \in Nat \ {0} /\ PayloadSize \in Nat \ {0} /\ MaxFed \in Nat /\ MayFail \in BOOLEAN
\* The table has room for all drivers and an empty entry that ends the scan.
ASSUME TableAssumption ==
  /\ Registered \in Seq(Drivers) /\ Len(Registered) < Entries
  /\ \A i, j \in 1..Len(Registered) : Registered[i] = Registered[j] => i = j
  /\ IsFiniteSet(Drivers) /\ Cardinality(Drivers) < Entries

VARIABLES
  \* struct FujiSerData
  mutex, inWakeUp, drvrInfo, readStorage, readData, readExtraAvail,
  writeStorage, writeData, sendLength, connResult, bytesRead, bytesWritten,
  \* the transfer in progress below the driver, and the device behind it
  flight, fed, fetched, sent, delivered,
  \* Device Manager: request queues and parameter blocks
  queue, ioResult, ioActCount,
  \* threads of control: where each is, the request and unit it serves, what
  \* doPrime will return, the entry it found, and the requests to start later
  pc, pb, dce, err, info, todo, scan, waiting

lockVars == <<mutex, inWakeUp>>
copyVars == <<readStorage, writeStorage, writeData, ioActCount, bytesRead, bytesWritten, delivered>>
connVars == <<readData, readExtraAvail, sendLength, connResult, flight, fed, fetched, sent>>
dmVars   == <<queue, ioResult>>
argVars  == <<pb, dce, err>>
vars == <<lockVars, copyVars, connVars, dmVars, argVars, drvrInfo, pc, info, todo, scan, waiting>>

NoEntry == [refNum |-> NoDriver, pendingPb |-> NoReq, pendingDce |-> NoDriver]

Init ==
  /\ mutex = FALSE /\ inWakeUp = FALSE
  /\ drvrInfo = [i \in 1..Entries |->
       IF i <= Len(Registered) THEN [NoEntry EXCEPT !.refNum = Registered[i]] ELSE NoEntry]
  /\ readStorage = [ioReqCount |-> 0, ioActCount |-> 0]
  /\ writeStorage = [ioReqCount |-> PayloadSize, ioActCount |-> 0]
  /\ readData = <<>> /\ readExtraAvail = 0 /\ writeData = <<>> /\ sendLength = 0
  /\ connResult = "noErr" /\ bytesRead = 0 /\ bytesWritten = 0
  /\ flight = "none" /\ fed = 0 /\ fetched = 0 /\ sent = <<>> /\ delivered = <<>>
  /\ queue = [d \in Drivers |-> <<>>]
  /\ ioResult = [r \in Req |-> "unissued"] /\ ioActCount = [r \in Req |-> 0]
  /\ pc = [c \in Ctx |-> "idle"]
  /\ pb = [c \in Ctx |-> NoReq] /\ dce = [c \in Ctx |-> NoDriver]
  /\ err = [c \in Ctx |-> "noErr"] /\ info = [c \in Ctx |-> 1]
  /\ todo = [c \in Ctx |-> <<>>] /\ scan = 1 /\ waiting = NoReq

\* The main program runs only while no interrupt is being serviced.
CanRun(c) == c = "main" => pc["intr"] = "idle"
At(c, l) == CanRun(c) /\ pc[c] = l
GoTo(c, l) == pc' = [pc EXCEPT ![c] = l]

-------------------------------------------------------------------------------
(* Device Manager *)

\* The unit's Prime routine is called with request r.
StartPrime(c, r, d) ==
  /\ GoTo(c, "enter")
  /\ pb' = [pb EXCEPT ![c] = r]
  /\ dce' = [dce EXCEPT ![c] = d]
  /\ err' = [err EXCEPT ![c] = "inProgress"]

\* A request is queued, and started when the unit has no other.
IssueRequest(c, r, otherwise) ==
  LET d == DriverOf[r] IN
  /\ ioResult[r] = "unissued"
  /\ ioResult' = [ioResult EXCEPT ![r] = "inProgress"]
  /\ queue' = [queue EXCEPT ![d] = Append(@, r)]
  /\ IF queue[d] = <<>> THEN StartPrime(c, r, d) ELSE GoTo(c, otherwise) /\ UNCHANGED argVars
  /\ UNCHANGED <<lockVars, copyVars, connVars, drvrInfo, info, todo, scan>>

MainIssues(r) ==
  /\ r \notin AtInterrupt
  /\ At("main", "idle") /\ waiting = NoReq
  /\ waiting' = (IF r \in Blocking THEN r ELSE NoReq)
  /\ IssueRequest("main", r, "idle")

\* The caller of a synchronous request spins until ioResult leaves 1.
MainAwakes ==
  /\ At("main", "idle") /\ waiting # NoReq
  /\ ioResult[waiting] # "inProgress"
  /\ waiting' = NoReq
  /\ UNCHANGED <<lockVars, copyVars, connVars, dmVars, argVars, drvrInfo, pc, info, todo, scan>>

InterruptIssues(r) ==
  /\ r \in AtInterrupt
  /\ pc["intr"] = "idle"
  /\ IssueRequest("intr", r, "idle")
  /\ UNCHANGED waiting

\* The completion routine of an asynchronous request makes another request.
CompletionIssues(c, r) ==
  /\ r \in AtInterrupt
  /\ At(c, "call") /\ pb[c] \notin Blocking
  /\ IssueRequest(c, r, "return")
  /\ UNCHANGED waiting

CompletionReturns(c) ==
  /\ At(c, "call") /\ GoTo(c, "return")
  /\ UNCHANGED <<lockVars, copyVars, connVars, dmVars, argVars, drvrInfo, info, todo, scan, waiting>>

\* IODone takes the unit's oldest request off the queue, whichever it is, stores
\* its result, calls its completion routine and then starts the next request.
IODone(c) ==
  LET d == dce[c] IN
  /\ At(c, "iodone") /\ queue[d] # <<>>
  /\ ioResult' = [ioResult EXCEPT ![Head(queue[d])] = err[c]]
  /\ queue' = [queue EXCEPT ![d] = Tail(@)]
  /\ todo' = [todo EXCEPT ![c] =
       IF Tail(queue[d]) = <<>> THEN @ ELSE <<Head(Tail(queue[d]))>> \o @]
  /\ GoTo(c, "call")
  /\ UNCHANGED <<lockVars, copyVars, connVars, argVars, drvrInfo, info, scan, waiting>>

\* Back from Prime: start a request left to start, go on with the scan, or stop.
Return(c) ==
  /\ At(c, "return")
  /\ IF todo[c] # <<>>
     THEN /\ StartPrime(c, Head(todo[c]), DriverOf[Head(todo[c])])
          /\ todo' = [todo EXCEPT ![c] = Tail(@)]
     ELSE /\ GoTo(c, IF c = "intr" /\ inWakeUp THEN "scan" ELSE "idle")
          /\ UNCHANGED <<argVars, todo>>
  /\ UNCHANGED <<lockVars, copyVars, connVars, dmVars, drvrInfo, info, scan, waiting>>

-------------------------------------------------------------------------------
(* doPrime *)

\* Variants named "mutant" here and below are not part of the model: each is a bug
\* that a property must notice when it takes the place of the definition after it.

\* mutant: the mutex is taken without looking whether it was free.
MayEnterAlways == TRUE

\* In a wake up the mutex is ours already; otherwise try to take it.
MayEnter == inWakeUp \/ ~mutex

\* mutant: a request that finds the mutex taken is not recorded.
EnterOrGiveUp(c) ==
  /\ At(c, "enter")
  /\ IF MayEnter
     THEN GoTo(c, "copy") /\ mutex' = (mutex \/ ~inWakeUp)
     ELSE GoTo(c, "result") /\ UNCHANGED mutex
  /\ UNCHANGED <<inWakeUp, copyVars, connVars, dmVars, argVars, drvrInfo, info, todo, scan, waiting>>

\* A request that finds the mutex taken is left for later.
Enter(c) ==
  /\ At(c, "enter")
  /\ IF MayEnter
     THEN GoTo(c, "copy") /\ mutex' = (mutex \/ ~inWakeUp)
     ELSE GoTo(c, "find") /\ UNCHANGED mutex
  /\ UNCHANGED <<inWakeUp, copyVars, connVars, dmVars, argVars, drvrInfo, info, todo, scan, waiting>>

\* mutant: the copy is not limited to what the destination has room for.
CopyCountUnlimited(src, dst) ==
  LET srcLeft == src.ioReqCount - src.ioActCount IN
  IF srcLeft < 0 \/ srcLeft > PayloadSize THEN 0 ELSE srcLeft

\* bufferCopy: how many bytes move.  Any counter that looks wrong stops the copy,
\* but the later limit to srcLeft is applied all the same.
CopyCount(src, dst) ==
  LET srcLeft == src.ioReqCount - src.ioActCount
      dstLeft == dst.ioReqCount - dst.ioActCount
      sane == /\ src.ioReqCount >= 0 /\ src.ioActCount >= 0 /\ srcLeft >= 0
              /\ dst.ioReqCount >= 0 /\ dst.ioActCount >= 0 /\ dstLeft >= 0
      wanted == IF sane THEN dstLeft ELSE 0
      count == IF wanted > srcLeft THEN srcLeft ELSE wanted
  IN IF count > PayloadSize THEN 0 ELSE count

PbSpec(r) == [ioReqCount |-> ReqCount[r], ioActCount |-> ioActCount[r]]

\* mutant: a request that is only partly served counts too.
AddToTotalsAlways(r, m) ==
  /\ bytesWritten' = (IF r \in Writes THEN bytesWritten + m ELSE bytesWritten)
  /\ bytesRead' = (IF r \in Reads THEN bytesRead + m ELSE bytesRead)

\* The statistics: ioActCount is m now.
AddToTotals(r, m) ==
  LET full == m = ReqCount[r] IN
  /\ bytesWritten' = (IF full /\ r \in Writes THEN bytesWritten + m ELSE bytesWritten)
  /\ bytesRead' = (IF full /\ r \in Reads THEN bytesRead + m ELSE bytesRead)

\* The prime routine's answer after the copy of n bytes.
CopyResult(c, n) ==
  LET r == pb[c]
      m == ioActCount[r] + n
      e == IF m = ReqCount[r] THEN "noErr" ELSE "inProgress"
  IN /\ ioActCount' = [ioActCount EXCEPT ![r] = m]
     /\ err' = [err EXCEPT ![c] = e]
     /\ GoTo(c, IF e = "noErr" THEN "result" ELSE "find")
     /\ AddToTotals(r, m)

CopyRead(c) ==
  LET n == CopyCount(readStorage, PbSpec(pb[c]))
      a == readStorage.ioActCount
  IN /\ pb[c] \in Reads /\ connResult = "noErr"
     /\ delivered' = delivered \o SubSeq(readData, a + 1, a + n)
     /\ readStorage' = [readStorage EXCEPT !.ioActCount = @ + n]
     /\ CopyResult(c, n)
     /\ UNCHANGED <<writeStorage, writeData>>

CopyWrite(c) ==
  LET r == pb[c]
      n == CopyCount(PbSpec(r), writeStorage)
  IN /\ r \in Writes /\ connResult = "noErr"
     /\ writeData' = SubSeq(writeData, 1, writeStorage.ioActCount)
                       \o [i \in 1..n |-> <<r, ioActCount[r] + i>>]
     /\ writeStorage' = [writeStorage EXCEPT !.ioActCount = @ + n]
     /\ CopyResult(c, n)
     /\ UNCHANGED <<readStorage, delivered>>

\* After an I/O error every request ends with that error.
CopyRefused(c) ==
  /\ connResult # "noErr"
  /\ err' = [err EXCEPT ![c] = connResult]
  /\ GoTo(c, IF connResult = "inProgress" THEN "find" ELSE "result")
  /\ UNCHANGED copyVars

\* The critical section of doPrime, up to the release of the mutex.
Copy(c) ==
  /\ At(c, "copy")
  /\ CopyRead(c) \/ CopyWrite(c) \/ CopyRefused(c)
  /\ mutex' = (mutex /\ inWakeUp)
  /\ UNCHANGED <<inWakeUp, connVars, dmVars, pb, dce, drvrInfo, info, todo, scan, waiting>>

\* getDriverInfo looks for the driver's entry, or else the first empty one ...
Find(c) ==
  /\ At(c, "find")
  /\ \E i \in 1..Entries :
       /\ drvrInfo[i].refNum \in {dce[c], NoDriver}
       /\ \A j \in 1..(i - 1) : drvrInfo[j].refNum \notin {dce[c], NoDriver}
       /\ info' = [info EXCEPT ![c] = i]
  /\ GoTo(c, "claim")
  /\ UNCHANGED <<lockVars, copyVars, connVars, dmVars, argVars, drvrInfo, todo, scan, waiting>>

\* ... and writes the refNum into it, found or not.
Claim(c) ==
  /\ At(c, "claim") /\ GoTo(c, "parkDce")
  /\ drvrInfo' = [drvrInfo EXCEPT ![info[c]].refNum = dce[c]]
  /\ UNCHANGED <<lockVars, copyVars, connVars, dmVars, argVars, info, todo, scan, waiting>>

ParkDce(c) ==
  /\ At(c, "parkDce") /\ GoTo(c, "parkPb")
  /\ drvrInfo' = [drvrInfo EXCEPT ![info[c]].pendingDce = dce[c]]
  /\ UNCHANGED <<lockVars, copyVars, connVars, dmVars, argVars, info, todo, scan, waiting>>

\* From here on a wake up may take the request.
ParkPb(c) ==
  /\ At(c, "parkPb") /\ GoTo(c, "result")
  /\ drvrInfo' = [drvrInfo EXCEPT ![info[c]].pendingPb = pb[c]]
  /\ UNCHANGED <<lockVars, copyVars, connVars, dmVars, argVars, info, todo, scan, waiting>>

\* pb->ioResult = err, and the assembly glue calls IODone when err <= 0.
Result(c) ==
  /\ At(c, "result")
  /\ ioResult' = [ioResult EXCEPT ![pb[c]] = err[c]]
  /\ GoTo(c, IF err[c] = "inProgress" THEN "return" ELSE "iodone")
  /\ UNCHANGED <<lockVars, copyVars, connVars, queue, argVars, drvrInfo, info, todo, scan, waiting>>

Prime(c) ==
  \/ Enter(c) \/ Copy(c) \/ Find(c) \/ Claim(c) \/ ParkDce(c) \/ ParkPb(c) \/ Result(c)
  \/ IODone(c) \/ CompletionReturns(c) \/ Return(c)

-------------------------------------------------------------------------------
(* Wake up: every driver in the table gets its suspended request primed again   *)

StartWakeUp ==
  /\ inWakeUp' = TRUE /\ mutex' = TRUE /\ scan' = 1
  /\ GoTo("intr", "scan")

InTable == scan \in 1..Entries

\* mutant: the wake up ends without the release.
ScanEndKeepingMutex ==
  /\ At("intr", "scan") /\ InTable /\ drvrInfo[scan].refNum = NoDriver
  /\ inWakeUp' = FALSE /\ UNCHANGED mutex
  /\ GoTo("intr", "idle")
  /\ UNCHANGED <<copyVars, connVars, dmVars, argVars, drvrInfo, info, todo, scan, waiting>>

ScanEnd ==
  /\ At("intr", "scan") /\ InTable /\ drvrInfo[scan].refNum = NoDriver
  /\ inWakeUp' = FALSE /\ mutex' = FALSE
  /\ GoTo("intr", "idle")
  /\ UNCHANGED <<copyVars, connVars, dmVars, argVars, drvrInfo, info, todo, scan, waiting>>

ScanSkip ==
  /\ At("intr", "scan") /\ InTable /\ drvrInfo[scan].refNum # NoDriver
  /\ drvrInfo[scan].pendingPb = NoReq
  /\ scan' = scan + 1
  /\ UNCHANGED <<lockVars, copyVars, connVars, dmVars, argVars, drvrInfo, pc, info, todo, waiting>>

\* mutant: pendingPb is not cleared.
ScanPrimeKeepingPb ==
  /\ At("intr", "scan") /\ InTable /\ drvrInfo[scan].refNum # NoDriver
  /\ drvrInfo[scan].pendingPb # NoReq
  /\ StartPrime("intr", drvrInfo[scan].pendingPb, drvrInfo[scan].pendingDce)
  /\ scan' = scan + 1
  /\ UNCHANGED <<lockVars, copyVars, connVars, dmVars, drvrInfo, info, todo, waiting>>

\* pendingPb is cleared before doPrime, which may set it again.
ScanPrime ==
  /\ At("intr", "scan") /\ InTable /\ drvrInfo[scan].refNum # NoDriver
  /\ drvrInfo[scan].pendingPb # NoReq
  /\ StartPrime("intr", drvrInfo[scan].pendingPb, drvrInfo[scan].pendingDce)
  /\ drvrInfo' = [drvrInfo EXCEPT ![scan].pendingPb = NoReq]
  /\ scan' = scan + 1
  /\ UNCHANGED <<lockVars, copyVars, connVars, dmVars, info, todo, waiting>>

-------------------------------------------------------------------------------
(* VBL task: with the mutex free it starts a write, a read or a wake up.  The   *)
(* mutex stays taken until the wake up that follows the transfer.               *)

ReadBufferEmpty == readStorage.ioActCount = readStorage.ioReqCount

StartTransfer(kind) == flight' = kind /\ connResult' = "inProgress"

\* emptyWriteBuffer: the message carries what is in the buffer now.
VBLFlush ==
  /\ pc["intr"] = "idle" /\ ~mutex /\ connResult = "noErr"
  /\ writeStorage.ioActCount > 0
  /\ mutex' = TRUE
  /\ sendLength' = writeStorage.ioActCount
  /\ StartTransfer("write")
  /\ UNCHANGED <<inWakeUp, copyVars, readData, readExtraAvail, fed, fetched, sent, dmVars, argVars,
                 drvrInfo, pc, info, todo, scan, waiting>>

VBLFill ==
  /\ pc["intr"] = "idle" /\ ~mutex /\ connResult = "noErr"
  /\ writeStorage.ioActCount <= 0 /\ ReadBufferEmpty
  /\ mutex' = TRUE
  /\ StartTransfer("read")
  /\ UNCHANGED <<inWakeUp, copyVars, readData, readExtraAvail, sendLength, fed, fetched, sent, dmVars,
                 argVars, drvrInfo, pc, info, todo, scan, waiting>>

VBLWake ==
  /\ pc["intr"] = "idle" /\ ~mutex
  /\ connResult = "noErr" => writeStorage.ioActCount <= 0 /\ ~ReadBufferEmpty
  /\ StartWakeUp
  /\ UNCHANGED <<copyVars, connVars, dmVars, argVars, drvrInfo, info, todo, waiting>>

VBLTask == VBLFlush \/ VBLFill \/ VBLWake

-------------------------------------------------------------------------------
(* Completion of the transfer of a message block                                *)

\* mutant: the buffer is not marked empty.
SentStorageUnchanged == writeStorage
SentStorage == [writeStorage EXCEPT !.ioActCount = 0]

\* emptyWriteBufDone: the device has the message; the buffer is free again, and
\* a read follows at once when there is nothing left to read.
WriteDone ==
  /\ pc["intr"] = "idle" /\ flight = "write"
  /\ sent' = sent \o SubSeq(writeData, 1, sendLength)
  /\ writeStorage' = SentStorage
  /\ IF ReadBufferEmpty
     THEN StartTransfer("read") /\ UNCHANGED <<lockVars, pc, scan>>
     ELSE flight' = "none" /\ connResult' = "noErr" /\ StartWakeUp
  /\ UNCHANGED <<readStorage, writeData, ioActCount, bytesRead, bytesWritten, delivered, readData,
                 readExtraAvail, sendLength, fed, fetched, dmVars, argVars, drvrInfo, info, todo, waiting>>

\* mutant: the bytes beyond the payload without the comparison.
ExtraAvailUnchecked(avail) == avail - PayloadSize
ExtraAvail(avail) == IF avail > PayloadSize THEN avail - PayloadSize ELSE 0
Carried(avail) == IF avail > PayloadSize THEN PayloadSize ELSE avail

\* fillReadBufDone: the reply carries up to PayloadSize bytes and says how many
\* the device had in all.
ReadDone ==
  LET avail == fed - fetched
      count == Carried(avail)
  IN /\ pc["intr"] = "idle" /\ flight = "read"
     /\ flight' = "none" /\ connResult' = "noErr"
     /\ readData' = [i \in 1..count |-> fetched + i]
     /\ readStorage' = [ioReqCount |-> count, ioActCount |-> 0]
     /\ readExtraAvail' = ExtraAvail(avail)
     /\ fetched' = fetched + count
     /\ StartWakeUp
     /\ UNCHANGED <<writeStorage, writeData, ioActCount, bytesRead, bytesWritten, delivered, sendLength,
                    fed, sent, dmVars, argVars, drvrInfo, info, todo, waiting>>

\* A failed transfer, or a reply with the wrong tag.  A write that failed may
\* nevertheless have reached the device, and the Pico takes the bytes of a reply from
\* its FIFO before the reply is on its way.
TransferFails ==
  /\ MayFail
  /\ pc["intr"] = "idle" /\ flight # "none"
  /\ flight' = "none" /\ connResult' = "ioErr"
  /\ \/ UNCHANGED <<sent, fetched>>
     \/ flight = "write" /\ sent' = sent \o SubSeq(writeData, 1, sendLength) /\ UNCHANGED fetched
     \/ flight = "read" /\ fetched' = fetched + Carried(fed - fetched) /\ UNCHANGED sent
  /\ StartWakeUp
  /\ UNCHANGED <<copyVars, readData, readExtraAvail, sendLength, fed, dmVars, argVars, drvrInfo,
                 info, todo, waiting>>

TransferEnds == WriteDone \/ ReadDone \/ TransferFails

\* The device has one more byte for us.
Feed ==
  /\ fed < MaxFed /\ fed' = fed + 1
  /\ UNCHANGED <<lockVars, copyVars, readData, readExtraAvail, sendLength, connResult, flight, fetched,
                 sent, dmVars, argVars, drvrInfo, pc, info, todo, scan, waiting>>

-------------------------------------------------------------------------------

Wake == ScanEnd \/ ScanSkip \/ ScanPrime

Next ==
  \/ \E r \in Req : MainIssues(r) \/ InterruptIssues(r)
  \/ \E c \in Ctx, r \in Req : CompletionIssues(c, r)
  \/ MainAwakes
  \/ \E c \in Ctx : Prime(c)
  \/ Wake \/ VBLTask \/ TransferEnds \/ Feed

Spec == Init /\ [][Next]_vars

\* Interrupt level always gets on; transfers end; a vertical retrace that could do
\* something comes; the main program is preempted again and again (every retrace)
\* and yet gets on, hence SF; the device says all it has to say.
Fairness ==
  /\ WF_vars(Prime("intr") \/ Wake) /\ WF_vars(TransferEnds)
  /\ WF_vars(VBLTask) /\ SF_vars(Prime("main"))
  /\ WF_vars(Feed)

FairSpec == Spec /\ Fairness

-------------------------------------------------------------------------------
(* Properties *)

Labels == {"idle", "enter", "copy", "find", "claim", "parkDce", "parkPb", "result",
           "iodone", "call", "return", "scan"}
Results == {"noErr", "inProgress", "ioErr"}
Storage == [ioReqCount : Int, ioActCount : Int]

\* Every variable has its type: struct FujiSerData, the Device Manager's queues and
\* parameter blocks, and the two threads' places in the code.
TypeOK ==
  /\ mutex \in BOOLEAN /\ inWakeUp \in BOOLEAN
  /\ drvrInfo \in [1..Entries -> [refNum : Drivers \cup {NoDriver}, pendingPb : Req \cup {NoReq},
                                  pendingDce : Drivers \cup {NoDriver}]]
  /\ readStorage \in Storage /\ writeStorage \in Storage
  /\ readData \in Seq(Nat) /\ readExtraAvail \in Nat
  /\ writeData \in Seq(Writes \X Nat) /\ sendLength \in Int
  /\ connResult \in Results
  /\ bytesRead \in Int /\ bytesWritten \in Int
  /\ flight \in {"none", "write", "read"}
  /\ fed \in 0..MaxFed /\ fetched \in 0..fed
  /\ sent \in Seq(Writes \X Nat) /\ delivered \in Seq(Nat)
  /\ queue \in [Drivers -> Seq(Req)]
  /\ ioResult \in [Req -> Results \cup {"unissued"}] /\ ioActCount \in [Req -> Int]
  /\ pc \in [Ctx -> Labels]
  /\ pb \in [Ctx -> Req \cup {NoReq}] /\ dce \in [Ctx -> Drivers \cup {NoDriver}]
  /\ err \in [Ctx -> Results]
  /\ info \in [Ctx -> 1..Entries] /\ todo \in [Ctx -> Seq(Req)]
  /\ scan \in 1..(Entries + 1) /\ waiting \in Req \cup {NoReq}

Queued(r) == \E i \in 1..Len(queue[DriverOf[r]]) : queue[DriverOf[r]][i] = r
Closed(r) == ioResult[r] # "unissued" /\ ~Queued(r)

\* The mutex bit means exactly that the main program is inside doPrime's critical
\* section, a transfer is in progress, or a wake up is running: one of the three.
\* (takeVblMutex, releaseVblMutex, and the release at the end of the wake up that
\* another routine's take is matched with.)
VblMutexExcludes ==
  LET inMain == pc["main"] = "copy"
      inIntr == pc["intr"] = "copy" /\ ~inWakeUp
      inFlight == flight # "none"
  IN /\ mutex <=> inMain \/ inIntr \/ inFlight \/ inWakeUp
     /\ ~(inMain /\ (inIntr \/ inFlight \/ inWakeUp))
     /\ ~(inIntr /\ (inFlight \/ inWakeUp))
     /\ ~(inFlight /\ inWakeUp)

\* The counters of the two buffers and of every request stay in range in spite of
\* the interrupts: bufferCopy's sanity checks never fire, and no byte outside a
\* buffer is touched.  A message on its way carries exactly what the buffer counts,
\* so nothing is dropped when the counter is reset.  (bufferCopy, emptyWriteBuffer,
\* emptyWriteBufDone, fillReadBufDone.)
SaneCounters ==
  /\ readStorage.ioReqCount = Len(readData) /\ Len(readData) <= PayloadSize
  /\ readStorage.ioActCount \in 0..readStorage.ioReqCount
  /\ writeStorage.ioReqCount = PayloadSize
  /\ writeStorage.ioActCount \in 0..PayloadSize /\ writeStorage.ioActCount <= Len(writeData)
  /\ \A r \in Req : ioActCount[r] \in 0..ReqCount[r]
  /\ flight = "write" => sendLength = writeStorage.ioActCount

\* Who answers for request r: a thread that is to copy or to park or to complete
\* it, an entry of the table that the scan reaches, or a thread that starts it later.
Running(c, r) ==
  /\ pb[c] = r
  /\ \/ pc[c] \in {"enter", "copy", "find", "claim", "parkDce", "parkPb"}
     \/ pc[c] \in {"result", "iodone"} /\ err[c] # "inProgress"
Recorded(i, r) ==
  /\ drvrInfo[i].pendingPb = r /\ drvrInfo[i].pendingDce = DriverOf[r]
  /\ \A j \in 1..i : drvrInfo[j].refNum # NoDriver
Keepers(r) ==
  Cardinality({c \in Ctx : Running(c, r)})
  + Cardinality({i \in 1..Entries : Recorded(i, r)})
  + Cardinality({k \in 1..Len(todo["main"]) : todo["main"][k] = r})
  + Cardinality({k \in 1..Len(todo["intr"]) : todo["intr"][k] = r})

\* No lost wake-up: the oldest request of every driver is in exactly one keeper's
\* hands, and no other request is.  Lost, it would block its driver for ever; kept
\* twice, it would be copied or completed twice.  (doPrime's record, the clearing of
\* pendingPb in the wake up, and IODone's start of the next request.)
OldestIsKeptOnce ==
  \A r \in Req : Keepers(r) =
    IF queue[DriverOf[r]] # <<>> /\ Head(queue[DriverOf[r]]) = r THEN 1 ELSE 0

\* IODone takes whatever heads the unit's queue: it must be the request that was
\* served, for the unit it was made to.  (ioIsComplete's dce is pendingDce.)
CompletesWhatItServed ==
  \A c \in Ctx : pc[c] = "iodone" =>
    dce[c] = DriverOf[pb[c]] /\ queue[dce[c]] # <<>> /\ Head(queue[dce[c]]) = pb[c]

SumOf(S, f) == LET g[T \in SUBSET S] ==
                     IF T = {} THEN 0 ELSE LET x == CHOOSE x \in T : TRUE IN f[x] + g[T \ {x}]
               IN g[S]

\* The statistics count each byte of each finished request once: no request that was
\* copied in full is primed again.  (bytesWritten, bytesRead in doPrime.)
StatsExact ==
  LET full(S) == SumOf({r \in S : ioActCount[r] = ReqCount[r]}, ioActCount)
  IN bytesWritten = full(Writes) /\ bytesRead = full(Reads)

\* A suspended request gets awoken, and so does its caller: once a request was
\* completed and left the queue, its ioResult never says "in progress" (again), on
\* which a synchronous caller would spin for ever.  (Violated: doPrime parks the
\* request first and then stores ioInProgress, and a wake up may come between.)
ResultIsFinal == \A r \in Req : Closed(r) => ioResult[r] # "inProgress"

\* Every request that a program makes leaves the queue in the end, with its bytes or
\* with an error, whatever it was suspended behind.  (fujiVBLTask, the completion
\* routines and wakeDriversAndReleaseMutex together.)
EveryRequestEnds == \A r \in Req : Queued(r) ~> Closed(r)

\* The abstract serial port.
Port == INSTANCE SerialPort WITH
  Capacity <- PayloadSize,
  status <- [r \in Req |-> IF ioResult[r] = "unissued" THEN "new"
                           ELSE IF Queued(r) THEN "open" ELSE "closed"],
  line <- queue,
  moved <- ioActCount,
  outgoing <- SubSeq(writeData, 1, writeStorage.ioActCount),
  incoming <- SubSeq(readData, readStorage.ioActCount + 1, readStorage.ioReqCount),
  taken <- delivered,
  broken <- connResult = "ioErr"

\* Bytes are accepted, sent, fetched and delivered once and in order, requests of a
\* driver are served in order, and after an error nothing is sent again.  (doPrime,
\* bufferCopy and the two completion routines, whatever preempts them.)
ImplementsSerialPort == Port!Spec

===============================================================================
