----------------------- MODULE FujiSerialControl_proofs -----------------------
(* Proofs about the driver while ports are opened, asked for their status and    *)
(* killed: the mutex still excludes, and no request is lost or completed in the  *)
(* place of another unless one is killed, for any number of drivers and requests. *)
EXTENDS FujiSerialControl, FujiSerialAsync_requests

USE DEF Ctx

\* The other entry points go between the driver's own steps.
LEMMA StepsOfControl ==
  ASSUME [ControlNext]_<<vars, controlVars>>
  PROVE  ([Next]_vars /\ UNCHANGED killed) \/ Open \/ \E d \in Drivers : KillIO(d)
<1>1. CASE IO
  <2>1. Interrupts \/ Program
    BY <1>1 DEF IO
  <2>2. Next
    BY <2>1 DEF Interrupts, Program, Next
  <2> QED
    BY <1>1, <2>2 DEF IO
<1>2. CASE Status
  <2>1. UNCHANGED <<vars, killed>>
    BY <1>2 DEF Status, StatusReadsReqCount, StatusReadsActCount, StatusReturns, StatusStep
  <2> QED
    BY <2>1
<1>3. CASE UNCHANGED <<vars, controlVars>>
  BY <1>3 DEF controlVars
<1> QED
  BY <1>1, <1>2, <1>3 DEF ControlNext

\* Opening a port while a transfer is in flight, whatever it does to the connection's
\* result, never lets two use the buffers at once: doOpen does not touch the mutex.
\* That ioResult is 1 during a transfer, which the driver relies on nowhere else, is
\* no part of the invariant, since doOpen ends it.
THEOREM MutexSurvivesOpen == ControlSpec => []OpenKeepsMutex
<1>1. ControlInit => OwnerTypes /\ OwnerInv
  <2> SUFFICES ASSUME ControlInit PROVE OwnerTypes /\ OwnerInv
    OBVIOUS
  <2>1. mutex = FALSE /\ inWakeUp = FALSE /\ flight = "none" /\ pc = [c \in Ctx |-> "idle"]
    BY DEF ControlInit, Init
  <2> QED
    BY <2>1 DEF OwnerTypes, OwnerInv, VblMutexExcludes, Labels
<1>2. OwnerTypes /\ OwnerInv /\ [ControlNext]_<<vars, controlVars>> => OwnerTypes' /\ OwnerInv'
  <2> SUFFICES ASSUME OwnerTypes, OwnerInv, [ControlNext]_<<vars, controlVars>>
               PROVE  OwnerTypes' /\ OwnerInv'
    OBVIOUS
  <2>1. CASE [Next]_vars
    BY <2>1, StepOwnerTypes, StepOwnerInv
  <2>2. CASE Open \/ \E d \in Drivers : KillIO(d)
    <3>1. UNCHANGED <<mutex, inWakeUp, pc, flight>>
      BY <2>2 DEF Open, OpenClearsError, OpenResetsReadReqCount, OpenResetsReadActCount,
         OpenResetsWriteActCount, OpenStep, KillIO, lockVars, connVars
    <3> QED
      BY <3>1 DEF OwnerTypes, OwnerInv, VblMutexExcludes
  <2> QED
    BY <2>1, <2>2, StepsOfControl
<1>3. OwnerInv => OpenKeepsMutex
  BY DEF OwnerInv, OpenKeepsMutex
<1> QED
  BY <1>1, <1>2, <1>3, PTL DEF ControlSpec

\* What doOpen, doStatus and KillIO leave alone keeps its types and the requests'
\* invariant as long as nothing is killed.
WorkVars == <<mutex, inWakeUp, flight, dmVars, argVars, drvrInfo, pc, info, todo, scan, waiting>>

LEMMA WorkStays ==
  ASSUME WorkInv, KInv, UNCHANGED WorkVars, connResult' \in Results
  PROVE  WorkInv' /\ KInv'
<1> USE DEF WorkVars, dmVars, argVars
<1>1. WorkInv'
  BY DEF WorkInv, OwnerTypes, OwnerInv, VblMutexExcludes, RequestTypes, ResultTypes, ArgsInv
<1>2. QueueInv' /\ TableInv'
  BY DEF KInv, QueueInv, TableInv
<1>3. FoundInv' /\ EnteredInv' /\ ServeInv'
  BY DEF KInv, FoundInv, EnteredInv, Entered, ServeInv
<1>4. KeptOnce'
  BY DEF KInv, KeptOnce, Oldest, Running, Left, Parked
<1> QED
  BY <1>1, <1>2, <1>3, <1>4 DEF KInv

\* As long as no request is killed, none is lost and none is completed in the place of
\* another, however often ports are opened and asked for their status while requests
\* are parked: doOpen resets the buffers and leaves drvrInfo alone.
THEOREM OnlyKillIOMixes ==
  ASSUME FirstUseAtMain PROVE ControlSpec => []OnlyKillIOMixesRequests
<1> DEFINE Inv == killed = {} => WorkInv /\ KInv
<1>1. ControlInit => Inv
  BY InitIInv, WorkIsPart, InitKInv DEF ControlInit
<1>2. Inv /\ [ControlNext]_<<vars, controlVars>> => Inv'
  <2> SUFFICES ASSUME Inv, [ControlNext]_<<vars, controlVars>>, killed' = {} PROVE WorkInv' /\ KInv'
    OBVIOUS
  <2>1. CASE [Next]_vars /\ UNCHANGED killed
    <3>1. WorkInv /\ KInv
      BY <2>1
    <3>2. WorkInv'
      BY <2>1, <3>1, StepOwnerTypes, StepOwnerInv, StepRequestTypes, StepArgsInv, StepResultTypes DEF WorkInv
    <3> QED
      BY <2>1, <3>1, <3>2, StepKInv
  <2>2. CASE Open
    <3>1. UNCHANGED <<WorkVars, killed>> /\ connResult' \in {connResult, "noErr"}
      BY <2>2 DEF Open, OpenClearsError, OpenResetsReadReqCount, OpenResetsReadActCount,
         OpenResetsWriteActCount, OpenStep, lockVars, connVars, WorkVars
    <3>2. connResult' \in Results
      BY <3>1 DEF WorkInv, RequestTypes, Results
    <3> QED
      BY <3>1, <3>2, WorkStays
  <2>3. ASSUME NEW d \in Drivers, KillIO(d) PROVE FALSE
    <3>1. queue[d] # <<>> /\ killed = {} /\ InQueue(d) = {}
      BY <2>3 DEF KillIO
    <3>2. queue[d] \in Seq(Req)
      BY <2>3, <3>1 DEF WorkInv, RequestTypes
    <3>3. 1 \in DOMAIN queue[d]
      BY <3>1, <3>2
    <3> QED
      BY <3>1, <3>3 DEF InQueue
  <2> QED
    BY <2>1, <2>2, <2>3, StepsOfControl
<1>3. Inv => OnlyKillIOMixesRequests
  BY OldestKept, CompletesServed DEF OnlyKillIOMixesRequests
<1> QED
  BY <1>1, <1>2, <1>3, PTL DEF ControlSpec

-------------------------------------------------------------------------------
(* The invariant about buffers *)

\* The types of the requests and the threads; a killed request has abortErr.
HeldInv ==
  /\ OwnerTypes /\ OwnerInv /\ RequestTypes /\ ArgsInv
  /\ ioResult \in [Req -> Results \cup {"unissued", "abortErr"}]

\* Where doOpen and doStatus are: never in both, and a message is on its way while a
\* port is opened to get over an error only after a race.
CallInv ==
  /\ raced \in BOOLEAN /\ opens \in 0..MaxOpens /\ killed \subseteq Req
  /\ opening \in [at : {"none", "readReqCount", "readActCount", "writeActCount"}, was : Results]
  /\ status \in [at : {"none", "actCount", "extraAvail"}, sum : Int, torn : BOOLEAN]
  /\ status.at # "none" => opening = NotOpening
  /\ opening.was = "ioErr" /\ ~raced => flight # "write"

\* The write buffer's counter stays in its buffer and no write request's passes its
\* end, whatever is raced: a port is opened between messages, or the message on its
\* way has what the counter said.
WriteSane ==
  /\ writeStorage.ioReqCount = PayloadSize
  /\ writeStorage.ioActCount \in 0..PayloadSize /\ writeStorage.ioActCount <= Len(writeData)
  /\ \A r \in Writes : ioActCount[r] \in 0..ReqCount[r]
  /\ flight = "write" =>
       sendLength \in 0..Len(writeData) /\ writeStorage.ioActCount \in {0, sendLength}

BufferInv ==
  /\ readStorage \in Storage /\ writeStorage \in Storage /\ ioActCount \in [Req -> Int]
  /\ flight \in {"none", "write", "read"}
  /\ fed \in Nat /\ fetched \in 0..fed /\ readExtraAvail \in Nat
  /\ readData \in Seq(Nat) /\ Len(readData) <= PayloadSize /\ writeData \in Seq(Writes \X Nat)
  /\ connResult = "ioErr" => flight = "none"
  /\ WriteSane

\* What the last good reply announced beyond its own bytes the device still has, but
\* for a reply that was lost since.
LostInv == replyLost \in BOOLEAN /\ (~replyLost => readExtraAvail + fetched <= fed)

ControlInv == HeldInv /\ CallInv /\ BufferInv /\ LostInv

\* Without a race: the read buffer's counters are in their buffer unless doOpen is
\* between its two assignments, and what is left in the buffer comes after all that
\* was delivered.
ReadCounters(a, e, at) ==
  /\ a >= 0 /\ e \in 0..Len(readData)
  /\ a <= e \/ at = "readActCount"
  /\ at = "readActCount" => e = 0 \/ a = 0
  /\ \A i \in 1..Len(delivered), j \in (a + 1)..e : delivered[i] < readData[j]
  /\ Len(delivered) + e - a <= fetched
Increasing(s) == \A i, j \in 1..Len(s) : i < j => s[i] < s[j]
ReadInv ==
  /\ ReadCounters(readStorage.ioActCount, readStorage.ioReqCount, opening.at)
  /\ \A r \in Req : ioActCount[r] \in 0..ReqCount[r]
  /\ delivered \in Seq(Nat) /\ Len(delivered) <= fetched
  /\ Increasing(readData) /\ Increasing(delivered)
  /\ \A i \in 1..Len(readData) : readData[i] <= fetched
  /\ \A i \in 1..Len(delivered) : delivered[i] <= fetched

\* Without a race: what the first k bytes of the write buffer are was not sent yet.
\* It holds of what counts in the buffer, unless a transfer has failed and doOpen has
\* not emptied the buffer yet, and of a message on its way.
Rising(s) == \A i, j \in 1..Len(s) : i < j /\ s[i][1] = s[j][1] => s[i][2] < s[j][2]
Moved(s) == \A i \in 1..Len(s) : s[i][2] <= ioActCount[s[i][1]]
Fresh(k) ==
  \A i \in 1..Len(sent), j \in 1..k : sent[i][1] = writeData[j][1] => sent[i][2] < writeData[j][2]
WriteInv ==
  /\ sent \in Seq(Writes \X Nat)
  /\ Rising(sent) /\ Moved(sent) /\ Rising(writeData) /\ Moved(writeData)
  /\ connResult # "ioErr" /\ opening.was # "ioErr" => Fresh(writeStorage.ioActCount)
  /\ flight = "write" => Fresh(sendLength)

\* doStatus's sum is what it would be now, unless a counter changed under it.
SumInv ==
  ~status.torn =>
    /\ status.at = "actCount" => status.sum = readStorage.ioReqCount
    /\ status.at = "extraAvail" => status.sum = readStorage.ioReqCount - readStorage.ioActCount

\* And after a change it is still put together from counters that were in the buffer.
SumBound ==
  ~raced =>
    /\ status.at = "actCount" => status.sum \in 0..PayloadSize
    /\ status.at = "extraAvail" => status.sum \in (0 - PayloadSize)..PayloadSize

-------------------------------------------------------------------------------
(* Steps *)

bufferVars == <<readStorage, writeStorage, writeData, ioActCount, delivered, readData, readExtraAvail,
                sendLength, connResult, flight, fed, fetched, sent>>

\* What each step of the driver does to the buffers.
LEMMA BufferSteps ==
  ASSUME [Next]_vars
  PROVE  \/ UNCHANGED bufferVars
         \/ \E c \in Ctx : Copy(c) /\ (CopyRead(c) \/ CopyWrite(c))
         \/ VBLFlush \/ VBLFill \/ WriteDone \/ ReadDone \/ TransferFails \/ Feed
<1>1. UNCHANGED <<copyVars, connVars>> => UNCHANGED bufferVars
  BY DEF copyVars, connVars, bufferVars
<1>2. ASSUME NEW r \in Req, NEW c \in Ctx, MainIssues(r) \/ InterruptIssues(r) \/ CompletionIssues(c, r)
      PROVE  UNCHANGED bufferVars
  BY <1>1, <1>2 DEF MainIssues, InterruptIssues, CompletionIssues, IssueRequest
<1>3. ASSUME NEW c \in Ctx, Prime(c), ~Copy(c) PROVE UNCHANGED bufferVars
  BY <1>1, <1>3 DEF Prime, Enter, Find, Claim, ParkDce, ParkPb, Result, IODone, CompletionReturns, Return
<1>4. ASSUME NEW c \in Ctx, Copy(c), CopyRefused(c) PROVE UNCHANGED bufferVars
  BY <1>1, <1>4 DEF Copy, CopyRefused
<1>5. CASE MainAwakes \/ Wake \/ VBLWake \/ UNCHANGED vars
  BY <1>1, <1>5 DEF MainAwakes, Wake, ScanEnd, ScanSkip, ScanPrime, VBLWake, vars
<1> QED
  BY <1>2, <1>3, <1>4, <1>5 DEF Next, VBLTask, TransferEnds, Copy

\* A step of the driver, and the history variables with it: raced is set by the two
\* races, and torn when a counter changes under doStatus.
DriverStep ==
  /\ [Next]_vars /\ UNCHANGED <<opens, opening, killed>>
  /\ raced' = (raced \/ Races)
  /\ replyLost' = (IF flight = "read" /\ flight' = "none"
                   THEN connResult' = "ioErr" /\ (replyLost \/ fetched' # fetched) ELSE replyLost)
  /\ status.at = "none" => status' = status
  /\ status' = status \/ status' = [status EXCEPT !.torn = TRUE]
  /\ status' = status => status.at = "none" \/ status.torn \/ UNCHANGED <<readStorage, readExtraAvail>>

LEMMA Steps ==
  ASSUME [ControlNext]_<<vars, controlVars>>, CallInv
  PROVE  \/ IO /\ DriverStep
         \/ Open
         \/ UNCHANGED <<vars, opens, opening, killed, raced, replyLost>> /\ (Status \/ UNCHANGED status)
         \/ UNCHANGED <<lockVars, copyVars, connVars, argVars, drvrInfo, pc, info, todo, scan, waiting,
                        opens, opening, status, raced, replyLost>> /\ \E d \in Drivers : KillIO(d)
<1>1. CASE IO
  <2>1. [Next]_vars
    BY <1>1 DEF IO, Interrupts, Program, Next
  <2> DEFINE Torn == status.torn \/ readStorage' # readStorage \/ readExtraAvail' # readExtraAvail
  <2>2. status' = IF status.at = "none" THEN status ELSE [status EXCEPT !.torn = Torn]
    BY <1>1 DEF IO
  <2>3. Torn \in BOOLEAN /\ status.torn \in BOOLEAN
        /\ status = [status EXCEPT !.torn = status.torn]
    BY DEF CallInv
  <2>4. CASE Torn
    <3>1. Torn = TRUE
      BY <2>3, <2>4
    <3>2. status.at = "none" \/ status' = [status EXCEPT !.torn = TRUE]
      BY <2>2, <3>1
    <3>3. status' = status /\ status.at # "none" => status.torn
      BY <2>3, <3>2 DEF CallInv
    <3> HIDE DEF Torn
    <3> QED
      BY <1>1, <2>1, <2>2, <3>2, <3>3 DEF IO, DriverStep
  <2>5. CASE ~Torn
    <3>1. status' = status
      BY <2>2, <2>3, <2>5
    <3> QED
      BY <1>1, <2>1, <2>5, <3>1 DEF IO, DriverStep
  <2> QED
    BY <2>4, <2>5
<1>2. CASE Status
  BY <1>2 DEF Status, StatusReadsReqCount, StatusReadsActCount, StatusReturns, StatusStep
<1>3. ASSUME NEW d \in Drivers, KillIO(d)
      PROVE  UNCHANGED <<lockVars, copyVars, connVars, argVars, drvrInfo, pc, info, todo, scan, waiting,
                         opens, opening, status, raced, replyLost>>
  BY <1>3 DEF KillIO
<1>4. CASE UNCHANGED <<vars, controlVars>>
  BY <1>4 DEF controlVars
<1> QED
  BY <1>1, <1>2, <1>3, <1>4 DEF ControlNext

\* The types of what is queued, held and parked.
LEMMA StepHeldInv == HeldInv /\ CallInv /\ [ControlNext]_<<vars, controlVars>> => HeldInv'
<1> SUFFICES ASSUME HeldInv, CallInv, [ControlNext]_<<vars, controlVars>> PROVE HeldInv'
  OBVIOUS
<1> USE DEF HeldInv
<1>1. CASE [Next]_vars
  <2>1. Results \subseteq Results \cup {"unissued", "abortErr"}
    OBVIOUS
  <2>2. ioResult' \in [Req -> Results \cup {"unissued", "abortErr"}]
    BY <1>1, <2>1, StepResults
  <2> QED
    BY <1>1, <2>2, StepOwnerTypes, StepOwnerInv, StepRequestTypes, StepArgsInv
<1>2. CASE Open
  <2>1. UNCHANGED WorkVars /\ connResult' \in {connResult, "noErr"}
    BY <1>2 DEF Open, OpenClearsError, OpenResetsReadReqCount, OpenResetsReadActCount,
       OpenResetsWriteActCount, OpenStep, lockVars, connVars, WorkVars
  <2> QED
    BY <2>1 DEF WorkVars, dmVars, argVars, OwnerTypes, OwnerInv, VblMutexExcludes, RequestTypes, Results,
       ArgsInv
<1>3. ASSUME NEW d \in Drivers, KillIO(d) PROVE HeldInv'
  <2>1. /\ queue' = [queue EXCEPT ![d] = <<>>]
        /\ ioResult' = [r \in Req |-> IF r \in InQueue(d) THEN "abortErr" ELSE ioResult[r]]
        /\ UNCHANGED <<lockVars, connVars, argVars, drvrInfo, pc, info, todo, scan, waiting>>
    BY <1>3 DEF KillIO
  <2>2. queue' \in [Drivers -> Seq(Req)]
    BY <2>1 DEF RequestTypes
  <2> QED
    BY <2>1, <2>2 DEF lockVars, connVars, argVars, OwnerTypes, OwnerInv, VblMutexExcludes, RequestTypes,
       ArgsInv
<1>4. CASE UNCHANGED vars
  BY <1>1, <1>4
<1> QED
  BY <1>1, <1>2, <1>3, <1>4, Steps DEF DriverStep

\* A message on its way was started when nothing was being opened, or it is a race.
LEMMA StepCallInv == HeldInv /\ CallInv /\ BufferInv /\ [ControlNext]_<<vars, controlVars>> => CallInv'
<1> SUFFICES ASSUME HeldInv, CallInv, BufferInv, [ControlNext]_<<vars, controlVars>> PROVE CallInv'
  OBVIOUS
<1>1. CASE IO /\ DriverStep
  <2>1. /\ UNCHANGED <<opens, opening, killed>> /\ raced' \in BOOLEAN
    BY <1>1 DEF DriverStep, CallInv, Races
  <2>2. /\ status' \in [at : {"none", "actCount", "extraAvail"}, sum : Int, torn : BOOLEAN]
        /\ status'.at = status.at
    BY <1>1 DEF DriverStep, CallInv
  <2>3. opening.was = "ioErr" /\ ~raced' => flight' # "write"
    <3>1. ~raced' => ~raced /\ ~Races
      BY <1>1 DEF DriverStep
    <3>2. flight' = "write" => flight \in {"none", "write"}
      <4>1. VBLFlush => flight = "none"
        BY DEF VBLFlush, HeldInv, OwnerInv, VblMutexExcludes, BufferInv
      <4>2. [Next]_vars
        BY <1>1 DEF DriverStep
      <4> QED
        BY <4>1, <4>2, BufferSteps DEF VBLFill, WriteDone, ReadDone, TransferFails, Feed,
           StartTransfer, Copy, connVars, bufferVars
    <3> QED
      BY <3>1, <3>2 DEF CallInv, Races
  <2> QED
    BY <2>1, <2>2, <2>3 DEF CallInv
<1>2. CASE Open
  <2>1. CASE OpenClearsError
    <3>1. status = NoStatus /\ opens < MaxOpens
          /\ opening' = [at |-> "readReqCount", was |-> connResult] /\ opens' = opens + 1
          /\ UNCHANGED <<flight, status, killed, raced>>
      BY <2>1 DEF OpenClearsError, MayCall, MainIsFree
    <3>2. connResult \in Results /\ opens' \in 0..MaxOpens
      BY <3>1, OpensAssumption DEF HeldInv, RequestTypes, CallInv
    <3> QED
      BY <3>1, <3>2 DEF CallInv, NoStatus, BufferInv
  <2>2. ASSUME NEW at \in {"readReqCount", "readActCount", "writeActCount"},
               NEW then \in {"none", "readActCount", "writeActCount"}, OpenStep(at, then)
        PROVE  CallInv'
    <3>1. /\ opening' = NotOpening \/ opening' = [opening EXCEPT !.at = then]
          /\ opening.at # "none" /\ UNCHANGED <<flight, status, killed, raced, opens>>
      BY <2>2 DEF OpenStep, connVars
    <3>2. status.at = "none"
      BY <3>1 DEF CallInv, NotOpening
    <3> QED
      BY <3>1, <3>2 DEF CallInv, NotOpening, Results
  <2> QED
    BY <1>2, <2>1, <2>2 DEF Open, OpenResetsReadReqCount, OpenResetsReadActCount, OpenResetsWriteActCount
<1>3. CASE UNCHANGED <<vars, opens, opening, killed, raced>> /\ (Status \/ UNCHANGED status)
  <2>1. UNCHANGED <<flight, opens, opening, killed, raced>>
    BY <1>3 DEF vars, connVars
  <2>2. CASE UNCHANGED status
    BY <2>1, <2>2 DEF CallInv
  <2>3. CASE StatusReadsReqCount
    <3>1. opening = NotOpening /\ status' = [NoStatus EXCEPT !.at = "actCount", !.sum = readStorage.ioReqCount]
      BY <2>3 DEF StatusReadsReqCount, StatusStep, MayCall, MainIsFree
    <3>2. readStorage.ioReqCount \in Int
      BY DEF BufferInv, Storage
    <3> QED
      BY <2>1, <3>1, <3>2 DEF CallInv, NoStatus
  <2>4. CASE StatusReadsActCount
    <3>1. status.at # "none"
          /\ status' = [status EXCEPT !.at = "extraAvail", !.sum = status.sum - readStorage.ioActCount]
      BY <2>4 DEF StatusReadsActCount, StatusStep
    <3>2. readStorage.ioActCount \in Int
      BY DEF BufferInv, Storage
    <3>3. status' \in [at : {"none", "actCount", "extraAvail"}, sum : Int, torn : BOOLEAN]
      <4>1. status.sum - readStorage.ioActCount \in Int
        BY <3>2 DEF CallInv
      <4> QED
        BY <3>1, <4>1 DEF CallInv
    <3> QED
      BY <2>1, <3>1, <3>3 DEF CallInv
  <2>5. CASE StatusReturns
    BY <2>1, <2>5 DEF StatusReturns, StatusStep, CallInv, NoStatus
  <2> QED
    BY <1>3, <2>2, <2>3, <2>4, <2>5 DEF Status
<1>4. ASSUME NEW d \in Drivers, KillIO(d), UNCHANGED <<connVars, opens, opening, status, raced>> PROVE CallInv'
  <2>1. InQueue(d) \subseteq Req /\ killed' = killed \cup InQueue(d)
    BY <1>4 DEF KillIO, InQueue, HeldInv, RequestTypes
  <2> QED
    BY <1>4, <2>1 DEF CallInv, connVars
<1> QED
  BY <1>1, <1>2, <1>3, <1>4, Steps

\* A copy for a read: n bytes, a number of any sign when the counters are wrong, and
\* one within both counters' ranges when they are right.
LEMMA CopyReadIs ==
  ASSUME ControlInv, NEW c \in Ctx, Copy(c), CopyRead(c)
  PROVE  \E r \in Reads, n \in Int :
           /\ pc[c] = "copy" /\ r = pb[c] /\ connResult = "noErr"
           /\ n = CopyCount(readStorage, PbSpec(r))
           /\ readStorage' = [ioReqCount |-> readStorage.ioReqCount,
                              ioActCount |-> readStorage.ioActCount + n]
           /\ ioActCount' = [ioActCount EXCEPT ![r] = ioActCount[r] + n]
           /\ delivered' = delivered \o SubSeq(readData, readStorage.ioActCount + 1, readStorage.ioActCount + n)
           /\ UNCHANGED <<writeStorage, writeData, connVars>>
<1> DEFINE r == pb[c]
           n == CopyCount(readStorage, PbSpec(pb[c]))
<1>1. readStorage \in Storage /\ r \in Reads /\ ReqCount[r] \in Nat /\ ioActCount[r] \in Int
  BY RequestsAssumption DEF CopyRead, ControlInv, BufferInv, Req
<1>2. n \in Int
  BY <1>1, BoundsAssumption DEF CopyCount, PbSpec, Storage
<1> HIDE DEF n
<1>3. readStorage' = [ioReqCount |-> readStorage.ioReqCount, ioActCount |-> readStorage.ioActCount + n]
  BY <1>1 DEF CopyRead, Storage, n
<1> QED
  BY <1>1, <1>2, <1>3 DEF Copy, CopyRead, CopyResult, At, n

LEMMA ReadCountIsRight ==
  ASSUME ControlInv, ReadInv, opening.at # "readActCount", NEW r \in Req
  PROVE  /\ CopyCount(readStorage, PbSpec(r)) \in Nat
         /\ CopyCount(readStorage, PbSpec(r)) <= readStorage.ioReqCount - readStorage.ioActCount
         /\ CopyCount(readStorage, PbSpec(r)) <= ReqCount[r] - ioActCount[r]
<1>1. /\ PbSpec(r) \in Storage /\ PbSpec(r).ioReqCount = ReqCount[r] /\ PbSpec(r).ioActCount = ioActCount[r]
      /\ PbSpec(r).ioActCount \in 0..PbSpec(r).ioReqCount
  BY RequestsAssumption DEF PbSpec, Storage, ControlInv, BufferInv, ReadInv
<1>2. readStorage \in Storage /\ readStorage.ioActCount \in 0..readStorage.ioReqCount
  BY DEF ControlInv, BufferInv, ReadInv, ReadCounters, Storage
<1> QED
  BY <1>1, <1>2, CopyCountBounds

\* A copy for a write is always within its ranges.
LEMMA CopyWriteIs ==
  ASSUME ControlInv, NEW c \in Ctx, Copy(c), CopyWrite(c)
  PROVE  \E r \in Writes, n \in Nat, new \in Seq(Writes \X Nat) :
           /\ connResult = "noErr" /\ flight = "none"
           /\ n <= ReqCount[r] - ioActCount[r] /\ n <= PayloadSize - writeStorage.ioActCount
           /\ ioActCount[r] \in Nat /\ ReqCount[r] \in Nat
           /\ writeStorage' = [ioReqCount |-> PayloadSize, ioActCount |-> writeStorage.ioActCount + n]
           /\ ioActCount' = [ioActCount EXCEPT ![r] = ioActCount[r] + n]
           /\ writeData' = SubSeq(writeData, 1, writeStorage.ioActCount) \o new
           /\ Len(new) = n /\ \A i \in 1..n : new[i] = <<r, ioActCount[r] + i>>
           /\ UNCHANGED <<readStorage, delivered, connVars>>
<1> DEFINE r == pb[c]
           n == CopyCount(PbSpec(pb[c]), writeStorage)
           new == [i \in 1..n |-> <<r, ioActCount[r] + i>>]
<1>1. /\ writeStorage \in Storage /\ r \in Writes /\ r \in Req /\ ReqCount[r] \in Nat
      /\ ioActCount[r] \in 0..ReqCount[r] /\ ioActCount[r] \in Nat
      /\ writeStorage.ioReqCount = PayloadSize /\ writeStorage.ioActCount \in 0..PayloadSize
  <2>1. r \in Writes /\ r \in Req
    BY DEF CopyWrite, Req
  <2>2. ReqCount[r] \in Nat
    BY <2>1, RequestsAssumption
  <2> QED
    BY <2>1, <2>2 DEF ControlInv, BufferInv, WriteSane
<1>2. /\ PbSpec(r) \in Storage /\ PbSpec(r).ioReqCount = ReqCount[r] /\ PbSpec(r).ioActCount = ioActCount[r]
  BY <1>1 DEF PbSpec, Storage
<1>3. n \in Nat /\ n <= ReqCount[r] - ioActCount[r] /\ n <= PayloadSize - writeStorage.ioActCount
  BY <1>1, <1>2, CopyCountBounds
<1>4. flight = "none"
  BY DEF Copy, At, ControlInv, HeldInv, OwnerInv, VblMutexExcludes, BufferInv
<1> HIDE DEF n
<1>5. writeStorage' = [ioReqCount |-> PayloadSize, ioActCount |-> writeStorage.ioActCount + n]
  BY <1>1 DEF CopyWrite, Storage, n
<1>6. new \in Seq(Writes \X Nat) /\ Len(new) = n /\ \A i \in 1..n : new[i] = <<r, ioActCount[r] + i>>
  <2>1. \A i \in 1..n : <<r, ioActCount[r] + i>> \in Writes \X Nat
    BY <1>1, <1>3
  <2> HIDE DEF r
  <2> QED
    BY <1>3, <2>1
<1>7. /\ connResult = "noErr"
      /\ ioActCount' = [ioActCount EXCEPT ![r] = ioActCount[r] + n]
      /\ writeData' = SubSeq(writeData, 1, writeStorage.ioActCount) \o new
      /\ UNCHANGED <<readStorage, delivered, connVars>>
  BY DEF Copy, CopyWrite, CopyResult, n
<1> HIDE DEF r, new
<1> QED
  BY <1>1, <1>3, <1>4, <1>5, <1>6, <1>7

\* The buffers' types, and the write buffer's counter.
LEMMA StepBufferInv == ControlInv /\ [ControlNext]_<<vars, controlVars>> => BufferInv'
<1> SUFFICES ASSUME ControlInv, [ControlNext]_<<vars, controlVars>> PROVE BufferInv'
  OBVIOUS
<1> USE DEF BufferInv, WriteSane
<1>0. BufferInv /\ CallInv
  BY DEF ControlInv
<1>w. ASSUME writeStorage' = [writeStorage EXCEPT !.ioActCount = 0]
      PROVE  /\ writeStorage' \in Storage /\ writeStorage'.ioReqCount = PayloadSize
             /\ writeStorage'.ioActCount = 0 /\ 0 \in 0..PayloadSize /\ 0 <= Len(writeData)
  <2>1. writeStorage' = [ioReqCount |-> PayloadSize, ioActCount |-> 0] /\ PayloadSize \in Nat
    BY <1>0, <1>w, BoundsAssumption DEF Storage
  <2> QED
    BY <1>0, <2>1 DEF Storage
<1>1. CASE UNCHANGED bufferVars
  BY <1>0, <1>1 DEF bufferVars
<1>2. ASSUME NEW c \in Ctx, Copy(c), CopyRead(c) PROVE BufferInv'
  <2>1. PICK r \in Reads, n \in Int :
           /\ readStorage' = [ioReqCount |-> readStorage.ioReqCount,
                              ioActCount |-> readStorage.ioActCount + n]
           /\ ioActCount' = [ioActCount EXCEPT ![r] = ioActCount[r] + n]
           /\ UNCHANGED <<writeStorage, writeData, connVars>>
    BY <1>2, CopyReadIs
  <2>2. readStorage' \in Storage
    BY <1>0, <2>1 DEF Storage
  <2>3. r \in Req /\ \A q \in Writes : q \in Req /\ q # r
    BY RequestsAssumption DEF Req
  <2>4. ioActCount' \in [Req -> Int] /\ \A q \in Writes : ioActCount'[q] = ioActCount[q]
    BY <1>0, <2>1, <2>3
  <2> QED
    BY <1>0, <2>1, <2>2, <2>4 DEF connVars
<1>3. ASSUME NEW c \in Ctx, Copy(c), CopyWrite(c) PROVE BufferInv'
  <2>1. PICK r \in Writes, n \in Nat, new \in Seq(Writes \X Nat) :
           /\ flight = "none"
           /\ n <= ReqCount[r] - ioActCount[r] /\ n <= PayloadSize - writeStorage.ioActCount
           /\ ioActCount[r] \in Nat /\ ReqCount[r] \in Nat
           /\ writeStorage' = [ioReqCount |-> PayloadSize, ioActCount |-> writeStorage.ioActCount + n]
           /\ ioActCount' = [ioActCount EXCEPT ![r] = ioActCount[r] + n]
           /\ writeData' = SubSeq(writeData, 1, writeStorage.ioActCount) \o new
           /\ Len(new) = n
           /\ UNCHANGED <<readStorage, connVars>>
    BY <1>3, CopyWriteIs
  <2> DEFINE a == writeStorage.ioActCount
  <2>2. a \in Nat /\ a <= PayloadSize /\ a <= Len(writeData) /\ writeData \in Seq(Writes \X Nat)
        /\ PayloadSize \in Nat
    BY <1>0, BoundsAssumption
  <2>3. SubSeq(writeData, 1, a) \in Seq(Writes \X Nat) /\ Len(SubSeq(writeData, 1, a)) = a
    BY <2>2
  <2> HIDE DEF a
  <2>4. writeData' \in Seq(Writes \X Nat) /\ Len(writeData') = a + n
    BY <2>1, <2>3 DEF a
  <2>5. writeStorage' \in Storage /\ writeStorage'.ioReqCount = PayloadSize /\ writeStorage'.ioActCount = a + n
    BY <2>1, <2>2 DEF Storage, a
  <2>6. ioActCount' \in [Req -> Int] /\ \A q \in Writes : ioActCount'[q] \in 0..ReqCount[q]
    <3>1. r \in Req
      BY DEF Req
    <3>2. ioActCount \in [Req -> Int] /\ \A q \in Writes : q \in Req /\ ioActCount[q] \in 0..ReqCount[q]
      BY <1>0 DEF Req
    <3>3. ioActCount[r] + n \in 0..ReqCount[r]
      BY <2>1
    <3> QED
      BY <2>1, <3>1, <3>2, <3>3
  <2>7. writeStorage'.ioActCount \in 0..PayloadSize /\ writeStorage'.ioActCount <= Len(writeData')
    <3>1. n <= PayloadSize - a
      BY <2>1 DEF a
    <3>2. a + n \in 0..PayloadSize
      BY <2>2, <3>1
    <3> QED
      BY <2>2, <2>4, <2>5, <3>2
  <2> QED
    BY <1>0, <2>1, <2>4, <2>5, <2>6, <2>7 DEF connVars
<1>4. CASE VBLFlush
  BY <1>0, <1>4 DEF VBLFlush, StartTransfer, copyVars
<1>5. CASE VBLFill
  BY <1>0, <1>5 DEF VBLFill, StartTransfer, copyVars
<1>6. CASE WriteDone
  <2>1. /\ writeStorage' = [writeStorage EXCEPT !.ioActCount = 0]
        /\ flight' \in {"none", "read"} /\ connResult' # "ioErr"
        /\ UNCHANGED <<readStorage, ioActCount, fed, fetched, readExtraAvail, readData, writeData>>
    BY <1>6 DEF WriteDone, SentStorage, StartTransfer
  <2> QED
    BY <1>0, <1>w, <2>1
<1>7. CASE ReadDone
  <2> DEFINE avail == fed - fetched
             count == IF avail > PayloadSize THEN PayloadSize ELSE avail
  <2>1. fed \in Nat /\ fetched \in Nat /\ avail \in Nat /\ count \in 0..avail
    BY <1>0, BoundsAssumption
  <2>2. /\ readData' = [i \in 1..count |-> fetched + i] /\ flight' = "none" /\ connResult' = "noErr"
        /\ readStorage' = [ioReqCount |-> count, ioActCount |-> 0]
        /\ readExtraAvail' = ExtraAvail(avail) /\ fetched' = fetched + count
        /\ UNCHANGED <<fed, writeStorage, writeData, ioActCount>>
    BY <1>7 DEF ReadDone, Carried
  <2>3. readExtraAvail' \in Nat /\ readExtraAvail' = avail - count
    BY <2>1, <2>2, BoundsAssumption DEF ExtraAvail
  <2>4. fetched' \in 0..fed /\ readExtraAvail' + fetched' <= fed
    BY <2>1, <2>2, <2>3
  <2>6. count <= PayloadSize /\ count \in Nat
    BY <2>1, BoundsAssumption
  <2> HIDE DEF count, avail
  <2>5. readData' \in Seq(Nat) /\ Len(readData') <= PayloadSize /\ readStorage' \in Storage
    BY <2>1, <2>2, <2>6 DEF Storage
  <2> QED
    BY <1>0, <2>2, <2>3, <2>4, <2>5
<1>8. CASE TransferFails
  <2>1. fetched' \in 0..fed
    BY <1>0, <1>8, BoundsAssumption DEF TransferFails, Carried
  <2> QED
    BY <1>0, <1>8, <2>1 DEF TransferFails, copyVars
<1>9. CASE Feed
  BY <1>0, <1>9 DEF Feed, copyVars
<1>10. CASE Open
  <2>1. CASE OpenClearsError
    BY <1>0, <2>1 DEF OpenClearsError, copyVars
  <2>2. ASSUME OpenResetsReadReqCount \/ OpenResetsReadActCount PROVE BufferInv'
    <3>1. UNCHANGED <<connVars, ioActCount, writeData, writeStorage>> /\ readStorage' \in Storage
      BY <1>0, <2>2 DEF OpenResetsReadReqCount, OpenResetsReadActCount, OpenStep, Storage
    <3> QED
      BY <1>0, <3>1 DEF connVars
  <2>3. CASE OpenResetsWriteActCount
    <3>1. UNCHANGED <<connVars, ioActCount, writeData, readStorage>>
          /\ writeStorage' = [writeStorage EXCEPT !.ioActCount = 0]
      BY <2>3 DEF OpenResetsWriteActCount, OpenStep
    <3> QED
      BY <1>0, <1>w, <3>1 DEF connVars
  <2> QED
    BY <1>10, <2>1, <2>2, <2>3 DEF Open
<1>11. CASE UNCHANGED <<copyVars, connVars>>
  BY <1>1, <1>11 DEF copyVars, connVars, bufferVars
<1>12. CASE [Next]_vars
  BY <1>1, <1>2, <1>3, <1>4, <1>5, <1>6, <1>7, <1>8, <1>9, <1>12, BufferSteps
<1> QED
  BY <1>0, <1>10, <1>11, <1>12, Steps DEF DriverStep, vars

\* While doOpen or doStatus is under way the main program is nowhere else, and a read
\* served at interrupt level between the resets of the read buffer is a race.
LEMMA CopyIsNoRace ==
  ASSUME HeldInv, IO, NEW c \in Ctx, Copy(c), CopyRead(c), ~Races
  PROVE  opening.at # "readActCount"
<1>0. pc[c] = "copy" /\ pc'[c] # "copy" /\ pc \in [Ctx -> Labels]
  <2>1. pc[c] = "copy" /\ pc \in [Ctx -> Labels]
    BY DEF Copy, At, HeldInv, OwnerTypes
  <2>2. \E l \in {"result", "find"} : pc' = [pc EXCEPT ![c] = l]
    BY DEF CopyRead, CopyResult, GoTo
  <2> QED
    BY <2>1, <2>2
<1>1. CASE c = "intr"
  BY <1>0, <1>1 DEF Races, CopyRead
<1>2. CASE c = "main"
  <2>1. Interrupts => pc'["main"] = pc["main"]
    <3> USE DEF GoTo, StartPrime, StartWakeUp
    <3>1. ASSUME NEW r \in Req, InterruptIssues(r) \/ CompletionIssues("intr", r)
          PROVE  pc'["main"] = pc["main"]
      BY <1>0, <3>1 DEF InterruptIssues, CompletionIssues, IssueRequest
    <3>2. CASE Prime("intr")
      <4>1. CASE Copy("intr")
        BY <1>0, <4>1 DEF Copy, CopyRead, CopyWrite, CopyRefused, CopyResult
      <4>2. CASE Enter("intr") \/ Find("intr") \/ Claim("intr") \/ ParkDce("intr") \/ ParkPb("intr")
        BY <1>0, <4>2 DEF Enter, Find, Claim, ParkDce, ParkPb
      <4>3. CASE Result("intr") \/ IODone("intr") \/ CompletionReturns("intr") \/ Return("intr")
        BY <1>0, <4>3 DEF Result, IODone, CompletionReturns, Return
      <4> QED
        BY <3>2, <4>1, <4>2, <4>3 DEF Prime
    <3>3. CASE Wake \/ VBLTask \/ TransferEnds \/ Feed
      BY <1>0, <3>3 DEF Wake, ScanEnd, ScanSkip, ScanPrime, VBLTask, VBLFlush, VBLFill, VBLWake,
         TransferEnds, WriteDone, ReadDone, TransferFails, Feed
    <3> QED
      BY <3>1, <3>2, <3>3 DEF Interrupts
  <2>2. MainIsFree
    BY <1>0, <1>2, <2>1 DEF IO, Program
  <2> QED
    BY <2>2 DEF MainIsFree, NotOpening
<1> QED
  BY <1>1, <1>2

\* What is served, up to n bytes from the a-th on, comes after what was: s is the
\* buffer, t what was delivered.
LEMMA ServedInOrder ==
  ASSUME NEW s \in Seq(Nat), NEW t \in Seq(Nat), NEW a \in Nat, NEW n \in Nat, NEW e \in Nat,
         a + n <= e, e <= Len(s), Increasing(s), Increasing(t),
         \A i \in 1..Len(t), j \in (a + 1)..e : t[i] < s[j]
  PROVE  LET u == t \o SubSeq(s, a + 1, a + n)
         IN /\ u \in Seq(Nat) /\ Len(u) = Len(t) + n /\ Increasing(u)
            /\ \A i \in 1..Len(u), j \in (a + n + 1)..e : u[i] < s[j]
            /\ \A b \in Nat : (\A i \in 1..Len(t) : t[i] <= b) /\ (\A i \in 1..Len(s) : s[i] <= b)
                 => \A i \in 1..Len(u) : u[i] <= b
<1> DEFINE m == SubSeq(s, a + 1, a + n)
           u == t \o m
           D == Len(t)
<1>1. m \in Seq(Nat) /\ Len(m) = n /\ \A k \in 1..n : m[k] = s[a + k]
  <2>1. \A i \in (a + 1)..(a + n) : s[i] \in Nat
    OBVIOUS
  <2>2. m \in Seq(Nat) /\ Len(m) = n
    BY <2>1, SubSeqProperties
  <2>3. \A k \in 1..n : m[k] = s[a + k]
    OBVIOUS
  <2> QED
    BY <2>2, <2>3
<1> HIDE DEF m
<1>2. u \in Seq(Nat) /\ Len(u) = D + n /\ D \in Nat
  <2>1. u \in Seq(Nat) /\ Len(u) = Len(t) + Len(m)
    BY <1>1, ConcatProperties
  <2>2. Len(t) \in Nat
    OBVIOUS
  <2> HIDE DEF u
  <2> QED
    BY <1>1, <2>1, <2>2
<1>3. /\ \A i \in 1..D : u[i] = t[i]
      /\ \A i \in 1..(D + n) : i > D => i - D \in 1..n /\ u[i] = m[i - D]
  BY <1>1
<1>4. \A i \in 1..(D + n) : i > D =>
        \E k \in (a + 1)..(a + n) : k = a + (i - D) /\ k \in 1..Len(s) /\ u[i] = s[k]
  <2> SUFFICES ASSUME NEW i \in 1..(D + n), i > D
               PROVE  a + (i - D) \in (a + 1)..(a + n) /\ a + (i - D) \in 1..Len(s) /\ u[i] = s[a + (i - D)]
    OBVIOUS
  <2>1. i - D \in 1..n /\ u[i] = m[i - D]
    BY <1>3
  <2>2. u[i] = s[a + (i - D)]
    BY <1>1, <2>1
  <2> HIDE DEF u, D
  <2> QED
    BY <1>2, <2>1, <2>2
<1> HIDE DEF u, D
<1>5. Increasing(u)
  <2> SUFFICES ASSUME NEW i \in 1..(D + n), NEW j \in 1..(D + n), i < j PROVE u[i] < u[j]
    BY <1>2 DEF Increasing
  <2>1. CASE j <= D
    <3>1. i \in 1..Len(t) /\ j \in 1..Len(t)
      BY <1>2, <2>1 DEF D
    <3> QED
      BY <1>3, <3>1 DEF Increasing, D
  <2>2. CASE i <= D /\ j > D
    <3>1. PICK k \in (a + 1)..(a + n) : u[j] = s[k]
      BY <1>4, <2>2
    <3>2. k \in (a + 1)..e /\ i \in 1..Len(t)
      BY <1>2, <2>2 DEF D
    <3> QED
      BY <1>3, <3>1, <3>2 DEF D
  <2>3. CASE i > D
    <3>1. j > D
      BY <1>2, <2>3
    <3>2. PICK k \in (a + 1)..(a + n) : k = a + (i - D) /\ k \in 1..Len(s) /\ u[i] = s[k]
      BY <1>4, <2>3
    <3>3. PICK l \in (a + 1)..(a + n) : l = a + (j - D) /\ l \in 1..Len(s) /\ u[j] = s[l]
      BY <1>4, <3>1
    <3>4. k < l
      BY <1>2, <3>2, <3>3
    <3> QED
      BY <3>2, <3>3, <3>4 DEF Increasing
  <2> QED
    BY <1>2, <2>1, <2>2, <2>3
<1>6. \A i \in 1..Len(u), j \in (a + n + 1)..e : u[i] < s[j]
  <2> SUFFICES ASSUME NEW i \in 1..(D + n), NEW j \in (a + n + 1)..e PROVE u[i] < s[j]
    BY <1>2
  <2>1. j \in (a + 1)..e /\ j \in 1..Len(s)
    OBVIOUS
  <2>2. CASE i <= D
    <3>1. i \in 1..Len(t)
      BY <1>2, <2>2 DEF D
    <3> QED
      BY <1>3, <2>1, <3>1 DEF D
  <2>3. CASE i > D
    <3>1. PICK k \in (a + 1)..(a + n) : k \in 1..Len(s) /\ u[i] = s[k]
      BY <1>4, <2>3
    <3>2. k < j
      OBVIOUS
    <3> QED
      BY <2>1, <3>1, <3>2 DEF Increasing
  <2> QED
    BY <1>2, <2>2, <2>3
<1>7. ASSUME NEW b \in Nat, \A i \in 1..Len(t) : t[i] <= b, \A i \in 1..Len(s) : s[i] <= b,
             NEW i \in 1..Len(u)
      PROVE  u[i] <= b
  <2>1. CASE i <= D
    <3>1. i \in 1..Len(t) /\ u[i] = t[i]
      BY <1>2, <1>3, <1>7, <2>1 DEF D
    <3> QED
      BY <1>7, <3>1
  <2>2. CASE i > D
    BY <1>2, <1>4, <1>7, <2>2
  <2> QED
    BY <1>2, <2>1, <2>2
<1>8. u = t \o SubSeq(s, a + 1, a + n)
  BY DEF u, m
<1> QED
  BY <1>2, <1>5, <1>6, <1>7, <1>8 DEF D
\* What is served comes next in the buffer.
LEMMA CopyReadKeepsOrder ==
  ASSUME ControlInv, ReadInv, opening.at # "readActCount", opening' = opening,
         NEW c \in Ctx, Copy(c), CopyRead(c)
  PROVE  ReadInv'
<1> DEFINE a == readStorage.ioActCount
           e == readStorage.ioReqCount
<1>1. PICK r \in Reads, n \in Int :
           /\ n = CopyCount(readStorage, PbSpec(r))
           /\ readStorage' = [ioReqCount |-> e, ioActCount |-> a + n]
           /\ ioActCount' = [ioActCount EXCEPT ![r] = ioActCount[r] + n]
           /\ delivered' = delivered \o SubSeq(readData, a + 1, a + n)
           /\ UNCHANGED connVars
  BY CopyReadIs
<1>2. r \in Req /\ n \in Nat /\ n <= e - a /\ n <= ReqCount[r] - ioActCount[r]
  BY <1>1, ReadCountIsRight DEF Req
<1>3. a \in Int /\ e \in Int
  BY DEF ControlInv, BufferInv, Storage
<1>4. /\ readData \in Seq(Nat) /\ delivered \in Seq(Nat) /\ fetched \in Nat
      /\ a \in Nat /\ e \in Nat /\ a <= e /\ e <= Len(readData) /\ Len(delivered) + e - a <= fetched
      /\ Increasing(readData) /\ Increasing(delivered)
      /\ \A i \in 1..Len(delivered), j \in (a + 1)..e : delivered[i] < readData[j]
      /\ \A i \in 1..Len(readData) : readData[i] <= fetched
      /\ \A i \in 1..Len(delivered) : delivered[i] <= fetched
  BY <1>3 DEF ControlInv, BufferInv, ReadInv, ReadCounters
<1>5. UNCHANGED <<readData, fetched>>
  BY <1>1 DEF connVars
<1>6. readStorage'.ioActCount = a + n /\ readStorage'.ioReqCount = e
  BY <1>1
<1> HIDE DEF a, e
<1>7. /\ delivered' \in Seq(Nat) /\ Len(delivered') = Len(delivered) + n /\ Increasing(delivered')
      /\ \A i \in 1..Len(delivered'), j \in (a + n + 1)..e : delivered'[i] < readData[j]
      /\ \A i \in 1..Len(delivered') : delivered'[i] <= fetched
  <2>1. a + n <= e
    BY <1>2, <1>3
  <2> QED
    <3> DEFINE u == delivered \o SubSeq(readData, a + 1, a + n)
    <3>1. /\ u \in Seq(Nat) /\ Len(u) = Len(delivered) + n /\ Increasing(u)
          /\ \A i \in 1..Len(u), j \in (a + n + 1)..e : u[i] < readData[j]
          /\ \A b \in Nat : (\A i \in 1..Len(delivered) : delivered[i] <= b)
                             /\ (\A i \in 1..Len(readData) : readData[i] <= b)
               => \A i \in 1..Len(u) : u[i] <= b
      BY <1>2, <1>4, <2>1, ServedInOrder
    <3>2. delivered' = u
      BY <1>1
    <3> HIDE DEF u
    <3> QED
      BY <1>4, <3>1, <3>2
<1>8. \A q \in Req : ioActCount'[q] \in 0..ReqCount[q]
  <2>1. ioActCount \in [Req -> Int] /\ ReqCount[r] \in Nat /\ \A q \in Req : ioActCount[q] \in 0..ReqCount[q]
    BY <1>2, RequestsAssumption DEF ControlInv, BufferInv, ReadInv
  <2>2. ioActCount[r] + n \in 0..ReqCount[r]
    BY <1>2, <2>1
  <2> QED
    BY <1>1, <1>2, <2>1, <2>2
<1>9. /\ a + n >= 0 /\ a + n <= e /\ e \in 0..Len(readData)
      /\ Len(delivered') <= fetched /\ Len(delivered') + e - (a + n) <= fetched
  BY <1>2, <1>4, <1>7
<1> QED
  BY <1>4, <1>5, <1>6, <1>7, <1>8, <1>9 DEF ReadInv, ReadCounters, Increasing

\* A race is not forgotten.
LEMMA RacedStays == ASSUME CallInv, [ControlNext]_<<vars, controlVars>>, raced PROVE raced'
BY Steps DEF DriverStep, Open, OpenClearsError, OpenResetsReadReqCount, OpenResetsReadActCount,
   OpenResetsWriteActCount, OpenStep

\* Every other step, too, leaves in the read buffer only what comes next.
LEMMA StepReadInv ==
  ASSUME ControlInv, ~raced => ReadInv, [ControlNext]_<<vars, controlVars>>, ~raced'
  PROVE  ReadInv'
<1> DEFINE a == readStorage.ioActCount
           e == readStorage.ioReqCount
<1>0. HeldInv /\ CallInv /\ BufferInv
  BY DEF ControlInv
<1>r. ~raced /\ ReadInv
  BY <1>0, RacedStays
<1>t. /\ readData \in Seq(Nat) /\ delivered \in Seq(Nat) /\ fetched \in Nat /\ fed \in Nat /\ fetched <= fed
      /\ a \in Nat /\ e \in Nat /\ Len(delivered) \in Nat
  BY <1>0, <1>r DEF BufferInv, ReadInv, ReadCounters, Storage
\* Only the counters move.
<1>a. ASSUME UNCHANGED <<readData, delivered, ioActCount, fetched>>,
             ReadCounters(a, e, opening.at)'
      PROVE  ReadInv'
  BY <1>r, <1>a DEF ReadInv, Increasing
<1>b. ASSUME UNCHANGED <<readData, delivered, ioActCount, fetched, readStorage>>,
             opening.at = "readActCount" <=> opening'.at = "readActCount"
      PROVE  ReadInv'
  BY <1>r, <1>b DEF ReadInv, ReadCounters, Increasing
<1>1. CASE IO /\ DriverStep
  <2>1. opening' = opening /\ ~Races
    BY <1>1 DEF DriverStep
  <2>2. ASSUME NEW c \in Ctx, Copy(c), CopyRead(c) PROVE ReadInv'
    BY <1>0, <1>1, <1>r, <2>1, <2>2, CopyIsNoRace, CopyReadKeepsOrder
  <2>3. ASSUME NEW c \in Ctx, Copy(c), CopyWrite(c) PROVE ReadInv'
    <3>1. PICK r \in Writes, n \in Nat :
           /\ n <= ReqCount[r] - ioActCount[r] /\ ioActCount[r] \in Nat /\ ReqCount[r] \in Nat
           /\ ioActCount' = [ioActCount EXCEPT ![r] = ioActCount[r] + n]
           /\ UNCHANGED <<readStorage, delivered, connVars>>
      BY <2>3, CopyWriteIs
    <3>2. ioActCount \in [Req -> Int] /\ r \in Req /\ \A q \in Req : ioActCount[q] \in 0..ReqCount[q]
      BY <1>0, <1>r DEF BufferInv, ReadInv, Req
    <3>3. ioActCount[r] + n \in 0..ReqCount[r]
      BY <3>1
    <3>4. \A q \in Req : ioActCount'[q] \in 0..ReqCount[q]
      BY <3>1, <3>2, <3>3
    <3> QED
      BY <1>r, <2>1, <3>1, <3>4 DEF ReadInv, ReadCounters, Increasing, connVars
  <2>4. CASE VBLFlush \/ VBLFill \/ WriteDone \/ Feed
    BY <1>b, <2>1, <2>4 DEF VBLFlush, VBLFill, WriteDone, Feed, copyVars
  <2>7. CASE TransferFails
    <3>1. UNCHANGED <<readData, delivered, ioActCount, readStorage>>
      BY <2>7 DEF TransferFails, copyVars
    <3>2. fetched' \in Nat /\ fetched <= fetched'
      BY <1>t, <2>7, BoundsAssumption DEF TransferFails, Carried
    <3>3. /\ \A i \in 1..Len(delivered) : delivered[i] \in Nat /\ delivered[i] <= fetched
          /\ \A i \in 1..Len(readData) : readData[i] \in Nat /\ readData[i] <= fetched
          /\ Len(delivered) <= fetched /\ ReadCounters(a, e, opening.at)
      BY <1>r, <1>t DEF ReadInv
    <3>4. /\ \A i \in 1..Len(delivered) : delivered[i] <= fetched'
          /\ \A i \in 1..Len(readData) : readData[i] <= fetched'
          /\ Len(delivered) <= fetched'
      BY <1>t, <3>2, <3>3
    <3>5. ReadCounters(a, e, opening.at)'
      BY <1>t, <2>1, <3>1, <3>2, <3>3 DEF ReadCounters
    <3> QED
      BY <1>r, <3>1, <3>4, <3>5 DEF ReadInv, Increasing
  <2>5. CASE ReadDone
    <3> DEFINE avail == fed - fetched
               count == IF avail > PayloadSize THEN PayloadSize ELSE avail
    <3>1. count \in Nat
      BY <1>t, BoundsAssumption
    <3>2. /\ readData' = [i \in 1..count |-> fetched + i]
          /\ readStorage' = [ioReqCount |-> count, ioActCount |-> 0]
          /\ fetched' = fetched + count
          /\ UNCHANGED <<ioActCount, delivered>>
      BY <2>5 DEF ReadDone, Carried
    <3> HIDE DEF count
    <3>3. Len(readData') = count /\ \A i \in 1..count : readData'[i] = fetched + i
      BY <3>1, <3>2
    <3>4. readStorage'.ioActCount = 0 /\ readStorage'.ioReqCount = count
      BY <3>2
    <3>5. Increasing(readData)' /\ \A i \in 1..Len(readData') : readData'[i] <= fetched'
      BY <1>t, <3>1, <3>2, <3>3 DEF Increasing
    <3>6. /\ \A i \in 1..Len(delivered) : delivered[i] \in Nat /\ delivered[i] <= fetched
          /\ Len(delivered) <= fetched
      BY <1>r, <1>t DEF ReadInv
    <3>7. \A i \in 1..Len(delivered) : delivered[i] <= fetched'
      BY <1>t, <3>1, <3>2, <3>6
    <3>8. \A i \in 1..Len(delivered), j \in 1..count : delivered[i] < readData'[j]
      BY <1>t, <3>1, <3>3, <3>6
    <3>9. ReadCounters(a, e, opening.at)'
      BY <1>t, <3>1, <3>2, <3>3, <3>4, <3>6, <3>8 DEF ReadCounters
    <3>10. Len(delivered') <= fetched'
      BY <1>t, <3>1, <3>2, <3>6
    <3> QED
      BY <1>r, <3>2, <3>5, <3>7, <3>9, <3>10 DEF ReadInv, Increasing
  <2>6. CASE UNCHANGED bufferVars
    BY <1>b, <2>1, <2>6 DEF bufferVars
  <2> QED
    BY <1>1, <2>2, <2>3, <2>4, <2>5, <2>6, <2>7, BufferSteps DEF DriverStep
<1>2. CASE OpenClearsError
  BY <1>b, <1>2 DEF OpenClearsError, MayCall, MainIsFree, NotOpening, copyVars
<1>3. CASE OpenResetsReadReqCount
  <2>1. /\ UNCHANGED <<readData, delivered, ioActCount, fetched>>
        /\ readStorage' = [readStorage EXCEPT !.ioReqCount = 0]
        /\ opening' = [opening EXCEPT !.at = "readActCount"]
    BY <1>3 DEF OpenResetsReadReqCount, OpenStep, connVars
  <2>2. /\ readStorage'.ioReqCount = 0 /\ readStorage'.ioActCount = a
        /\ opening'.at = "readActCount"
    BY <1>0, <2>1 DEF BufferInv, Storage, CallInv
  <2>3. Len(delivered) <= fetched
    BY <1>r DEF ReadInv
  <2>4. ReadCounters(a, e, opening.at)'
    BY <1>t, <2>1, <2>2, <2>3 DEF ReadCounters
  <2> QED
    BY <1>a, <2>1, <2>4
<1>4. CASE OpenResetsReadActCount
  <2>1. /\ UNCHANGED <<readData, delivered, ioActCount, fetched>>
        /\ readStorage' = [readStorage EXCEPT !.ioActCount = 0]
        /\ opening' = [opening EXCEPT !.at = "writeActCount"] /\ opening.at = "readActCount"
    BY <1>4 DEF OpenResetsReadActCount, OpenStep, connVars
  <2>2. /\ readStorage'.ioReqCount = e /\ readStorage'.ioActCount = 0
        /\ opening'.at = "writeActCount"
    BY <1>0, <2>1 DEF BufferInv, Storage, CallInv
  <2>3. Len(delivered) <= fetched /\ ReadCounters(a, e, "readActCount")
    BY <1>r, <2>1 DEF ReadInv
  <2>4. ReadCounters(a, e, opening.at)'
    <3>1. CASE e = 0
      BY <1>t, <2>1, <2>2, <2>3, <3>1 DEF ReadCounters
    <3>2. CASE a = 0
      BY <1>t, <2>1, <2>2, <2>3, <3>2 DEF ReadCounters
    <3> QED
      BY <2>3, <3>1, <3>2 DEF ReadCounters
  <2> QED
    BY <1>a, <2>1, <2>4
<1>5. CASE OpenResetsWriteActCount
  <2>1. /\ UNCHANGED <<readData, delivered, ioActCount, fetched, readStorage>>
        /\ opening' = NotOpening /\ opening.at = "writeActCount"
    BY <1>5 DEF OpenResetsWriteActCount, OpenStep, connVars
  <2> QED
    BY <1>b, <2>1 DEF NotOpening
<1>6. CASE UNCHANGED <<copyVars, connVars, opening>>
  BY <1>b, <1>6 DEF copyVars, connVars
<1> QED
  BY <1>0, <1>1, <1>2, <1>3, <1>4, <1>5, <1>6, Steps DEF Open, vars

\* Two sequences of marked bytes, one after the other.
LEMMA JoinRises ==
  ASSUME NEW s \in Seq(Writes \X Nat), NEW t \in Seq(Writes \X Nat), Rising(s), Rising(t),
         \A i \in 1..Len(s), j \in 1..Len(t) : s[i][1] = t[j][1] => s[i][2] < t[j][2]
  PROVE  /\ s \o t \in Seq(Writes \X Nat) /\ Len(s \o t) = Len(s) + Len(t) /\ Rising(s \o t)
         /\ \A i \in 1..Len(s) : (s \o t)[i] = s[i]
         /\ \A i \in 1..Len(s \o t) : i > Len(s) => i - Len(s) \in 1..Len(t) /\ (s \o t)[i] = t[i - Len(s)]
<1> DEFINE u == s \o t
<1>1. /\ u \in Seq(Writes \X Nat) /\ Len(u) = Len(s) + Len(t) /\ Len(s) \in Nat /\ Len(t) \in Nat
      /\ \A i \in 1..(Len(s) + Len(t)) : u[i] = IF i <= Len(s) THEN s[i] ELSE t[i - Len(s)]
  BY ConcatProperties
<1> HIDE DEF u
<1>2. /\ \A i \in 1..Len(u) : i <= Len(s) => i \in 1..Len(s) /\ u[i] = s[i]
      /\ \A i \in 1..Len(u) : i > Len(s) => i - Len(s) \in 1..Len(t) /\ u[i] = t[i - Len(s)]
  <2>1. ASSUME NEW i \in 1..Len(u), i <= Len(s) PROVE i \in 1..Len(s) /\ u[i] = s[i]
    BY <1>1, <2>1
  <2>2. ASSUME NEW i \in 1..Len(u), i > Len(s) PROVE i - Len(s) \in 1..Len(t) /\ u[i] = t[i - Len(s)]
    BY <1>1, <2>2
  <2> QED
    BY <2>1, <2>2
<1>3. Rising(u)
  <2> SUFFICES ASSUME NEW i \in 1..Len(u), NEW j \in 1..Len(u), i < j, u[i][1] = u[j][1]
               PROVE  u[i][2] < u[j][2]
    BY DEF Rising
  <2>1. CASE j <= Len(s)
    <3>1. i <= Len(s)
      BY <1>1, <2>1
    <3> QED
      BY <1>2, <2>1, <3>1 DEF Rising
  <2>2. CASE i <= Len(s) /\ j > Len(s)
    <3>1. i \in 1..Len(s) /\ u[i] = s[i]
      BY <1>2, <2>2
    <3>2. j - Len(s) \in 1..Len(t) /\ u[j] = t[j - Len(s)]
      BY <1>2, <2>2
    <3> QED
      BY <3>1, <3>2
  <2>3. CASE i > Len(s)
    <3> DEFINE k == i - Len(s)
               l == j - Len(s)
    <3>1. i \in Int /\ j \in Int /\ Len(s) \in Int
      BY <1>1
    <3>2. j > Len(s) /\ k < l
      BY <2>3, <3>1
    <3>3. k \in 1..Len(t) /\ u[i] = t[k] /\ l \in 1..Len(t) /\ u[j] = t[l]
      BY <1>2, <2>3, <3>2
    <3> HIDE DEF k, l
    <3> QED
      BY <3>2, <3>3 DEF Rising
  <2> QED
    BY <1>1, <2>1, <2>2, <2>3
<1>4. \A i \in 1..Len(s) : i \in 1..Len(u) /\ i <= Len(s)
  BY <1>1
<1> QED
  BY <1>1, <1>2, <1>3, <1>4 DEF u

\* The first bytes of a sequence.
LEMMA PrefixIs ==
  ASSUME NEW s \in Seq(Writes \X Nat), NEW k \in 0..Len(s), Rising(s)
  PROVE  /\ SubSeq(s, 1, k) \in Seq(Writes \X Nat) /\ Len(SubSeq(s, 1, k)) = k
         /\ \A i \in 1..k : SubSeq(s, 1, k)[i] = s[i]
         /\ Rising(SubSeq(s, 1, k))
<1> DEFINE u == SubSeq(s, 1, k)
<1>1. u \in Seq(Writes \X Nat) /\ Len(u) = k /\ \A i \in 1..k : u[i] = s[i]
  <2>1. \A i \in 1..k : s[i] \in Writes \X Nat
    OBVIOUS
  <2> QED
    BY <2>1
<1> HIDE DEF u
<1>2. \A i \in 1..k : i \in 1..Len(s)
  OBVIOUS
<1>3. Rising(u)
  BY <1>1, <1>2 DEF Rising
<1> QED
  BY <1>1, <1>3 DEF u

\* A message w of k bytes that follows what was sent, s.
LEMMA MessageRises ==
  ASSUME NEW s \in Seq(Writes \X Nat), NEW w \in Seq(Writes \X Nat), NEW k \in 0..Len(w),
         Rising(s), Rising(w), \A i \in 1..Len(s), j \in 1..k : s[i][1] = w[j][1] => s[i][2] < w[j][2]
  PROVE  /\ s \o SubSeq(w, 1, k) \in Seq(Writes \X Nat) /\ Rising(s \o SubSeq(w, 1, k))
         /\ \A i \in 1..Len(s \o SubSeq(w, 1, k)) :
              \/ \E j \in 1..Len(s) : (s \o SubSeq(w, 1, k))[i] = s[j]
              \/ \E j \in 1..Len(w) : (s \o SubSeq(w, 1, k))[i] = w[j]
<1> DEFINE t == SubSeq(w, 1, k)
           u == s \o t
<1>1. t \in Seq(Writes \X Nat) /\ Len(t) = k /\ Rising(t) /\ \A i \in 1..k : t[i] = w[i]
  BY PrefixIs
<1>2. \A i \in 1..k : i \in 1..Len(w)
  OBVIOUS
<1> HIDE DEF t
<1>3. \A i \in 1..Len(s), j \in 1..Len(t) : s[i][1] = t[j][1] => s[i][2] < t[j][2]
  BY <1>1
<1>4. /\ u \in Seq(Writes \X Nat) /\ Len(u) = Len(s) + Len(t) /\ Rising(u)
      /\ \A i \in 1..Len(s) : u[i] = s[i]
      /\ \A i \in 1..Len(u) : i > Len(s) => i - Len(s) \in 1..Len(t) /\ u[i] = t[i - Len(s)]
  BY <1>1, <1>3, JoinRises
<1>5. Len(s) \in Nat
  OBVIOUS
<1> HIDE DEF u
<1>6. \A i \in 1..Len(u) : \/ \E j \in 1..Len(s) : u[i] = s[j]
                           \/ \E j \in 1..Len(w) : u[i] = w[j]
  <2> SUFFICES ASSUME NEW i \in 1..Len(u)
               PROVE  \/ \E j \in 1..Len(s) : u[i] = s[j]
                      \/ \E j \in 1..Len(w) : u[i] = w[j]
    OBVIOUS
  <2>1. CASE i <= Len(s)
    <3>1. i \in 1..Len(s)
      BY <1>5, <2>1
    <3> QED
      BY <1>4, <3>1
  <2>2. CASE i > Len(s)
    BY <1>1, <1>2, <1>4, <2>2
  <2> QED
    BY <1>5, <2>1, <2>2
<1> QED
  BY <1>4, <1>6 DEF u, t

\* A message that arrived carried bytes that had not been sent.
LEMMA ShippedRises ==
  ASSUME ControlInv, WriteInv, flight = "write"
  PROVE  LET u == sent \o SubSeq(writeData, 1, sendLength)
         IN u \in Seq(Writes \X Nat) /\ Rising(u) /\ Moved(u)
<1>1. writeData \in Seq(Writes \X Nat) /\ sendLength \in 0..Len(writeData) /\ sent \in Seq(Writes \X Nat)
      /\ Rising(writeData) /\ Rising(sent) /\ Fresh(sendLength) /\ Moved(writeData) /\ Moved(sent)
  BY DEF ControlInv, BufferInv, WriteSane, WriteInv
<1> DEFINE u == sent \o SubSeq(writeData, 1, sendLength)
<1>2. \A i \in 1..Len(sent), j \in 1..sendLength :
        sent[i][1] = writeData[j][1] => sent[i][2] < writeData[j][2]
  BY <1>1 DEF Fresh
<1>3. /\ u \in Seq(Writes \X Nat) /\ Rising(u)
      /\ \A i \in 1..Len(u) : \/ \E j \in 1..Len(sent) : u[i] = sent[j]
                              \/ \E j \in 1..Len(writeData) : u[i] = writeData[j]
  BY <1>1, <1>2, MessageRises
<1> HIDE DEF u
<1>4. Moved(u)
  BY <1>1, <1>3 DEF Moved
<1> QED
  BY <1>3, <1>4 DEF u

\* A write adds bytes that come after all of its request's that moved before.
LEMMA CopyWriteKeepsOrder ==
  ASSUME ControlInv, WriteInv, opening' = opening, sent' = sent, NEW c \in Ctx, Copy(c), CopyWrite(c)
  PROVE  WriteInv'
<1> DEFINE a == writeStorage.ioActCount
<1>1. PICK r \in Writes, n \in Nat, new \in Seq(Writes \X Nat) :
           /\ connResult = "noErr" /\ flight = "none" /\ ioActCount[r] \in Nat
           /\ writeStorage' = [ioReqCount |-> PayloadSize, ioActCount |-> a + n]
           /\ ioActCount' = [ioActCount EXCEPT ![r] = ioActCount[r] + n]
           /\ writeData' = SubSeq(writeData, 1, a) \o new
           /\ Len(new) = n /\ \A i \in 1..n : new[i] = <<r, ioActCount[r] + i>>
           /\ UNCHANGED connVars
  BY CopyWriteIs
<1>2. writeData \in Seq(Writes \X Nat) /\ a \in 0..Len(writeData) /\ sent \in Seq(Writes \X Nat)
      /\ Rising(writeData) /\ Moved(writeData) /\ Rising(sent) /\ Moved(sent)
      /\ ioActCount \in [Req -> Int] /\ a \in Nat
  BY DEF ControlInv, BufferInv, WriteSane, WriteInv
<1>3. writeStorage'.ioActCount = a + n
  BY <1>1
<1> HIDE DEF a
<1>4. \A q \in Writes : ioActCount[q] \in Int /\ ioActCount'[q] \in Int /\ ioActCount[q] <= ioActCount'[q]
  BY <1>1, <1>2 DEF Req
<1> DEFINE m == ioActCount[r]
           t == SubSeq(writeData, 1, a)
           u == t \o new
<1>m. m \in Nat /\ Len(new) = n /\ \A i \in 1..n : new[i][1] = r /\ new[i][2] = m + i
  BY <1>1
<1>5. ioActCount'[r] = m + n
  BY <1>1, <1>2 DEF Req
<1>6. /\ u \in Seq(Writes \X Nat) /\ Len(u) = a + n /\ Rising(u)
      /\ \A i \in 1..a : u[i] = writeData[i]
      /\ \A i \in 1..(a + n) : i > a => u[i][1] = r /\ u[i][2] = m + (i - a)
  <2>1. t \in Seq(Writes \X Nat) /\ Len(t) = a /\ Rising(t) /\ \A i \in 1..a : t[i] = writeData[i]
    BY <1>2, PrefixIs
  <2>2. Rising(new)
    <3> HIDE DEF m
    <3> SUFFICES ASSUME NEW i \in 1..n, NEW j \in 1..n, i < j PROVE new[i][2] < new[j][2]
      BY <1>m DEF Rising
    <3> QED
      BY <1>m
  <2> HIDE DEF t
  <2>3. \A i \in 1..Len(t), j \in 1..Len(new) : t[i][1] = new[j][1] => t[i][2] < new[j][2]
    <3> SUFFICES ASSUME NEW i \in 1..a, NEW j \in 1..n, writeData[i][1] = r PROVE writeData[i][2] < m + j
      BY <1>m, <2>1
    <3>1. i \in 1..Len(writeData) /\ writeData[i] \in Writes \X Nat
      BY <1>2
    <3>2. writeData[i][2] \in Nat /\ writeData[i][2] <= m
      BY <1>2, <3>1 DEF Moved
    <3> HIDE DEF m
    <3> QED
      BY <1>m, <3>2
  <2>4. /\ u \in Seq(Writes \X Nat) /\ Len(u) = Len(t) + Len(new) /\ Rising(u)
        /\ \A i \in 1..Len(t) : u[i] = t[i]
        /\ \A i \in 1..Len(u) : i > Len(t) => i - Len(t) \in 1..Len(new) /\ u[i] = new[i - Len(t)]
    BY <2>1, <2>2, <2>3, JoinRises
  <2> HIDE DEF u, m
  <2>5. /\ Len(u) = a + n /\ \A i \in 1..a : u[i] = writeData[i]
        /\ \A i \in 1..(a + n) : i > a => i - a \in 1..n /\ u[i] = new[i - a]
    BY <1>m, <2>1, <2>4
  <2>6. ASSUME NEW i \in 1..(a + n), i > a PROVE u[i][1] = r /\ u[i][2] = m + (i - a)
    BY <1>m, <2>5, <2>6
  <2> QED
    BY <2>4, <2>5, <2>6
<1>7. writeData' = u
  BY <1>1
<1> HIDE DEF t, u
<1>8. \A i \in 1..Len(u) : u[i][2] <= ioActCount'[u[i][1]]
  <2> SUFFICES ASSUME NEW i \in 1..(a + n) PROVE u[i][2] <= ioActCount'[u[i][1]]
    BY <1>6
  <2>1. CASE i <= a
    <3> DEFINE q == writeData[i][1]
    <3>1. i \in 1..a /\ i \in 1..Len(writeData) /\ writeData[i] \in Writes \X Nat
      BY <1>2, <2>1
    <3>2. writeData[i][2] <= ioActCount[q] /\ q \in Writes /\ writeData[i][2] \in Nat
      BY <1>2, <3>1 DEF Moved
    <3>3. u[i][1] = q /\ u[i][2] = writeData[i][2]
      BY <1>6, <3>1
    <3> HIDE DEF q
    <3> QED
      BY <1>4, <3>2, <3>3
  <2>2. CASE i > a
    <3>1. u[i][1] = r /\ u[i][2] = m + (i - a)
      BY <1>6, <2>2
    <3> HIDE DEF m
    <3> QED
      BY <1>2, <1>5, <1>m, <2>2, <3>1
  <2> QED
    BY <1>2, <2>1, <2>2
<1>9. \A i \in 1..Len(sent) : sent[i][2] <= ioActCount'[sent[i][1]]
  <2> SUFFICES ASSUME NEW i \in 1..Len(sent) PROVE sent[i][2] <= ioActCount'[sent[i][1]]
    OBVIOUS
  <2> DEFINE q == sent[i][1]
  <2>1. q \in Writes /\ sent[i][2] \in Nat /\ sent[i][2] <= ioActCount[q]
    BY <1>2 DEF Moved
  <2> HIDE DEF q
  <2>2. sent[i][2] <= ioActCount'[q]
    BY <1>4, <2>1
  <2> QED
    BY <2>2 DEF q
<1>10. ASSUME Fresh(a), NEW i \in 1..Len(sent), NEW j \in 1..(a + n), sent[i][1] = u[j][1]
       PROVE  sent[i][2] < u[j][2]
  <2>1. CASE j <= a
    <3>0. j \in 1..a
      BY <1>2, <2>1
    <3>1. u[j] = writeData[j]
      BY <1>6, <3>0
    <3> QED
      BY <1>10, <3>0, <3>1 DEF Fresh
  <2>2. CASE j > a
    <3>1. u[j][1] = r /\ u[j][2] = m + (j - a)
      BY <1>6, <2>2
    <3>2. sent[i][2] \in Nat /\ sent[i][2] <= m
      BY <1>2, <1>10, <3>1 DEF Moved
    <3> HIDE DEF m
    <3> QED
      BY <1>2, <1>m, <2>2, <3>1, <3>2
  <2> QED
    BY <1>2, <2>1, <2>2
<1>11. connResult # "ioErr" /\ opening.was # "ioErr" => Fresh(a)
  BY DEF WriteInv, a
<1>12. Rising(writeData)' /\ Moved(writeData)' /\ Rising(sent)' /\ Moved(sent)'
  BY <1>2, <1>6, <1>7, <1>8, <1>9 DEF Rising, Moved
<1>13. (connResult # "ioErr" /\ opening.was # "ioErr" => Fresh(writeStorage.ioActCount))'
  <2>1. connResult' = connResult
    BY <1>1 DEF connVars
  <2> QED
    BY <1>3, <1>7, <1>10, <1>11, <2>1 DEF Fresh
<1>14. flight' # "write" /\ sent' \in Seq(Writes \X Nat)
  BY <1>1, <1>2 DEF connVars
<1> QED
  BY <1>12, <1>13, <1>14 DEF WriteInv

\* No other step brings back bytes that were sent.
LEMMA StepWriteInv ==
  ASSUME ControlInv, ~raced => WriteInv, [ControlNext]_<<vars, controlVars>>, ~raced'
  PROVE  WriteInv'
<1> DEFINE a == writeStorage.ioActCount
           MayCount == connResult # "ioErr" /\ opening.was # "ioErr"
<1>0. HeldInv /\ CallInv /\ BufferInv
  BY DEF ControlInv
<1>r. ~raced /\ WriteInv
  BY <1>0, RacedStays
\* The marks of the bytes are kept, and what counts of them.
<1>a. ASSUME UNCHANGED <<writeData, sent>>, \A r \in Writes : ioActCount'[r] = ioActCount[r],
             MayCount' => Fresh(writeStorage'.ioActCount),
             flight' = "write" => Fresh(sendLength')
      PROVE  WriteInv'
  <2>1. /\ \A i \in 1..Len(sent) : sent[i][1] \in Writes
        /\ \A i \in 1..Len(writeData) : writeData[i][1] \in Writes
    <3>1. sent \in Seq(Writes \X Nat) /\ writeData \in Seq(Writes \X Nat)
      BY <1>0, <1>r DEF BufferInv, WriteInv
    <3> QED
      BY <3>1
  <2>2. Moved(sent)' /\ Moved(writeData)'
    BY <1>r, <1>a, <2>1 DEF WriteInv, Moved
  <2> QED
    BY <1>r, <1>a, <2>2 DEF WriteInv, Rising, Fresh
<1>b. ASSUME UNCHANGED <<writeData, sent, writeStorage, sendLength>>,
             \A r \in Writes : ioActCount'[r] = ioActCount[r],
             MayCount' => MayCount, flight' = "write" => flight = "write"
      PROVE  WriteInv'
  BY <1>r, <1>a, <1>b DEF WriteInv
<1>c. ASSUME UNCHANGED <<writeData, ioActCount>>, flight = "write", flight' # "write",
             sent' = sent \o SubSeq(writeData, 1, sendLength),
             connResult' = "ioErr" \/ writeStorage'.ioActCount = 0
      PROVE  WriteInv'
  <2> DEFINE u == sent \o SubSeq(writeData, 1, sendLength)
  <2>1. u \in Seq(Writes \X Nat) /\ Rising(u) /\ Moved(u)
    BY <1>c, <1>r, ShippedRises
  <2>2. sent' = u
    BY <1>c
  <2> HIDE DEF u
  <2>3. sent' \in Seq(Writes \X Nat) /\ Rising(sent)' /\ Moved(sent)' /\ Rising(writeData)' /\ Moved(writeData)'
    BY <1>c, <1>r, <2>1, <2>2 DEF WriteInv, Rising, Moved
  <2>4. connResult' = "ioErr" \/ Fresh(writeStorage.ioActCount)'
    BY <1>c DEF Fresh
  <2> QED
    BY <1>c, <2>3, <2>4 DEF WriteInv
<1>1. CASE IO /\ DriverStep
  <2>1. opening' = opening /\ ~Races
    BY <1>1 DEF DriverStep
  <2>2. ASSUME NEW c \in Ctx, Copy(c), CopyRead(c) PROVE WriteInv'
    <3>1. PICK r \in Reads, n \in Int :
            /\ ioActCount' = [ioActCount EXCEPT ![r] = ioActCount[r] + n]
            /\ UNCHANGED <<writeStorage, writeData, connVars>>
      BY <2>2, CopyReadIs
    <3>2. r \in Req /\ \A q \in Writes : q \in Req /\ q # r
      BY RequestsAssumption DEF Req
    <3>3. \A q \in Writes : ioActCount'[q] = ioActCount[q]
      BY <1>0, <3>1, <3>2 DEF BufferInv
    <3> QED
      BY <1>b, <2>1, <3>1, <3>3 DEF connVars
  <2>3. ASSUME NEW c \in Ctx, Copy(c), CopyWrite(c) PROVE WriteInv'
    <3>1. sent' = sent
      BY <2>3 DEF Copy, connVars
    <3> QED
      BY <1>r, <2>1, <2>3, <3>1, CopyWriteKeepsOrder
  <2>4. CASE VBLFlush
    <3>1. /\ UNCHANGED <<writeData, sent, ioActCount, writeStorage>>
          /\ ~mutex /\ connResult = "noErr" /\ sendLength' = a /\ flight' = "write"
      BY <2>4 DEF VBLFlush, StartTransfer, copyVars
    <3>2. flight = "none"
      BY <1>0, <3>1 DEF HeldInv, OwnerInv, VblMutexExcludes, BufferInv
    <3>3. opening.was # "ioErr"
      BY <2>1, <3>1, <3>2 DEF Races
    <3> QED
      BY <1>a, <1>r, <3>1, <3>3 DEF WriteInv
  <2>5. CASE VBLFill \/ Feed
    BY <1>b, <2>1, <2>5 DEF VBLFill, Feed, StartTransfer, copyVars
  <2>6. CASE WriteDone
    <3>1. writeStorage'.ioActCount = 0
      BY <1>0, <2>6 DEF WriteDone, SentStorage, BufferInv, Storage
    <3> QED
      BY <1>c, <2>6, <3>1 DEF WriteDone, StartTransfer
  <2>7. CASE ReadDone
    <3>1. connResult # "ioErr" /\ flight' # "write"
          /\ UNCHANGED <<writeData, sent, writeStorage, sendLength, ioActCount>>
      BY <1>0, <2>7 DEF ReadDone, BufferInv
    <3> QED
      BY <1>b, <2>1, <3>1
  <2>8. CASE TransferFails
    <3>1. CASE UNCHANGED sent
      BY <1>b, <2>8, <3>1 DEF TransferFails, copyVars
    <3>2. CASE flight = "write" /\ sent' = sent \o SubSeq(writeData, 1, sendLength)
      BY <1>c, <2>8, <3>2 DEF TransferFails, copyVars
    <3> QED
      BY <2>8, <3>1, <3>2 DEF TransferFails
  <2>9. CASE UNCHANGED bufferVars
    BY <1>b, <2>1, <2>9 DEF bufferVars
  <2> QED
    BY <1>1, <2>2, <2>3, <2>4, <2>5, <2>6, <2>7, <2>8, <2>9, BufferSteps DEF DriverStep
<1>2. CASE OpenClearsError
  <2>1. /\ UNCHANGED <<writeData, sent, writeStorage, sendLength, ioActCount, flight>>
        /\ opening = NotOpening /\ opening'.was = connResult
    BY <1>2 DEF OpenClearsError, MayCall, MainIsFree, copyVars
  <2> QED
    BY <1>b, <2>1 DEF NotOpening
<1>3. CASE OpenResetsReadReqCount \/ OpenResetsReadActCount
  <2>1. /\ UNCHANGED <<writeData, sent, writeStorage, sendLength, ioActCount, flight, connResult>>
        /\ \E at \in {"readActCount", "writeActCount"} : opening' = [opening EXCEPT !.at = at]
    BY <1>3 DEF OpenResetsReadReqCount, OpenResetsReadActCount, OpenStep, connVars
  <2>2. opening'.was = opening.was
    BY <1>0, <2>1 DEF CallInv
  <2> QED
    BY <1>b, <2>1, <2>2
<1>4. CASE OpenResetsWriteActCount
  <2>1. /\ UNCHANGED <<writeData, sent, sendLength, ioActCount, flight>>
        /\ writeStorage' = [writeStorage EXCEPT !.ioActCount = 0]
    BY <1>4 DEF OpenResetsWriteActCount, OpenStep, connVars
  <2>2. writeStorage'.ioActCount = 0
    BY <1>0, <2>1 DEF BufferInv, Storage
  <2>3. Fresh(writeStorage'.ioActCount)
    BY <2>2 DEF Fresh
  <2> QED
    BY <1>a, <1>r, <2>1, <2>3 DEF WriteInv
<1>5. CASE UNCHANGED <<copyVars, connVars, opening>>
  BY <1>b, <1>5 DEF copyVars, connVars
<1> QED
  BY <1>0, <1>1, <1>2, <1>3, <1>4, <1>5, Steps DEF Open, vars

\* A good reply says anew what the device has left, and a lost one is remembered.
LEMMA StepLostInv ==
  ASSUME ControlInv, [ControlNext]_<<vars, controlVars>>
  PROVE  LostInv'
<1>0. /\ LostInv /\ fed \in Nat /\ fetched \in 0..fed /\ readExtraAvail \in Nat
      /\ flight \in {"none", "write", "read"}
  BY DEF ControlInv, BufferInv
<1>1. CASE DriverStep /\ ~(flight = "read" /\ flight' = "none")
  <2>1. replyLost' = replyLost
    BY <1>1 DEF DriverStep
  <2>2. UNCHANGED <<readExtraAvail, fetched>> /\ fed <= fed' /\ fed' \in Nat
    <3>1. CASE UNCHANGED bufferVars
      BY <1>0, <3>1 DEF bufferVars
    <3>2. ASSUME NEW c \in Ctx, Copy(c) PROVE UNCHANGED connVars
      BY <3>2 DEF Copy
    <3>3. CASE VBLFlush \/ VBLFill \/ WriteDone \/ Feed
      BY <1>0, <3>3 DEF VBLFlush, VBLFill, WriteDone, Feed
    <3>4. CASE ReadDone \/ TransferFails
      BY <1>0, <1>1, <3>4 DEF ReadDone, TransferFails
    <3> QED
      BY <1>0, <1>1, <3>1, <3>2, <3>3, <3>4, BufferSteps DEF DriverStep, connVars
  <2> QED
    BY <1>0, <2>1, <2>2 DEF LostInv
<1>2. CASE DriverStep /\ flight = "read" /\ flight' = "none"
  <2>1. replyLost' = (connResult' = "ioErr" /\ (replyLost \/ fetched' # fetched))
    BY <1>2 DEF DriverStep
  <2>2. replyLost' \in BOOLEAN
    BY <2>1
  <2>3. CASE ReadDone
    <3> DEFINE avail == fed - fetched
               count == IF avail > PayloadSize THEN PayloadSize ELSE avail
    <3>1. /\ readExtraAvail' = ExtraAvail(avail) /\ fetched' = fetched + count /\ fed' = fed
      BY <2>3 DEF ReadDone, Carried
    <3>2. readExtraAvail' + fetched' <= fed'
      BY <1>0, <3>1, BoundsAssumption DEF ExtraAvail
    <3> QED
      BY <2>2, <3>2 DEF LostInv
  <2>4. CASE TransferFails
    <3>1. connResult' = "ioErr" /\ UNCHANGED <<fed, readExtraAvail>>
      BY <2>4 DEF TransferFails
    <3>2. ~replyLost' => ~replyLost /\ fetched' = fetched
      BY <2>1, <3>1
    <3> QED
      BY <1>0, <2>2, <3>1, <3>2 DEF LostInv
  <2>5. CASE UNCHANGED bufferVars \/ VBLFlush \/ VBLFill \/ WriteDone \/ Feed \/ \E c \in Ctx : Copy(c)
    BY <1>2, <2>5
    DEF bufferVars, VBLFlush, VBLFill, WriteDone, Feed, Copy, connVars, StartTransfer
  <2> QED
    BY <1>2, <2>3, <2>4, <2>5, BufferSteps DEF DriverStep
<1>3. CASE UNCHANGED <<fed, fetched, readExtraAvail, replyLost>>
  BY <1>0, <1>3 DEF LostInv
<1>4. CASE Open
  BY <1>3, <1>4
  DEF Open, OpenClearsError, OpenResetsReadReqCount, OpenResetsReadActCount, OpenResetsWriteActCount,
      OpenStep, connVars
<1> QED
  BY <1>1, <1>2, <1>3, <1>4, Steps DEF ControlInv, vars, connVars

\* doStatus's sum stays true while no counter changes, or else it is known as torn.
LEMMA StepSumInv ==
  ASSUME ControlInv, SumInv, [ControlNext]_<<vars, controlVars>>
  PROVE  SumInv'
<1>0. CallInv /\ BufferInv
  BY DEF ControlInv
<1>a. ASSUME UNCHANGED status, status.at = "none" \/ status.torn \/ UNCHANGED readStorage PROVE SumInv'
  BY <1>a DEF SumInv
<1>1. CASE DriverStep
  <2>1. CASE status' = status
    BY <1>1, <1>a, <2>1 DEF DriverStep
  <2>2. CASE status' = [status EXCEPT !.torn = TRUE]
    <3>1. status'.torn
      BY <1>0, <2>2 DEF CallInv
    <3> QED
      BY <3>1 DEF SumInv
  <2> QED
    BY <1>1, <2>1, <2>2 DEF DriverStep
<1>2. CASE Open
  <2>1. CASE OpenClearsError
    BY <1>a, <2>1 DEF OpenClearsError, copyVars
  <2>2. CASE OpenResetsReadReqCount \/ OpenResetsReadActCount \/ OpenResetsWriteActCount
    <3>1. UNCHANGED status /\ opening.at # "none"
      BY <2>2 DEF OpenResetsReadReqCount, OpenResetsReadActCount, OpenResetsWriteActCount, OpenStep
    <3>2. status.at = "none"
      BY <1>0, <3>1 DEF CallInv, NotOpening
    <3> QED
      BY <1>a, <3>1, <3>2
  <2> QED
    BY <1>2, <2>1, <2>2 DEF Open
<1>3. CASE Status /\ UNCHANGED vars
  <2> USE DEF CallInv
  <2>1. UNCHANGED readStorage
    BY <1>3 DEF vars, copyVars
  <2>2. CASE StatusReadsReqCount
    <3>1. status'.at = "actCount" /\ status'.sum = readStorage.ioReqCount
      BY <2>2 DEF StatusReadsReqCount, StatusStep, NoStatus
    <3> QED
      BY <2>1, <3>1 DEF SumInv
  <2>3. CASE StatusReadsActCount
    <3>1. /\ status.at = "actCount" /\ status'.at = "extraAvail" /\ status'.torn = status.torn
          /\ status'.sum = status.sum - readStorage.ioActCount
      BY <1>0, <2>3 DEF StatusReadsActCount, StatusStep
    <3> QED
      BY <2>1, <3>1 DEF SumInv
  <2>4. CASE StatusReturns
    BY <2>4 DEF StatusReturns, StatusStep, NoStatus, SumInv
  <2> QED
    BY <1>3, <2>2, <2>3, <2>4 DEF Status
<1>4. CASE UNCHANGED <<copyVars, status>>
  BY <1>4, <1>a DEF copyVars
<1> QED
  BY <1>0, <1>1, <1>2, <1>3, <1>4, Steps DEF vars

\* doStatus reads the counters while no port is being opened.
LEMMA StepSumBound ==
  ASSUME ControlInv, ~raced => ReadInv, SumBound, [ControlNext]_<<vars, controlVars>>
  PROVE  SumBound'
<1>0. CallInv /\ BufferInv
  BY DEF ControlInv
<1>1. CASE DriverStep
  <2>1. status'.at = status.at /\ status'.sum = status.sum
    BY <1>0, <1>1 DEF DriverStep, CallInv
  <2>2. ~raced' => ~raced
    BY <1>1 DEF DriverStep
  <2> QED
    BY <2>1, <2>2 DEF SumBound
<1>2. CASE UNCHANGED <<status, raced>>
  BY <1>2 DEF SumBound
<1>3. CASE Status /\ UNCHANGED vars
  <2>1. raced' = raced
    BY <1>3 DEF Status, StatusReadsReqCount, StatusReadsActCount, StatusReturns, StatusStep
  <2> SUFFICES ASSUME ~raced
               PROVE  /\ status'.at = "actCount" => status'.sum \in 0..PayloadSize
                      /\ status'.at = "extraAvail" => status'.sum \in (0 - PayloadSize)..PayloadSize
    BY <2>1 DEF SumBound
  <2>2. readStorage.ioReqCount \in 0..PayloadSize /\ PayloadSize \in Nat
    BY <1>0, BoundsAssumption DEF ReadInv, ReadCounters, BufferInv, Storage
  <2>3. CASE StatusReadsReqCount
    BY <2>2, <2>3 DEF StatusReadsReqCount, StatusStep, NoStatus
  <2>4. CASE StatusReadsActCount
    <3>1. /\ status.at = "actCount" /\ status'.at = "extraAvail"
          /\ status'.sum = status.sum - readStorage.ioActCount
      BY <1>0, <2>4 DEF StatusReadsActCount, StatusStep, CallInv
    <3>2. opening.at = "none"
      BY <1>0, <3>1 DEF CallInv, NotOpening
    <3>3. readStorage.ioActCount \in 0..PayloadSize
      BY <1>0, <2>2, <3>2 DEF ReadInv, ReadCounters, BufferInv, Storage
    <3>4. status.sum \in 0..PayloadSize
      BY <3>1 DEF SumBound
    <3> QED
      BY <2>2, <3>1, <3>3, <3>4
  <2>5. CASE StatusReturns
    BY <2>5 DEF StatusReturns, StatusStep, NoStatus
  <2> QED
    BY <1>3, <2>3, <2>4, <2>5 DEF Status
<1>4. CASE Open
  BY <1>2, <1>4
  DEF Open, OpenClearsError, OpenResetsReadReqCount, OpenResetsReadActCount, OpenResetsWriteActCount, OpenStep
<1> QED
  BY <1>0, <1>1, <1>2, <1>3, <1>4, Steps DEF vars, controlVars

-------------------------------------------------------------------------------
(* What follows, whatever ports are opened, asked and killed *)

MovesInv == ControlInv /\ (~raced => ReadInv /\ WriteInv) /\ SumInv /\ SumBound

LEMMA InitMovesInv == ControlInit => MovesInv
<1> SUFFICES ASSUME ControlInit PROVE MovesInv
  OBVIOUS
<1>1. /\ mutex = FALSE /\ inWakeUp = FALSE /\ flight = "none" /\ connResult = "noErr"
      /\ readStorage = [ioReqCount |-> 0, ioActCount |-> 0]
      /\ writeStorage = [ioReqCount |-> PayloadSize, ioActCount |-> 0]
      /\ readData = <<>> /\ readExtraAvail = 0 /\ writeData = <<>> /\ sent = <<>> /\ delivered = <<>>
      /\ fed = 0 /\ fetched = 0 /\ ioActCount = [r \in Req |-> 0]
      /\ ioResult = [r \in Req |-> "unissued"]
      /\ opens = 0 /\ opening = NotOpening /\ status = NoStatus /\ killed = {} /\ raced = FALSE
      /\ replyLost = FALSE
  BY DEF ControlInit, Init
<1>2. HeldInv
  <2>1. WorkInv
    BY InitIInv, WorkIsPart DEF ControlInit
  <2> QED
    BY <1>1, <2>1 DEF HeldInv, WorkInv
<1>3. CallInv
  <2>1. opening \in [at : {"none", "readReqCount", "readActCount", "writeActCount"}, was : Results]
    BY <1>1 DEF NotOpening, Results
  <2>2. status \in [at : {"none", "actCount", "extraAvail"}, sum : Int, torn : BOOLEAN]
    BY <1>1 DEF NoStatus
  <2>3. opens \in 0..MaxOpens /\ killed \subseteq Req
    BY <1>1, OpensAssumption
  <2>4. raced \in BOOLEAN
    BY <1>1
  <2>5. status.at = "none" /\ flight # "write"
    BY <1>1 DEF NoStatus
  <2> QED
    BY <2>1, <2>2, <2>3, <2>4, <2>5 DEF CallInv
<1>4. PayloadSize \in Nat /\ ReqCount \in [Req -> Nat] /\ Writes \subseteq Req
  BY BoundsAssumption, RequestsAssumption DEF Req
<1>5. BufferInv
  BY <1>1, <1>4 DEF BufferInv, WriteSane, Storage
<1>6. ReadInv
  BY <1>1, <1>4 DEF ReadInv, ReadCounters, Increasing
<1>7. WriteInv
  BY <1>1 DEF WriteInv, Rising, Moved, Fresh
<1>8. SumInv /\ SumBound
  BY <1>1 DEF SumInv, SumBound, NoStatus
<1>9. LostInv
  <2>1. replyLost \in BOOLEAN
    BY <1>1, Zenon
  <2>2. readExtraAvail + fetched <= fed
    BY <1>1
  <2> QED
    BY <2>1, <2>2 DEF LostInv
<1> QED
  BY <1>2, <1>3, <1>5, <1>6, <1>7, <1>8, <1>9 DEF MovesInv, ControlInv

LEMMA StepMovesInv == MovesInv /\ [ControlNext]_<<vars, controlVars>> => MovesInv'
<1> SUFFICES ASSUME MovesInv, [ControlNext]_<<vars, controlVars>> PROVE MovesInv'
  OBVIOUS
<1>1. /\ ControlInv /\ HeldInv /\ CallInv /\ BufferInv /\ SumInv /\ SumBound
      /\ ~raced => ReadInv /\ WriteInv
  BY DEF MovesInv, ControlInv
<1>2. ControlInv'
  BY <1>1, StepHeldInv, StepCallInv, StepBufferInv, StepLostInv DEF ControlInv
<1>3. ~raced' => ReadInv' /\ WriteInv'
  BY <1>1, StepReadInv, StepWriteInv
<1> QED
  BY <1>1, <1>2, <1>3, StepSumInv, StepSumBound DEF MovesInv

THEOREM MovesInvariant == ControlSpec => []MovesInv
BY InitMovesInv, StepMovesInv, PTL DEF ControlSpec

\* The types hold as they do of the driver alone, but a killed request's result is
\* abortErr.
THEOREM ControlTypes == ControlSpec => []ControlTypeOK
<1>1. MovesInv => ControlTypeOK
  BY DEF MovesInv, ControlInv, HeldInv, CallInv, BufferInv, LostInv, OwnerTypes, RequestTypes, ControlTypeOK
<1> QED
  BY <1>1, MovesInvariant, PTL

\* doOpen's assignments, one by one between any two steps of the driver, leave
\* bufferCopy only sane counters: the write buffer's always, the read buffer's unless
\* a read was served between its two resets.
THEOREM CountersSaneUnlessRaced == ControlSpec => []SaneUnlessRaced
<1>1. MovesInv => SaneUnlessRaced
  BY DEF MovesInv, ControlInv, BufferInv, WriteSane, ReadInv, ReadCounters, SaneUnlessRaced
<1> QED
  BY <1>1, MovesInvariant, PTL

\* Opening a port, to get over an error or at any other moment, makes no byte move
\* twice, in either direction, but for the two races.
THEOREM NoByteMovesTwice == ControlSpec => []BytesMoveAtMostOnce
<1>1. MovesInv => BytesMoveAtMostOnce
  BY DEF MovesInv, ReadInv, WriteInv, Increasing, Rising, BytesMoveAtMostOnce
<1> QED
  BY <1>1, MovesInvariant, PTL

\* SerGetBuf's answer, put together from three reads that interrupts may come
\* between, is no more than what is left in the buffer and in the device, but for one
\* buffer when a counter changed between the reads; unless doOpen raced, or a reply was
\* lost whose bytes the reply before it had announced.
THEOREM StatusTellsTruth == ControlSpec => []AnswerIsTrue
<1> DEFINE slack == IF status.torn THEN PayloadSize ELSE 0
<1>1. ASSUME MovesInv, status.at = "extraAvail", ~raced, ~replyLost
      PROVE  Answer \in (0 - slack)..(CanBeRead + slack)
  <2> DEFINE a == readStorage.ioActCount
             e == readStorage.ioReqCount
  <2>1. opening.at = "none"
    BY <1>1 DEF MovesInv, ControlInv, CallInv, NotOpening
  <2>2. ~status.torn => status.sum = e - a
    BY <1>1 DEF MovesInv, SumInv
  <2>6. status.sum \in (0 - PayloadSize)..PayloadSize /\ PayloadSize \in Nat
    BY <1>1, BoundsAssumption DEF MovesInv, SumBound
  <2>3. a \in Nat /\ e \in Nat /\ a <= e
    BY <1>1, <2>1 DEF MovesInv, ReadInv, ReadCounters, ControlInv, BufferInv, Storage
  <2>4. fed \in Nat /\ fetched \in Nat /\ readExtraAvail \in Nat /\ readExtraAvail + fetched <= fed
    BY <1>1 DEF MovesInv, ControlInv, BufferInv, LostInv
  <2>5. Answer = status.sum + readExtraAvail /\ CanBeRead = (e - a) + (fed - fetched)
    BY DEF Answer, CanBeRead
  <2> HIDE DEF a, e
  <2>7. CASE status.torn
    BY <2>3, <2>4, <2>5, <2>6, <2>7
  <2>8. CASE ~status.torn
    BY <2>2, <2>3, <2>4, <2>5, <2>8
  <2> QED
    BY <2>7, <2>8
<1>2. MovesInv => AnswerIsTrue
  BY <1>1 DEF AnswerIsTrue
<1> QED
  BY <1>2, MovesInvariant, PTL

===============================================================================
