-------------------------- MODULE FujiSerialControl ---------------------------
(* The asynchronous driver with its other entry points: doOpen for one more     *)
(* port while the VBL task of the first runs already, doStatus and doControl.   *)
(* The main program may be interrupted between any two of their assignments.    *)
(* doClose does nothing (its callers' next request just finds the driver as it  *)
(* was), so it has no action.  Status calls and KillIO are immediate calls: the *)
(* Device Manager does not queue them.                                          *)
EXTENDS FujiSerialAsync

CONSTANT MaxOpens  \* bound: how often ports are opened
ASSUME OpensAssumption == MaxOpens \in Nat

VARIABLES
  opens,    \* how often doOpen was called
  opening,  \* doOpen: its next assignment, and what ioResult was before the first
  status,   \* doStatus: its next read, the sum so far, and if a term changed meanwhile
  killed,   \* history: requests that KillIO took off a queue
  raced,    \* history: an interrupt found the buffers half reset and used them
  replyLost \* history: since the last good reply one was lost, and bytes with it

controlVars == <<opens, opening, status, killed, raced, replyLost>>

NotOpening == [at |-> "none", was |-> "noErr"]
NoStatus == [at |-> "none", sum |-> 0, torn |-> FALSE]

ControlInit ==
  /\ Init /\ opens = 0 /\ opening = NotOpening /\ status = NoStatus /\ killed = {} /\ raced = FALSE
  /\ replyLost = FALSE

MainIsFree == opening = NotOpening /\ status = NoStatus
MayCall == MainIsFree /\ At("main", "idle") /\ waiting = NoReq

-------------------------------------------------------------------------------
(* doOpen.  vblCount and the VBL task are set up once only; the buffer addresses *)
(* and the write buffer's size are set to what they are.                        *)

\* mutant: opening releases the mutex too, as if nothing could be under way.
OpenReleasesMutex ==
  /\ MayCall /\ opens < MaxOpens
  /\ opens' = opens + 1
  /\ opening' = [at |-> "readReqCount", was |-> connResult]
  /\ connResult' = "noErr" /\ mutex' = FALSE
  /\ UNCHANGED <<inWakeUp, copyVars, readData, readExtraAvail, sendLength, flight, fed, fetched, sent,
                 dmVars, argVars, drvrInfo, pc, info, todo, scan, waiting, status, killed, raced, replyLost>>

\* A port is opened that was set up by the installer.
OpenClearsError ==
  /\ MayCall /\ opens < MaxOpens
  /\ opens' = opens + 1
  /\ opening' = [at |-> "readReqCount", was |-> connResult]
  /\ connResult' = "noErr"
  /\ UNCHANGED <<lockVars, copyVars, readData, readExtraAvail, sendLength, flight, fed, fetched, sent,
                 dmVars, argVars, drvrInfo, pc, info, todo, scan, waiting, status, killed, raced, replyLost>>

OpenStep(at, then) ==
  /\ opening.at = at /\ CanRun("main")
  /\ opening' = IF then = "none" THEN NotOpening ELSE [opening EXCEPT !.at = then]
  /\ UNCHANGED <<lockVars, connVars, ioActCount, bytesRead, bytesWritten, delivered, writeData,
                 dmVars, argVars, drvrInfo, pc, info, todo, scan, waiting, opens, status, killed, raced, replyLost>>

OpenResetsReadReqCount ==
  /\ OpenStep("readReqCount", "readActCount")
  /\ readStorage' = [readStorage EXCEPT !.ioReqCount = 0] /\ UNCHANGED writeStorage

\* mutant: only the size is reset.
OpenKeepsReadActCount ==
  OpenStep("readActCount", "writeActCount") /\ UNCHANGED <<readStorage, writeStorage>>

OpenResetsReadActCount ==
  /\ OpenStep("readActCount", "writeActCount")
  /\ readStorage' = [readStorage EXCEPT !.ioActCount = 0] /\ UNCHANGED writeStorage

\* mutant: the bytes that a failed message carried are kept for the next one.
OpenKeepsWriteActCount ==
  OpenStep("writeActCount", "none") /\ UNCHANGED <<readStorage, writeStorage>>

OpenResetsWriteActCount ==
  /\ OpenStep("writeActCount", "none")
  /\ writeStorage' = [writeStorage EXCEPT !.ioActCount = 0] /\ UNCHANGED readStorage

Open ==
  \/ OpenClearsError \/ OpenResetsReadReqCount \/ OpenResetsReadActCount \/ OpenResetsWriteActCount

-------------------------------------------------------------------------------
(* doStatus with csCode 2, SerGetBuf: the three counters are read one by one    *)

StatusStep(at, then) ==
  /\ status.at = at /\ CanRun("main")
  /\ status' = then
  /\ UNCHANGED <<vars, opens, opening, killed, raced, replyLost>>

StatusReadsReqCount ==
  MayCall /\ StatusStep("none", [NoStatus EXCEPT !.at = "actCount", !.sum = readStorage.ioReqCount])

\* mutant: what was read from the buffer already counts as available.
StatusIgnoresActCount == StatusStep("actCount", [status EXCEPT !.at = "extraAvail"])

StatusReadsActCount ==
  StatusStep("actCount", [status EXCEPT !.at = "extraAvail", !.sum = @ - readStorage.ioActCount])

StatusReturns == StatusStep("extraAvail", NoStatus)

Status == StatusReadsReqCount \/ StatusReadsActCount \/ StatusReturns

\* What doStatus returns in csParam[1], which keeps its low 16 bits.
Answer == status.sum + readExtraAvail

-------------------------------------------------------------------------------
(* doControl with csCode 1, KillIO: the driver does nothing, and the Device      *)
(* Manager then ends all requests in the unit's queue with abortErr.            *)

InQueue(d) == {queue[d][i] : i \in DOMAIN queue[d]}

KillIO(d) ==
  /\ MayCall /\ queue[d] # <<>>
  /\ queue' = [queue EXCEPT ![d] = <<>>]
  /\ ioResult' = [r \in Req |-> IF r \in InQueue(d) THEN "abortErr" ELSE ioResult[r]]
  /\ killed' = killed \cup InQueue(d)
  /\ UNCHANGED <<lockVars, copyVars, connVars, argVars, drvrInfo, pc, info, todo, scan, waiting,
                 opens, opening, status, raced, replyLost>>

-------------------------------------------------------------------------------
(* Everything else goes on meanwhile                                            *)

Interrupts ==
  \/ \E r \in Req : InterruptIssues(r) \/ CompletionIssues("intr", r)
  \/ Prime("intr") \/ Wake \/ VBLTask \/ TransferEnds \/ Feed

Program ==
  /\ MainIsFree
  /\ \/ \E r \in Req : MainIssues(r) \/ CompletionIssues("main", r)
     \/ MainAwakes \/ Prime("main")

\* A read is served between the two resets of the read buffer's counters, or the
\* bytes of a failed message are sent again before the write buffer is reset.
Races ==
  \/ /\ opening.at = "readActCount"
     /\ pc["intr"] = "copy" /\ pb["intr"] \in Reads /\ connResult = "noErr"
     /\ pc'["intr"] # "copy"
  \/ opening.was = "ioErr" /\ flight = "none" /\ flight' = "write"

IO ==
  /\ Interrupts \/ Program
  /\ raced' = (raced \/ Races)
  /\ replyLost' = (IF flight = "read" /\ flight' = "none"
                   THEN connResult' = "ioErr" /\ (replyLost \/ fetched' # fetched) ELSE replyLost)
  /\ status' = IF status.at = "none" THEN status
               ELSE [status EXCEPT !.torn = @ \/ readStorage' # readStorage
                                              \/ readExtraAvail' # readExtraAvail]
  /\ UNCHANGED <<opens, opening, killed>>

ControlNext == IO \/ Open \/ Status \/ \E d \in Drivers : KillIO(d)

ControlSpec == ControlInit /\ [][ControlNext]_<<vars, controlVars>>

-------------------------------------------------------------------------------
(* Properties *)

\* Every variable has its type; ioResult may be abortErr.
ControlTypeOK ==
  /\ mutex \in BOOLEAN /\ inWakeUp \in BOOLEAN /\ raced \in BOOLEAN /\ replyLost \in BOOLEAN /\ opens \in 0..MaxOpens
  /\ readStorage \in Storage /\ writeStorage \in Storage /\ readExtraAvail \in Nat
  /\ connResult \in Results /\ flight \in {"none", "write", "read"}
  /\ ioResult \in [Req -> Results \cup {"unissued", "abortErr"}] /\ ioActCount \in [Req -> Int]
  /\ queue \in [Drivers -> Seq(Req)] /\ killed \subseteq Req
  /\ pc \in [Ctx -> Labels] /\ waiting \in Req \cup {NoReq}
  /\ opening \in [at : {"none", "readReqCount", "readActCount", "writeActCount"}, was : Results]
  /\ status \in [at : {"none", "actCount", "extraAvail"}, sum : Int, torn : BOOLEAN]

\* Opening a port declares the shared connection idle while a transfer may be in
\* flight, but never makes it be used twice: the mutex, which doOpen leaves alone,
\* still says exactly who owns the buffers.  (doOpen's ioResult = noErr against the
\* test in fujiVBLTask.)
OpenKeepsMutex == VblMutexExcludes

\* Opening a port at any moment does not make a counter leave its buffer, whatever it
\* throws away: bufferCopy's sanity checks fire only after a read was served between
\* the two resets of the read buffer.  (doOpen's assignments against bufferCopy.)
SaneUnlessRaced ==
  /\ writeStorage.ioReqCount = PayloadSize
  /\ writeStorage.ioActCount \in 0..PayloadSize /\ writeStorage.ioActCount <= Len(writeData)
  /\ flight = "write" => writeStorage.ioActCount \in {0, sendLength}
  /\ raced \/
     /\ readStorage.ioActCount >= 0 /\ readStorage.ioReqCount \in 0..Len(readData)
     /\ readStorage.ioActCount <= readStorage.ioReqCount \/ opening.at = "readActCount"
     /\ \A r \in Req : ioActCount[r] \in 0..ReqCount[r]

\* Opening a port may lose bytes but does not move any twice or out of order, also
\* when it is opened to get over an error: a message that may have arrived is not sent
\* again and fetched bytes are not delivered again, but for the races above.
BytesMoveAtMostOnce ==
  raced \/
  /\ \A i, j \in 1..Len(delivered) : i < j => delivered[i] < delivered[j]
  /\ \A i, j \in 1..Len(sent) : i < j /\ sent[i][1] = sent[j][1] => sent[i][2] < sent[j][2]

\* What a program can still read: the rest of the buffer, and what the device has.
CanBeRead == (readStorage.ioReqCount - readStorage.ioActCount) + (fed - fetched)

\* SerGetBuf promises no more than can be read, also when other requests were served
\* or a port was opened before (which discards the buffer and keeps readExtraAvail).
\* No mutex protects its reads: after a counter changed between them the sum may be
\* wrong, even negative, but by no more than one buffer.  Excepted are a race of
\* doOpen, and a missing reply whose bytes the device gave up: opening the port clears
\* the error but not what the reply before it announced.
AnswerIsTrue ==
  LET slack == IF status.torn THEN PayloadSize ELSE 0
  IN status.at = "extraAvail" /\ ~raced /\ ~replyLost =>
       Answer \in (0 - slack)..(CanBeRead + slack)

\* As long as no request is killed, no request is lost or completed in the place of
\* another, however often ports are opened while requests are parked.  (doOpen leaves
\* drvrInfo alone; with KillIO this ends, see ServesQueuedOnly.)
OnlyKillIOMixesRequests == killed = {} => OldestIsKeptOnce /\ CompletesWhatItServed

\* A wake up lets drivers "complete queued I/O" only.  (Violated: KillIO leaves the
\* request in pendingPb, and the next wake up copies into a parameter block that its
\* owner got back, and completes with it whatever request heads the queue by then.)
ServesQueuedOnly == \A c \in Ctx : pc[c] = "copy" => Queued(pb[c])

===============================================================================
