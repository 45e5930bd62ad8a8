---------------------- MODULE FujiSerialAsync_refinement ----------------------
(* FujiSerialAsync implements SerialPort, for any number of drivers and requests *)
(* and any size of the message block: every step of the driver, of an interrupt *)
(* or of the Device Manager is a step of the abstract port or leaves it alone.   *)
EXTENDS FujiSerialAsync_requests

USE DEF Ctx

-------------------------------------------------------------------------------
(* What the requests invariant does not say yet *)

\* A thread serves a request that was made, and completes it with noErr when all its
\* bytes were moved, with ioErr when a transfer has failed.
ResultInv ==
  \A c \in Ctx :
    /\ pc[c] \notin {"idle", "scan"} => ioResult[pb[c]] # "unissued"
    /\ pc[c] \in {"result", "iodone"} =>
         /\ err[c] = "noErr" => ioActCount[pb[c]] = ReqCount[pb[c]]
         /\ err[c] = "ioErr" => connResult = "ioErr"

\* A reply is on its way only to an empty buffer.
FillInv == flight = "read" => ReadBufferEmpty

\* A transfer of kind "read" starts when the buffer is empty, and no copy happens
\* before it ends.
LEMMA StepFillInv == IInv /\ FillInv /\ [Next]_vars => FillInv'
<1> SUFFICES ASSUME IInv, FillInv, [Next]_vars PROVE FillInv'
  OBVIOUS
<1> USE DEF At, FillInv, ReadBufferEmpty
<1>1. ASSUME NEW c \in Ctx, Copy(c) PROVE FillInv'
  <2>1. flight = "none"
    BY <1>1 DEF Copy, IInv, TypeOK, LockInv, OwnerInv, VblMutexExcludes
  <2> QED
    BY <1>1, <2>1 DEF Copy, connVars
<1>2. ASSUME NEW c \in Ctx, Prime(c), ~Copy(c) PROVE FillInv'
  BY <1>2 DEF Prime, Enter, Find, Claim, ParkDce, ParkPb, Result, IODone, CompletionReturns, Return,
     copyVars, connVars
<1>3. ASSUME NEW c \in Ctx, NEW r \in Req, MainIssues(r) \/ InterruptIssues(r) \/ CompletionIssues(c, r)
      PROVE  FillInv'
  BY <1>3 DEF MainIssues, InterruptIssues, CompletionIssues, IssueRequest, copyVars, connVars
<1>4. CASE MainAwakes \/ Wake \/ Feed \/ UNCHANGED vars
  BY <1>4 DEF MainAwakes, Wake, ScanEnd, ScanSkip, ScanPrime, Feed, vars, copyVars, connVars
<1>5. CASE VBLTask \/ TransferEnds
  BY <1>5 DEF VBLTask, VBLFlush, VBLFill, VBLWake, TransferEnds, WriteDone, ReadDone, TransferFails,
     StartTransfer, copyVars, connVars
<1> QED
  BY <1>1, <1>2, <1>3, <1>4, <1>5 DEF Next

\* Once made, a request is never new again.
LEMMA StaysIssued ==
  ASSUME IInv, [Next]_vars
  PROVE  \A r \in Req : ioResult[r] # "unissued" => ioResult'[r] # "unissued"
<1> DEFINE Goal == \A r \in Req : ioResult[r] # "unissued" => ioResult'[r] # "unissued"
<1>0. /\ ioResult \in [Req -> Results \cup {"unissued"}] /\ err \in [Ctx -> Results]
      /\ "unissued" \notin Results /\ "inProgress" \in Results
  BY DEF IInv, TypeOK, Results
<1>1. ASSUME NEW c \in Ctx, NEW r \in Req, MainIssues(r) \/ InterruptIssues(r) \/ CompletionIssues(c, r)
      PROVE  Goal
  BY <1>0, <1>1 DEF MainIssues, InterruptIssues, CompletionIssues, IssueRequest
<1>2. ASSUME NEW c \in Ctx, Result(c) \/ IODone(c) PROVE Goal
  <2>1. \E q : ioResult' = [ioResult EXCEPT ![q] = err[c]]
    BY <1>2 DEF Result, IODone
  <2> QED
    BY <1>0, <2>1
<1>3. ASSUME NEW c \in Ctx, Prime(c), ~Result(c), ~IODone(c) PROVE Goal
  BY <1>3 DEF Prime, Enter, Copy, Find, Claim, ParkDce, ParkPb, CompletionReturns, Return, dmVars
<1>4. CASE MainAwakes \/ Wake \/ VBLTask \/ TransferEnds \/ Feed \/ UNCHANGED vars
  BY <1>4 DEF MainAwakes, Wake, ScanEnd, ScanSkip, ScanPrime, VBLTask, VBLFlush, VBLFill, VBLWake,
     TransferEnds, WriteDone, ReadDone, TransferFails, Feed, vars, dmVars
<1> QED
  BY <1>1, <1>2, <1>3, <1>4 DEF Next

\* Whoever answers for a request, it is one that was made.
LEMMA HeldIsIssued ==
  ASSUME IInv, KInv, NEW r \in Req, Oldest(r)
  PROVE  ioResult[r] # "unissued" /\ Queued(r)
<1> USE WorkIsPart
<1> DEFINE q == queue[DriverOf[r]]
<1>1. q \in Seq(Req) /\ q # <<>> /\ Head(q) = r /\ DriverOf[r] \in Drivers
  BY Types DEF Oldest
<1> HIDE DEF q
<1>2. 1 \in 1..Len(q) /\ q[1] = r
  BY <1>1
<1> QED
  BY <1>1, <1>2 DEF q, Queued, KInv, QueueInv

\* The result that a thread is about to store: doPrime's, which the copy decided.
LEMMA StepResultInv ==
  ASSUME IInv, KInv, ResultInv, [Next]_vars
  PROVE  ResultInv'
<1> USE WorkIsPart
<1> USE DEF At, CanRun, GoTo
<1>0. /\ \A r \in Req : ioResult[r] # "unissued" => ioResult'[r] # "unissued"
      /\ \A c \in Ctx : pc[c] \notin {"idle", "scan"} => pb[c] \in Req
  BY StaysIssued, Types
\* A thread that is not to store a result goes on, or starts a request.
<1>a. ASSUME NEW c \in Ctx, UNCHANGED <<connResult, ioActCount>>,
             \A b \in Ctx : b # c => pc'[b] = pc[b] /\ pb'[b] = pb[b] /\ err'[b] = err[b],
             pc'[c] \notin {"result", "iodone"},
             \/ pc'[c] \in {"idle", "scan"}
             \/ pc[c] \notin {"idle", "scan"} /\ pb'[c] = pb[c]
             \/ pb'[c] \in Req /\ ioResult'[pb'[c]] # "unissued"
      PROVE  ResultInv'
  BY <1>0, <1>a DEF ResultInv
\* A transfer starts or ends: no thread has seen an error yet.
<1>b. ASSUME UNCHANGED <<ioActCount, pb, err>>, connResult # "ioErr",
             pc' = pc \/ pc' = [pc EXCEPT !["intr"] = "scan"]
      PROVE  ResultInv'
  <2>1. \A b \in Ctx : pc'[b] = pc[b] \/ pc'[b] = "scan"
    BY <1>b, Types
  <2> QED
    BY <1>0, <1>b, <2>1 DEF ResultInv
<1>c. ASSUME NEW c \in Ctx, NEW r \in Req, NEW l \in {"idle", "return"}, IssueRequest(c, r, l),
             l = "return" => pc[c] = "call"
      PROVE  ResultInv'
  <2>1. ioResult'[r] # "unissued"
    BY <1>c DEF IssueRequest, IInv, TypeOK
  <2>2. UNCHANGED <<connResult, ioActCount>>
    BY <1>c DEF IssueRequest, copyVars, connVars
  <2>3. CASE StartPrime(c, r, DriverOf[r])
    <3>1. pc'[c] = "enter" /\ pb'[c] = r
          /\ \A b \in Ctx : b # c => pc'[b] = pc[b] /\ pb'[b] = pb[b] /\ err'[b] = err[b]
      BY <2>3, Types DEF StartPrime
    <3> QED
      BY <1>a, <2>1, <2>2, <3>1
  <2>4. CASE pc' = [pc EXCEPT ![c] = l] /\ UNCHANGED argVars
    <3>1. pc'[c] = l /\ \A b \in Ctx : b # c => pc'[b] = pc[b]
      BY <2>4, Types
    <3> QED
      BY <1>a, <1>c, <2>2, <2>4, <3>1 DEF argVars
  <2> QED
    BY <1>c, <2>3, <2>4 DEF IssueRequest
<1>1. ASSUME NEW r \in Req, MainIssues(r) \/ InterruptIssues(r) PROVE ResultInv'
  BY <1>c, <1>1 DEF MainIssues, InterruptIssues
<1>2. ASSUME NEW c \in Ctx, NEW r \in Req, CompletionIssues(c, r) PROVE ResultInv'
  BY <1>c, <1>2 DEF CompletionIssues
<1>3. ASSUME NEW c \in Ctx, Prime(c) PROVE ResultInv'
  <2>1. CASE Enter(c) \/ Find(c) \/ Claim(c) \/ ParkDce(c) \/ IODone(c) \/ CompletionReturns(c)
    <3>1. /\ pc[c] \notin {"idle", "scan"} /\ UNCHANGED <<pb, err, connResult, ioActCount>>
          /\ \E l \in {"copy", "find", "claim", "parkDce", "parkPb", "call", "return"} :
               pc' = [pc EXCEPT ![c] = l]
      BY <2>1 DEF Enter, Find, Claim, ParkDce, IODone, CompletionReturns, argVars, copyVars, connVars
    <3>2. pc'[c] \notin {"result", "iodone"} /\ \A b \in Ctx : b # c => pc'[b] = pc[b]
      BY <3>1, Types
    <3> QED
      BY <1>a, <3>1, <3>2
  <2>2. CASE Return(c)
    <3>0. UNCHANGED <<connResult, ioActCount>>
      BY <2>2 DEF Return, copyVars, connVars
    <3>1. CASE todo[c] # <<>>
      <4> DEFINE r == Head(todo[c])
      <4>1. todo \in [Ctx -> Seq(Req)] /\ 1 \in 1..Len(todo[c]) /\ todo[c][1] = r /\ r \in Req
        <5>1. todo[c] \in Seq(Req) /\ todo[c] # <<>> /\ todo \in [Ctx -> Seq(Req)]
          BY <3>1, Types
        <5> QED
          BY <5>1
      <4>2. Left(c, r)
        BY <4>1 DEF Left
      <4>3. StartPrime(c, r, DriverOf[r])
        BY <2>2, <3>1 DEF Return
      <4> HIDE DEF r
      <4>4. ioResult'[r] # "unissued"
        BY <1>0, <4>1, <4>2, HeldIsIssued DEF KInv, KeptOnce
      <4>5. pc'[c] = "enter" /\ pb'[c] = r
            /\ \A b \in Ctx : b # c => pc'[b] = pc[b] /\ pb'[b] = pb[b] /\ err'[b] = err[b]
        BY <4>3, Types DEF StartPrime
      <4> QED
        BY <1>a, <3>0, <4>1, <4>4, <4>5
    <3>2. CASE todo[c] = <<>>
      <4>1. UNCHANGED <<pb, err>> /\ pc'[c] \in {"idle", "scan"} /\ \A b \in Ctx : b # c => pc'[b] = pc[b]
        BY <2>2, <3>2, Types DEF Return, argVars
      <4> QED
        BY <1>a, <3>0, <4>1
    <3> QED
      BY <3>1, <3>2
  <2>3. CASE ParkPb(c) \/ Result(c)
    <3>1. /\ UNCHANGED <<pb, err, connResult, ioActCount>> /\ pc[c] \notin {"idle", "scan"}
          /\ \A b \in Ctx : b # c => pc'[b] = pc[b]
      BY <2>3, Types DEF ParkPb, Result, argVars, copyVars, connVars
    <3>2. pc[c] = "result" \/ err[c] = "inProgress"
      BY <2>3 DEF ParkPb, Result, KInv, ServeInv
    <3> QED
      BY <1>0, <3>1, <3>2 DEF ResultInv
  <2>4. CASE Copy(c)
    <3>1. /\ pc[c] = "copy" /\ UNCHANGED <<pb, connResult>> /\ pb[c] \in Req
          /\ \A b \in Ctx : b # c => pc'[b] = pc[b] /\ err'[b] = err[b]
          /\ \A q \in Req : q # pb[c] => ioActCount'[q] = ioActCount[q]
      BY <2>4, Types DEF Copy, CopyRead, CopyWrite, CopyRefused, CopyResult, connVars, copyVars,
         IInv, TypeOK
    <3>2. /\ err'[c] = "noErr" => ioActCount'[pb[c]] = ReqCount[pb[c]]
          /\ err'[c] = "ioErr" => connResult = "ioErr"
      <4>1. CASE CopyRefused(c)
        BY <4>1, Types DEF CopyRefused
      <4>2. CASE CopyRead(c) \/ CopyWrite(c)
        <5>1. ioActCount \in [Req -> Int] /\ pb[c] \in Req /\ err \in [Ctx -> Results]
          BY <3>1 DEF IInv, TypeOK
        <5>2. PICK n : CopyResult(c, n)
          BY <4>2 DEF CopyRead, CopyWrite
        <5> QED
          BY <5>1, <5>2 DEF CopyResult
      <4> QED
        BY <2>4, <4>1, <4>2 DEF Copy
    <3>3. \A b \in Ctx : b # c /\ pc[b] \in {"result", "iodone"} /\ err[b] = "noErr" => pb[b] # pb[c]
      <4> SUFFICES ASSUME NEW b \in Ctx, b # c, pc[b] \in {"result", "iodone"}, err[b] = "noErr",
                          pb[b] = pb[c]
                   PROVE  FALSE
        OBVIOUS
      <4>1. Running(b, pb[c]) /\ Running(c, pb[c])
        BY <3>1 DEF Running
      <4> QED
        BY <3>1, <4>1 DEF KInv, KeptOnce
    <3> QED
      BY <1>0, <3>1, <3>2, <3>3 DEF ResultInv
  <2> QED
    BY <1>3, <2>1, <2>2, <2>3, <2>4 DEF Prime
<1>4. CASE ScanPrime
  <2> DEFINE r == drvrInfo[scan].pendingPb
  <2>1. /\ scan \in 1..Entries /\ r \in Req /\ StartPrime("intr", r, drvrInfo[scan].pendingDce)
        /\ UNCHANGED <<connResult, ioActCount>>
    BY <1>4, Types DEF ScanPrime, InTable, copyVars, connVars
  <2>2. Oldest(r)
    <3>1. Parked(scan, r)
      BY DEF Parked
    <3> QED
      BY <2>1, <3>1 DEF KInv, KeptOnce
  <2> HIDE DEF r
  <2>3. ioResult'[r] # "unissued"
    BY <1>0, <2>1, <2>2, HeldIsIssued
  <2>4. pc'["intr"] = "enter" /\ pb'["intr"] = r
        /\ \A b \in Ctx : b # "intr" => pc'[b] = pc[b] /\ pb'[b] = pb[b] /\ err'[b] = err[b]
    BY <2>1, Types DEF StartPrime
  <2> QED
    BY <1>a, <2>1, <2>3, <2>4
<1>5. CASE VBLTask \/ TransferEnds
  <2>1. UNCHANGED <<ioActCount, pb, err>>
        /\ (pc' = pc \/ pc' = [pc EXCEPT !["intr"] = "scan"])
    BY <1>5 DEF VBLTask, VBLFlush, VBLFill, VBLWake, TransferEnds, WriteDone, ReadDone, TransferFails,
       StartWakeUp, argVars, copyVars
  <2>2. connResult # "ioErr" \/ UNCHANGED connResult
    BY <1>5 DEF VBLTask, VBLFlush, VBLFill, VBLWake, TransferEnds, WriteDone, ReadDone, TransferFails,
       IInv, LockInv, connVars
  <2>3. CASE UNCHANGED connResult
    <3>1. \A b \in Ctx : pc'[b] = pc[b] \/ pc'[b] = "scan"
      BY <2>1, Types
    <3> QED
      BY <1>0, <2>1, <2>3, <3>1 DEF ResultInv
  <2> QED
    BY <1>b, <2>1, <2>2, <2>3
<1>6. CASE MainAwakes \/ ScanEnd \/ ScanSkip \/ Feed \/ UNCHANGED vars
  <2>1. UNCHANGED <<pb, err, connResult, ioActCount>>
    BY <1>6 DEF MainAwakes, ScanEnd, ScanSkip, Feed, vars, argVars, copyVars, connVars
  <2>2. \A b \in Ctx : pc'[b] = pc[b] \/ pc'[b] = "idle"
    BY <1>6, Types DEF MainAwakes, ScanEnd, ScanSkip, Feed, vars
  <2> QED
    BY <1>0, <2>1, <2>2 DEF ResultInv
<1> QED
  BY <1>1, <1>2, <1>3, <1>4, <1>5, <1>6 DEF Next, Wake

-------------------------------------------------------------------------------
(* The abstract port's variables that are computed here *)

Status == [r \in Req |-> IF ioResult[r] = "unissued" THEN "new"
                         ELSE IF Queued(r) THEN "open" ELSE "closed"]
Outgoing == SubSeq(writeData, 1, writeStorage.ioActCount)
Incoming == SubSeq(readData, readStorage.ioActCount + 1, readStorage.ioReqCount)
Broken == connResult = "ioErr"

\* A step that changes none of them, nor the queues, the requests' counters, and
\* what the device has seen.
Stutter == UNCHANGED <<Status, queue, ioActCount, Outgoing, sent, Incoming, fetched, delivered, Broken>>

LEMMA StutterIsAllowed == Stutter => UNCHANGED Port!portVars
BY DEF Stutter, Port!portVars, Status, Outgoing, Incoming, Broken

\* Copying, parking and waking move no request into or out of its queue.
LEMMA StatusStays ==
  ASSUME UNCHANGED queue,
         \A r \in Req : ioResult'[r] = "unissued" <=> ioResult[r] = "unissued"
  PROVE  UNCHANGED Status
BY DEF Status, Queued

\* The initial states are the abstract port's.
LEMMA InitRefines == Init => Port!Init
<1> SUFFICES ASSUME Init PROVE Port!Init
  OBVIOUS
<1>1. SubSeq(writeData, 1, writeStorage.ioActCount) = <<>>
      /\ SubSeq(readData, readStorage.ioActCount + 1, readStorage.ioReqCount) = <<>>
  BY SubSeqEmpty DEF Init
<1>2. /\ queue = [d \in Drivers |-> <<>>] /\ ioResult = [r \in Req |-> "unissued"]
      /\ ioActCount = [r \in Req |-> 0] /\ sent = <<>> /\ fetched = 0 /\ delivered = <<>>
      /\ connResult # "ioErr"
  BY DEF Init
<1>3. Port!Req = Req
  BY DEF Port!Req, Req
<1> QED
  BY <1>1, <1>2, <1>3 DEF Port!Init

\* A request is submitted.
LEMMA IssueRefines ==
  ASSUME IInv, KInv, NEW c \in Ctx, NEW r \in Req, NEW l, IssueRequest(c, r, l)
  PROVE  Port!Submit(r)
<1> USE WorkIsPart
<1> DEFINE d == DriverOf[r]
           q == queue[d]
<1>1. /\ d \in Drivers /\ q \in Seq(Req) /\ ioResult \in [Req -> Results \cup {"unissued"}]
      /\ "inProgress" # "unissued"
  BY Types DEF IInv, TypeOK
<1>2. /\ ioResult[r] = "unissued" /\ ioResult' = [ioResult EXCEPT ![r] = "inProgress"]
      /\ queue' = [queue EXCEPT ![d] = Append(q, r)]
      /\ UNCHANGED <<ioActCount, writeData, writeStorage, sent, readData, readStorage, fetched, delivered,
                     connResult>>
  BY DEF IssueRequest, copyVars, connVars
<1>3. \A x \in Req : DriverOf[x] # d => (Queued(x)' <=> Queued(x))
  BY <1>2, Types DEF Queued
<1>4. queue'[d] = Append(q, r)
  BY <1>1, <1>2, Types
<1> HIDE DEF q
<1>5. /\ Len(Append(q, r)) = Len(q) + 1 /\ Len(q) \in Nat /\ Append(q, r)[Len(q) + 1] = r
      /\ \A i \in 1..Len(q) : Append(q, r)[i] = q[i]
  BY <1>1
<1>6. \A x \in Req : DriverOf[x] = d => (Queued(x)' <=> Queued(x) \/ x = r)
  <2> SUFFICES ASSUME NEW x \in Req, DriverOf[x] = d PROVE Queued(x)' <=> Queued(x) \/ x = r
    OBVIOUS
  <2>1. Queued(x)' <=> \E i \in 1..Len(Append(q, r)) : Append(q, r)[i] = x
    BY <1>4 DEF Queued
  <2>2. Queued(x) <=> \E i \in 1..Len(q) : q[i] = x
    BY DEF Queued, q
  <2>3. (\E i \in 1..Len(Append(q, r)) : Append(q, r)[i] = x) => (\E i \in 1..Len(q) : q[i] = x) \/ x = r
    <3> SUFFICES ASSUME NEW i \in 1..Len(Append(q, r)), Append(q, r)[i] = x, x # r
                 PROVE  \E k \in 1..Len(q) : q[k] = x
      OBVIOUS
    <3>1. i \in 1..Len(q) /\ q[i] = x
      BY <1>5
    <3> QED
      BY <3>1
  <2>4. x = r => \E i \in 1..Len(Append(q, r)) : Append(q, r)[i] = x
    <3>1. Len(q) + 1 \in 1..Len(Append(q, r))
      BY <1>5
    <3> QED
      BY <1>5, <3>1
  <2>5. (\E i \in 1..Len(q) : q[i] = x) => \E i \in 1..Len(Append(q, r)) : Append(q, r)[i] = x
    <3> SUFFICES ASSUME NEW i \in 1..Len(q), q[i] = x
                 PROVE  \E k \in 1..Len(Append(q, r)) : Append(q, r)[k] = x
      OBVIOUS
    <3>1. i \in 1..Len(Append(q, r)) /\ Append(q, r)[i] = x
      BY <1>5
    <3> QED
      BY <3>1
  <2> QED
    BY <2>1, <2>2, <2>3, <2>4, <2>5
<1>7. Status[r] = "new"
  BY <1>2 DEF Status
<1>8. Status' = [Status EXCEPT ![r] = "open"]
  <2>1. \A x \in Req : x # r => Status'[x] = Status[x]
    BY <1>1, <1>2, <1>3, <1>6 DEF Status
  <2>2. Status'[r] = "open"
    BY <1>1, <1>2, <1>6 DEF Status
  <2> QED
    BY <2>1, <2>2 DEF Status
<1> QED
  BY <1>2, <1>7, <1>8 DEF Port!Submit, Status, q

\* A request is completed: the one that was served, in full or with the error.
LEMMA CompletionRefines ==
  ASSUME IInv, KInv, ResultInv, NEW c \in Ctx, IODone(c), NEW r \in Req, r = pb[c]
  PROVE  Port!Close(r)
<1> USE WorkIsPart
<1> DEFINE d == DriverOf[r]
           q == queue[d]
<1>1. /\ r \in Req /\ dce[c] = d /\ d \in Drivers /\ q \in Seq(Req) /\ q # <<>> /\ Head(q) = r
      /\ pc[c] = "iodone" /\ err[c] \in Results /\ err[c] # "inProgress"
  BY ServedIsOldest, Types DEF IODone, At, KInv, ServeInv
<1>2. /\ ioResult' = [ioResult EXCEPT ![r] = err[c]]
      /\ queue' = [queue EXCEPT ![d] = Tail(q)]
      /\ UNCHANGED <<ioActCount, writeData, writeStorage, sent, readData, readStorage, fetched, delivered,
                     connResult>>
  BY <1>1 DEF IODone, copyVars, connVars
<1>3. ioActCount[r] = ReqCount[r] \/ connResult = "ioErr"
  BY <1>1 DEF ResultInv, Results
<1>4. \A x \in Req : DriverOf[x] # d => (Queued(x)' <=> Queued(x))
  BY <1>1, <1>2, Types DEF Queued
<1>5. queue'[d] = Tail(q) /\ ioResult \in [Req -> Results \cup {"unissued"}] /\ "unissued" \notin Results
  BY <1>1, <1>2, Types DEF IInv, TypeOK, Results
<1>6. \A i \in 1..Len(Tail(q)) : Tail(q)[i] # r
  BY <1>1, AppendTailOnce DEF KInv, QueueInv
<1> HIDE DEF q
<1>7. /\ Len(Tail(q)) = Len(q) - 1 /\ Len(q) \in Nat /\ q[1] = r
      /\ \A i \in 1..Len(Tail(q)) : Tail(q)[i] = q[i + 1]
  BY <1>1
<1>8. \A x \in Req : DriverOf[x] = d => (Queued(x)' <=> Queued(x) /\ x # r)
  <2> SUFFICES ASSUME NEW x \in Req, DriverOf[x] = d PROVE Queued(x)' <=> Queued(x) /\ x # r
    OBVIOUS
  <2>1. Queued(x)' <=> \E i \in 1..Len(Tail(q)) : Tail(q)[i] = x
    BY <1>5 DEF Queued
  <2>2. Queued(x) <=> \E i \in 1..Len(q) : q[i] = x
    BY DEF Queued, q
  <2>3. ASSUME NEW i \in 1..Len(Tail(q)), Tail(q)[i] = x PROVE x # r /\ \E k \in 1..Len(q) : q[k] = x
    <3>1. i + 1 \in 1..Len(q) /\ q[i + 1] = x
      BY <1>7, <2>3
    <3> QED
      BY <1>6, <2>3, <3>1
  <2>4. ASSUME NEW i \in 1..Len(q), q[i] = x, x # r PROVE \E k \in 1..Len(Tail(q)) : Tail(q)[k] = x
    <3>1. i - 1 \in 1..Len(Tail(q)) /\ Tail(q)[i - 1] = x
      BY <1>7, <2>4
    <3> QED
      BY <3>1
  <2> QED
    BY <2>1, <2>2, <2>3, <2>4
<1>9. Status' = [Status EXCEPT ![r] = "closed"]
  <2>1. \A x \in Req : x # r => Status'[x] = Status[x]
    BY <1>1, <1>2, <1>4, <1>8 DEF Status
  <2>2. Status'[r] = "closed"
    BY <1>1, <1>2, <1>5, <1>8 DEF Status
  <2> QED
    BY <2>1, <2>2 DEF Status
<1> QED
  BY <1>1, <1>2, <1>3, <1>9 DEF Port!Close, Port!Oldest, Status, q

\* What is left of a sequence after its first a elements, and after n more.
LEMMA SubSeqAfter ==
  ASSUME NEW S, NEW s \in Seq(S), NEW a \in 0..Len(s), NEW n \in 0..(Len(s) - a)
  PROVE  LET rest == SubSeq(s, a + 1, Len(s)) IN
           /\ rest \in Seq(S) /\ Len(rest) = Len(s) - a
           /\ SubSeq(rest, 1, n) = SubSeq(s, a + 1, a + n)
           /\ SubSeq(rest, n + 1, Len(rest)) = SubSeq(s, a + n + 1, Len(s))
<1> DEFINE rest == SubSeq(s, a + 1, Len(s))
           m == Len(s)
<1>1. m \in Nat /\ a \in Nat /\ n \in Nat /\ a + n <= m /\ \A i \in 1..m : s[i] \in S
  OBVIOUS
<1> HIDE DEF m
<1>2. /\ rest \in Seq(S) /\ Len(rest) = m - a
      /\ \A i \in 1..(m - a) : rest[i] = s[a + i]
  <2>1. \A i \in (a + 1)..m : s[i] \in S
    BY <1>1
  <2>2. rest = SubSeq(s, a + 1, m)
    BY DEF m
  <2> HIDE DEF rest
  <2>3. /\ rest \in Seq(S) /\ Len(rest) = IF a + 1 <= m THEN m - (a + 1) + 1 ELSE 0
        /\ \A i \in 1..(m - (a + 1) + 1) : rest[i] = s[(a + 1) + i - 1]
    BY <1>1, <2>1, <2>2, SubSeqProperties
  <2> QED
    BY <1>1, <2>3
<1> HIDE DEF rest
<1>3. \A i \in 1..(m - a) : rest[i] \in S
  BY <1>1, <1>2
<1>4. SubSeq(rest, 1, n) = SubSeq(s, a + 1, a + n)
  <2>1. /\ SubSeq(rest, 1, n) \in Seq(S) /\ Len(SubSeq(rest, 1, n)) = n
        /\ \A i \in 1..n : SubSeq(rest, 1, n)[i] = rest[i]
    BY <1>1, <1>2, <1>3
  <2>2. /\ SubSeq(s, a + 1, a + n) \in Seq(S) /\ Len(SubSeq(s, a + 1, a + n)) = n
        /\ \A i \in 1..n : SubSeq(s, a + 1, a + n)[i] = s[a + i]
    BY <1>1 DEF m
  <2>3. \A i \in 1..n : rest[i] = s[a + i]
    BY <1>1, <1>2
  <2> QED
    BY <2>1, <2>2, <2>3, SeqEqual
<1>5. SubSeq(rest, n + 1, m - a) = SubSeq(s, a + n + 1, m)
  <2> DEFINE k == m - a - n
  <2>1. /\ SubSeq(rest, n + 1, m - a) \in Seq(S) /\ Len(SubSeq(rest, n + 1, m - a)) = k
        /\ \A i \in 1..k : SubSeq(rest, n + 1, m - a)[i] = rest[n + i]
    BY <1>1, <1>2, <1>3
  <2>2. /\ SubSeq(s, a + n + 1, m) \in Seq(S) /\ Len(SubSeq(s, a + n + 1, m)) = k
        /\ \A i \in 1..k : SubSeq(s, a + n + 1, m)[i] = s[a + (n + i)]
    BY <1>1 DEF m
  <2>3. \A i \in 1..k : rest[n + i] = s[a + (n + i)]
    BY <1>1, <1>2
  <2> QED
    BY <2>1, <2>2, <2>3, SeqEqual
<1> QED
  BY <1>2, <1>4, <1>5 DEF rest, m

\* What a read receives is the next of what was fetched.
LEMMA ReadRefines ==
  ASSUME IInv, KInv, NEW c \in Ctx, Copy(c), CopyRead(c)
  PROVE  Stutter \/ \E n \in 1..PayloadSize : Port!Take(pb[c], n)
<1> USE WorkIsPart
<1> DEFINE r == pb[c]
           n == CopyCount(readStorage, PbSpec(pb[c]))
           a == readStorage.ioActCount
           e == readStorage.ioReqCount
<1>1. /\ r \in Reads /\ r \in Req /\ Oldest(r)
  BY ServedIsOldest DEF Copy, At, CopyRead, KInv, Oldest
<1>2. /\ n \in Nat /\ n <= e - a /\ n <= ReqCount[r] - ioActCount[r]
      /\ e = Len(readData) /\ e <= PayloadSize /\ a \in 0..e
      /\ readData \in Seq(Nat) /\ ioActCount[r] \in Nat /\ ReqCount[r] \in Nat
      /\ ioActCount \in [Req -> Int] /\ readStorage \in Storage /\ delivered \in Seq(Nat)
  <2>1. TypeOK /\ SaneCounters
    BY DEF IInv
  <2>2. n \in Nat /\ n <= e - a /\ n <= ReqCount[r] - ioActCount[r]
    BY <1>1, <2>1, CopyBounds
  <2>3. e = Len(readData) /\ e <= PayloadSize /\ a \in 0..e /\ ioActCount[r] \in 0..ReqCount[r]
    BY <1>1, <2>1 DEF SaneCounters
  <2> QED
    BY <1>1, <2>1, <2>2, <2>3, RequestsAssumption DEF TypeOK
<1>3. /\ connResult = "noErr" /\ delivered' = delivered \o SubSeq(readData, a + 1, a + n)
      /\ readStorage' = [readStorage EXCEPT !.ioActCount = a + n]
      /\ ioActCount' = [ioActCount EXCEPT ![r] = ioActCount[r] + n]
      /\ UNCHANGED <<ioResult, queue, writeData, writeStorage, sent, readData, fetched, connResult>>
  BY DEF Copy, CopyRead, CopyResult, dmVars, connVars
<1>4. /\ readStorage'.ioReqCount = e /\ readStorage'.ioActCount = a + n
  BY <1>2, <1>3 DEF Storage
<1>5. Incoming = SubSeq(readData, a + 1, e) /\ Incoming' = SubSeq(readData, a + n + 1, e)
  BY <1>3, <1>4 DEF Incoming
<1> HIDE DEF n, a, e
<1>6. /\ Incoming \in Seq(Nat) /\ Len(Incoming) = e - a
      /\ SubSeq(Incoming, 1, n) = SubSeq(readData, a + 1, a + n)
      /\ SubSeq(Incoming, n + 1, Len(Incoming)) = Incoming'
  <2>1. a \in 0..Len(readData) /\ n \in 0..(Len(readData) - a)
    BY <1>2
  <2> DEFINE rest == SubSeq(readData, a + 1, Len(readData))
  <2>2. /\ rest \in Seq(Nat) /\ Len(rest) = Len(readData) - a
        /\ SubSeq(rest, 1, n) = SubSeq(readData, a + 1, a + n)
        /\ SubSeq(rest, n + 1, Len(rest)) = SubSeq(readData, a + n + 1, Len(readData))
    BY <1>2, <2>1, SubSeqAfter
  <2>3. Incoming = rest /\ Incoming' = SubSeq(readData, a + n + 1, Len(readData)) /\ e = Len(readData)
    BY <1>2, <1>5
  <2> HIDE DEF rest
  <2> QED
    BY <2>2, <2>3
<1>7. UNCHANGED <<Status, Outgoing, Broken>>
  BY <1>3 DEF Status, Queued, Outgoing, Broken
<1>8. CASE n = 0
  <2>1. SubSeq(readData, a + 1, a + n) = <<>> /\ UNCHANGED Incoming
    BY <1>2, <1>5, <1>8, SubSeqEmpty
  <2>2. UNCHANGED delivered
    BY <1>2, <1>3, <2>1, ConcatEmptySeq
  <2>3. UNCHANGED ioActCount
    BY <1>1, <1>2, <1>3, <1>8
  <2> QED
    BY <1>3, <1>7, <2>1, <2>2, <2>3 DEF Stutter
<1>9. CASE n # 0
  <2>1. n \in 1..PayloadSize
    BY <1>2, <1>9, BoundsAssumption
  <2>0. ioActCount[r] + n <= ReqCount[r] /\ n <= Len(Incoming)
    BY <1>2, <1>6, SMTT(30)
  <2>2. /\ queue[DriverOf[r]] # <<>> /\ Head(queue[DriverOf[r]]) = r /\ connResult # "ioErr"
        /\ ioActCount[r] + n <= ReqCount[r] /\ n <= Len(Incoming)
        /\ delivered' = delivered \o SubSeq(Incoming, 1, n)
    BY <1>1, <1>3, <1>6, <2>0 DEF Oldest
  <2>3. Port!Take(r, n)
    BY <1>1, <1>3, <1>6, <1>7, <2>2 DEF Port!Take, Port!Oldest, Incoming, Status, Outgoing, Broken
  <2> QED
    BY <2>1, <2>3
<1> QED
  BY <1>8, <1>9

\* What a write adds is its next bytes, behind all that was accepted before.
LEMMA WriteRefines ==
  ASSUME IInv, KInv, NEW c \in Ctx, Copy(c), CopyWrite(c)
  PROVE  Stutter \/ \E n \in 1..PayloadSize : Port!Accept(pb[c], n)
<1> USE WorkIsPart
<1> DEFINE r == pb[c]
           n == CopyCount(PbSpec(pb[c]), writeStorage)
           a == writeStorage.ioActCount
           new == [i \in 1..n |-> <<r, ioActCount[r] + i>>]
<1>1. /\ r \in Writes /\ r \in Req /\ Oldest(r)
  BY ServedIsOldest DEF Copy, At, CopyWrite, KInv, Oldest
<1>2. /\ n \in Nat /\ n <= PayloadSize - a /\ n <= ReqCount[r] - ioActCount[r]
      /\ a \in 0..PayloadSize /\ a <= Len(writeData)
      /\ writeData \in Seq(Writes \X Nat) /\ ioActCount[r] \in Nat /\ ReqCount[r] \in Nat
      /\ ioActCount \in [Req -> Int] /\ writeStorage \in Storage
  <2>1. TypeOK /\ SaneCounters
    BY DEF IInv
  <2>2. n \in Nat /\ n <= PayloadSize - a /\ n <= ReqCount[r] - ioActCount[r]
    BY <1>1, <2>1, CopyBounds
  <2>3. a \in 0..PayloadSize /\ a <= Len(writeData) /\ ioActCount[r] \in 0..ReqCount[r]
    BY <1>1, <2>1 DEF SaneCounters
  <2> QED
    BY <1>1, <2>1, <2>2, <2>3, RequestsAssumption DEF TypeOK
<1>3. /\ connResult = "noErr" /\ writeData' = SubSeq(writeData, 1, a) \o new
      /\ writeStorage' = [writeStorage EXCEPT !.ioActCount = a + n]
      /\ ioActCount' = [ioActCount EXCEPT ![r] = ioActCount[r] + n]
      /\ UNCHANGED <<ioResult, queue, readData, readStorage, sent, delivered, fetched, connResult>>
  BY DEF Copy, CopyWrite, CopyResult, dmVars, connVars
<1>4. writeStorage'.ioActCount = a + n
  BY <1>2, <1>3 DEF Storage
<1> HIDE DEF n
<1>5. new \in Seq(Writes \X Nat) /\ Len(new) = n
  <2>1. \A i \in 1..n : <<r, ioActCount[r] + i>> \in Writes \X Nat
    BY <1>1, <1>2
  <2> QED
    BY <1>2, <2>1
<1> DEFINE old == SubSeq(writeData, 1, a)
<1>6. old \in Seq(Writes \X Nat) /\ Len(old) = a /\ a \in Nat
  BY <1>2, BoundsAssumption
<1>7. Outgoing = old /\ Outgoing' = SubSeq(old \o new, 1, a + n)
  BY <1>3, <1>4 DEF Outgoing
<1> HIDE DEF a, old, new
<1>8. Outgoing' = old \o new
  <2>1. old \o new \in Seq(Writes \X Nat) /\ Len(old \o new) = a + n
    BY <1>5, <1>6, ConcatProperties
  <2> QED
    BY <1>7, <2>1, SubSeqFull
<1>9. UNCHANGED <<Status, Incoming, Broken>>
  BY <1>3 DEF Status, Queued, Incoming, Broken
<1>10. CASE n = 0
  <2>1. new = <<>>
    BY <1>5, <1>10
  <2>2. UNCHANGED Outgoing
    BY <1>6, <1>7, <1>8, <2>1, ConcatEmptySeq
  <2>3. UNCHANGED ioActCount
    BY <1>1, <1>2, <1>3, <1>10
  <2> QED
    BY <1>3, <1>9, <2>2, <2>3 DEF Stutter
<1>11. CASE n # 0
  <2>1. n \in 1..PayloadSize
    BY <1>2, <1>6, <1>11, BoundsAssumption
  <2>2. ioActCount[r] + n <= ReqCount[r] /\ Len(Outgoing) + n <= PayloadSize
    BY <1>2, <1>6, <1>7, BoundsAssumption
  <2>3. /\ queue[DriverOf[r]] # <<>> /\ Head(queue[DriverOf[r]]) = r /\ connResult # "ioErr"
        /\ Outgoing' = Outgoing \o [i \in 1..n |-> <<r, ioActCount[r] + i>>]
    BY <1>1, <1>3, <1>7, <1>8 DEF Oldest, new
  <2>4. Port!Accept(r, n)
    BY <1>1, <1>3, <1>9, <2>2, <2>3 DEF Port!Accept, Port!Oldest, Incoming, Status, Outgoing, Broken
  <2> QED
    BY <2>1, <2>4
<1> QED
  BY <1>10, <1>11

\* The device has the message: everything accepted is sent, once.
LEMMA WriteDoneRefines ==
  ASSUME IInv, WriteDone
  PROVE  Port!Ship
<1>1. sendLength = writeStorage.ioActCount /\ connResult = "inProgress" /\ writeStorage \in Storage
  BY DEF WriteDone, IInv, TypeOK, SaneCounters, LockInv
<1>2. /\ sent' = sent \o Outgoing /\ connResult' # "ioErr" /\ writeStorage'.ioActCount = 0
      /\ UNCHANGED <<queue, ioResult, ioActCount, readData, readStorage, delivered, fetched>>
  BY <1>1 DEF WriteDone, SentStorage, StartTransfer, dmVars, Outgoing, Storage
<1>3. Outgoing' = <<>>
  BY <1>2, SubSeqEmpty DEF Outgoing
<1>4. UNCHANGED <<Status, Incoming>>
  BY <1>2 DEF Status, Queued, Incoming
<1> QED
  BY <1>1, <1>2, <1>3, <1>4 DEF Port!Ship, Status, Outgoing, Incoming

\* A reply: the buffer was empty, and holds the next bytes now, if there are any.
LEMMA ReadDoneRefines ==
  ASSUME IInv, FillInv, ReadDone
  PROVE  Stutter \/ \E n \in 1..PayloadSize : Port!Fetch(n)
<1> DEFINE avail == fed - fetched
           n == IF avail > PayloadSize THEN PayloadSize ELSE avail
           new == [i \in 1..n |-> fetched + i]
<1>1. n \in 0..PayloadSize /\ fetched \in Nat
  BY BoundsAssumption DEF IInv, TypeOK
<1>2. /\ connResult # "ioErr" /\ connResult' # "ioErr" /\ ReadBufferEmpty
  BY DEF ReadDone, IInv, LockInv, FillInv
<1>3. /\ readData' = new /\ readStorage' = [ioReqCount |-> n, ioActCount |-> 0]
      /\ fetched' = fetched + n
      /\ UNCHANGED <<queue, ioResult, ioActCount, writeData, writeStorage, sent, delivered>>
  BY DEF ReadDone, Carried, dmVars
<1> HIDE DEF n
<1>4. Incoming = <<>>
  <2>1. readStorage.ioReqCount \in Nat /\ readStorage.ioActCount = readStorage.ioReqCount
    BY <1>2 DEF IInv, TypeOK, SaneCounters, ReadBufferEmpty
  <2> QED
    BY <2>1, SubSeqEmpty DEF Incoming
<1>5. new \in Seq(Nat) /\ Len(new) = n
  BY <1>1
<1>6. Incoming' = new
  <2> HIDE DEF new
  <2>1. Incoming' = SubSeq(new, 1, n)
    <3>1. Incoming' = SubSeq(new, readStorage'.ioActCount + 1, readStorage'.ioReqCount)
      BY <1>3 DEF Incoming
    <3>2. readStorage'.ioActCount + 1 = 1 /\ readStorage'.ioReqCount = n
      BY <1>3
    <3> QED
      BY <3>1, <3>2
  <2> QED
    BY <1>5, <2>1, SubSeqFull
<1>7. UNCHANGED <<Status, Outgoing, Broken>>
  BY <1>2, <1>3 DEF Status, Queued, Outgoing, Broken
<1>8. CASE n = 0
  <2>1. UNCHANGED <<Incoming, fetched>>
    BY <1>1, <1>3, <1>4, <1>5, <1>6, <1>8
  <2> QED
    BY <1>3, <1>7, <2>1 DEF Stutter
<1>9. CASE n # 0
  <2>1. n \in 1..PayloadSize
    BY <1>1, <1>9, BoundsAssumption
  <2>2. Port!Fetch(n)
    BY <1>2, <1>3, <1>4, <1>6, <1>7 DEF Port!Fetch, Status, Outgoing, Incoming, Broken
  <2> QED
    BY <2>1, <2>2
<1> QED
  BY <1>8, <1>9

\* A failed transfer breaks the port, whether or not the device got the message, or
\* gave up the bytes of its reply.
LEMMA TransferFailsRefines ==
  ASSUME IInv, FillInv, TransferFails
  PROVE  Port!Fail
<1>1. /\ connResult # "ioErr" /\ connResult' = "ioErr"
      /\ flight = "write" => sendLength = writeStorage.ioActCount
  BY DEF TransferFails, IInv, SaneCounters, LockInv
<1>2. UNCHANGED <<queue, ioResult, ioActCount, writeData, writeStorage, readData, readStorage, delivered>>
  BY DEF TransferFails, dmVars, copyVars
<1>3. UNCHANGED <<Status, Incoming, Outgoing>>
  BY <1>2 DEF Status, Queued, Incoming, Outgoing
<1>4. flight = "read" => Incoming = <<>>
  <2>1. ASSUME flight = "read" PROVE readStorage.ioReqCount \in Nat /\ ReadBufferEmpty
    BY <2>1 DEF IInv, TypeOK, SaneCounters, FillInv
  <2> QED
    BY <2>1, SubSeqEmpty DEF Incoming, ReadBufferEmpty
<1>5. Carried(fed - fetched) \in 0..PayloadSize
  BY BoundsAssumption DEF IInv, TypeOK, Carried
<1>6. \/ UNCHANGED <<sent, fetched>>
      \/ sent' = sent \o Outgoing /\ UNCHANGED fetched
      \/ Incoming = <<>> /\ (\E n \in 0..PayloadSize : fetched' = fetched + n) /\ UNCHANGED sent
  BY <1>1, <1>4, <1>5 DEF TransferFails, Outgoing
<1> QED
  BY <1>1, <1>2, <1>3, <1>6 DEF Port!Fail, Status, Outgoing, Incoming

-------------------------------------------------------------------------------
(* Every step *)

\* Each step of a thread, of a transfer or of the device is a step of the abstract
\* port, or one that it does not see.
LEMMA StepRefines ==
  ASSUME IInv, KInv, ResultInv, FillInv, [Next]_vars
  PROVE  [Port!Next]_(Port!portVars)
<1> USE WorkIsPart
<1> USE DEF At, GoTo
<1>0. Port!Req = Req
  BY DEF Port!Req, Req
<1>s. ASSUME Stutter PROVE [Port!Next]_(Port!portVars)
  BY <1>s, StutterIsAllowed
<1>a. ASSUME UNCHANGED <<queue, ioResult, ioActCount, writeData, writeStorage, sent, readData, readStorage,
                         fetched, delivered>>,
             connResult' = "ioErr" <=> connResult = "ioErr"
      PROVE  [Port!Next]_(Port!portVars)
  <2>1. Stutter
    BY <1>a DEF Stutter, Status, Queued, Outgoing, Incoming, Broken
  <2> QED
    BY <1>s, <2>1
<1>1. ASSUME NEW c \in Ctx, NEW r \in Req, MainIssues(r) \/ InterruptIssues(r) \/ CompletionIssues(c, r)
      PROVE  [Port!Next]_(Port!portVars)
  <2>1. \E b \in Ctx, l \in {"idle", "return"} : IssueRequest(b, r, l)
    BY <1>1 DEF MainIssues, InterruptIssues, CompletionIssues
  <2>2. Port!Submit(r)
    BY <2>1, IssueRefines
  <2> QED
    BY <1>0, <2>2 DEF Port!Next
<1>2. ASSUME NEW c \in Ctx, Prime(c) PROVE [Port!Next]_(Port!portVars)
  <2>1. CASE \/ Enter(c) \/ Find(c) \/ Claim(c) \/ ParkDce(c) \/ ParkPb(c)
             \/ CompletionReturns(c) \/ Return(c)
    BY <1>a, <2>1 DEF Enter, Find, Claim, ParkDce, ParkPb, CompletionReturns, Return, dmVars, copyVars,
       connVars
  <2>2. CASE Result(c)
    <3>1. /\ ioResult' = [ioResult EXCEPT ![pb[c]] = err[c]]
          /\ UNCHANGED <<queue, ioActCount, writeData, writeStorage, sent, readData, readStorage,
                         fetched, delivered, connResult>>
      BY <2>2 DEF Result, copyVars, connVars
    <3>2. \A r \in Req : ioResult'[r] = "unissued" <=> ioResult[r] = "unissued"
      BY <2>2, <3>1, Types DEF Result, ResultInv, Results, IInv, TypeOK
    <3>3. Stutter
      BY <3>1, <3>2, StatusStays DEF Stutter, Outgoing, Incoming, Broken
    <3> QED
      BY <1>s, <3>3
  <2>3. CASE Copy(c)
    <3>1. pb[c] \in Req
      BY <2>3, Types DEF Copy
    <3>2. CASE CopyRead(c)
      BY <1>0, <1>s, <2>3, <3>1, <3>2, ReadRefines DEF Port!Next
    <3>3. CASE CopyWrite(c)
      BY <1>0, <1>s, <2>3, <3>1, <3>3, WriteRefines DEF Port!Next
    <3>4. CASE CopyRefused(c)
      BY <1>a, <2>3, <3>4 DEF Copy, CopyRefused, copyVars, connVars, dmVars
    <3> QED
      BY <2>3, <3>2, <3>3, <3>4 DEF Copy
  <2>4. CASE IODone(c)
    <3>1. pb[c] \in Req
      BY <2>4, Types DEF IODone
    <3>2. PICK r \in Req : r = pb[c]
      BY <3>1
    <3>3. Port!Close(r)
      BY <2>4, <3>2, CompletionRefines
    <3> QED
      BY <1>0, <3>3 DEF Port!Next
  <2> QED
    BY <1>2, <2>1, <2>2, <2>3, <2>4 DEF Prime
<1>3. CASE WriteDone
  BY <1>3, WriteDoneRefines DEF Port!Next
<1>4. CASE ReadDone
  BY <1>s, <1>4, ReadDoneRefines DEF Port!Next
<1>5. CASE TransferFails
  BY <1>5, TransferFailsRefines DEF Port!Next
<1>6. CASE VBLTask
  BY <1>a, <1>6 DEF VBLTask, VBLFlush, VBLFill, VBLWake, StartTransfer, dmVars, copyVars, connVars
<1>7. CASE MainAwakes \/ Wake \/ Feed \/ UNCHANGED vars
  BY <1>a, <1>7 DEF MainAwakes, Wake, ScanEnd, ScanSkip, ScanPrime, Feed, vars, dmVars, copyVars, connVars
<1> QED
  BY <1>1, <1>2, <1>3, <1>4, <1>5, <1>6, <1>7 DEF Next, TransferEnds

\* The driver implements the abstract serial port: bytes are accepted, sent, fetched
\* and delivered once and in order, requests of a driver are served in order, and
\* nothing moves after an error, whatever preempts doPrime, bufferCopy, IODone and
\* the two completion routines.
THEOREM PortIsImplemented == ASSUME FirstUseAtMain PROVE Spec => ImplementsSerialPort
<1>1. Init => ResultInv /\ FillInv
  BY DEF Init, ResultInv, FillInv
<1>2. IInv /\ KInv /\ ResultInv /\ FillInv /\ [Next]_vars => (ResultInv /\ FillInv)'
  BY StepResultInv, StepFillInv
<1>3. Init => Port!Init
  BY InitRefines
<1>4. IInv /\ KInv /\ ResultInv /\ FillInv /\ [Next]_vars => [Port!Next]_(Port!portVars)
  BY StepRefines
<1> QED
  BY <1>1, <1>2, <1>3, <1>4, InvariantHolds, RequestsInvariant, PTL
     DEF Spec, ImplementsSerialPort, Port!Spec

===============================================================================
