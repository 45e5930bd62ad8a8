------------------------ MODULE FujiSerialAsync_proofs ------------------------
(* Proofs about FujiSerialAsync for any number of drivers and requests: the     *)
(* types, the VBL mutex and the buffer counters.  The three need each other: a  *)
(* counter stays in range because a message in flight excludes a copy, and the  *)
(* types of the bytes moved depend on the counters.                             *)
EXTENDS FujiSerialAsync, SequenceTheorems, TLAPS

\* Where the two threads are while the mutex is held, beyond VblMutexExcludes: a
\* wake up happens at interrupt level only and keeps interrupt level busy.
OwnerInv ==
  /\ VblMutexExcludes
  /\ pc["main"] # "scan"
  /\ pc["intr"] = "scan" => inWakeUp
  /\ inWakeUp => pc["intr"] # "idle"
OwnerTypes == pc \in [Ctx -> Labels] /\ mutex \in BOOLEAN /\ inWakeUp \in BOOLEAN

\* Besides, iopb.ioResult is 1 exactly while a transfer is in progress.
LockInv == OwnerInv /\ (connResult = "inProgress" <=> flight # "none")

\* What a thread works on is a real request of a real driver, and so is whatever a
\* wake up finds in the table.
ArgsInv ==
  /\ \A c \in Ctx : pc[c] \notin {"idle", "scan"} => pb[c] \in Req /\ dce[c] \in Drivers
  /\ \A c \in Ctx : pc[c] = "parkPb" => drvrInfo[info[c]].pendingDce \in Drivers
  /\ \A i \in 1..Entries :
       drvrInfo[i].pendingPb # NoReq => drvrInfo[i].pendingDce \in Drivers

\* The types of what the Device Manager, the threads and the table hold.
Tables == [1..Entries -> [refNum : Drivers \cup {NoDriver}, pendingPb : Req \cup {NoReq},
                          pendingDce : Drivers \cup {NoDriver}]]
RequestTypes ==
  /\ drvrInfo \in Tables /\ connResult \in Results
  /\ queue \in [Drivers -> Seq(Req)]
  /\ pb \in [Ctx -> Req \cup {NoReq}] /\ dce \in [Ctx -> Drivers \cup {NoDriver}]
  /\ err \in [Ctx -> Results] /\ info \in [Ctx -> 1..Entries] /\ todo \in [Ctx -> Seq(Req)]
  /\ scan \in 1..(Entries + 1) /\ waiting \in Req \cup {NoReq}
ResultTypes == ioResult \in [Req -> Results \cup {"unissued"}]

\* What who holds which request rests on; the buffers' counters are no part of it.
WorkInv == OwnerTypes /\ OwnerInv /\ RequestTypes /\ ArgsInv /\ ResultTypes

IInv == TypeOK /\ LockInv /\ SaneCounters /\ ArgsInv

USE DEF Ctx

\* The driver just opened: nothing taken, nothing queued, both buffers empty.
LEMMA InitIInv == Init => IInv
<1> SUFFICES ASSUME Init PROVE IInv
  OBVIOUS
<1>1. TypeOK
  <2>1. drvrInfo \in [1..Entries -> [refNum : Drivers \cup {NoDriver}, pendingPb : Req \cup {NoReq},
                                     pendingDce : Drivers \cup {NoDriver}]]
    BY TableAssumption DEF Init, NoEntry
  <2>2. mutex \in BOOLEAN /\ inWakeUp \in BOOLEAN
    BY DEF Init
  <2>3. queue \in [Drivers -> Seq(Req)] /\ todo \in [Ctx -> Seq(Req)]
    BY DEF Init
  <2>4. readData \in Seq(Nat) /\ writeData \in Seq(Writes \X Nat) /\ sent \in Seq(Writes \X Nat)
        /\ delivered \in Seq(Nat)
    BY DEF Init
  <2> QED
    BY <2>1, <2>2, <2>3, <2>4, BoundsAssumption DEF Init, TypeOK, Labels, Results, Storage
<1>2. LockInv
  BY DEF Init, LockInv, OwnerInv, VblMutexExcludes
<1>3. SaneCounters
  BY BoundsAssumption, RequestsAssumption DEF Init, SaneCounters
<1>4. ArgsInv
  BY DEF Init, ArgsInv, NoEntry
<1> QED
  BY <1>1, <1>2, <1>3, <1>4 DEF IInv

LEMMA WorkIsPart == IInv => WorkInv
BY DEF IInv, TypeOK, LockInv, WorkInv, OwnerTypes, RequestTypes, ResultTypes, Tables

\* A mutex is taken when it is free, and given back by the thread that holds it.  All
\* that matters is where the threads are, and not what the transfers' results are.
LEMMA StepOwnerInv == OwnerTypes /\ OwnerInv /\ [Next]_vars => OwnerInv'
<1> SUFFICES ASSUME OwnerTypes, OwnerInv, [Next]_vars PROVE OwnerInv'
  OBVIOUS
<1> USE DEF OwnerTypes, OwnerInv, VblMutexExcludes, At, CanRun, GoTo
<1>1. ASSUME NEW r \in Req, MainIssues(r) \/ InterruptIssues(r) PROVE OwnerInv'
  BY <1>1 DEF MainIssues, InterruptIssues, IssueRequest, StartPrime, lockVars, connVars
<1>2. ASSUME NEW c \in Ctx, NEW r \in Req, CompletionIssues(c, r) PROVE OwnerInv'
  BY <1>2 DEF CompletionIssues, IssueRequest, StartPrime, lockVars, connVars
<1>3. CASE MainAwakes
  BY <1>3 DEF MainAwakes, lockVars, connVars
<1>4. ASSUME NEW c \in Ctx, Prime(c) PROVE OwnerInv'
  <2>1. CASE Enter(c)
    BY <2>1 DEF Enter, MayEnter, connVars
  <2>2. CASE Copy(c)
    <3>1. pc' = [pc EXCEPT ![c] = "result"] \/ pc' = [pc EXCEPT ![c] = "find"]
      BY <2>2 DEF Copy, CopyRead, CopyWrite, CopyRefused, CopyResult
    <3> QED
      BY <2>2, <3>1 DEF Copy, connVars
  <2>3. CASE Find(c) \/ Claim(c) \/ ParkDce(c) \/ ParkPb(c) \/ Result(c) \/ IODone(c) \/ CompletionReturns(c)
    BY <2>3 DEF Find, Claim, ParkDce, ParkPb, Result, IODone, CompletionReturns, lockVars, connVars
  <2>4. CASE Return(c)
    BY <2>4 DEF Return, StartPrime, lockVars, connVars
  <2> QED
    BY <1>4, <2>1, <2>2, <2>3, <2>4 DEF Prime
<1>5. CASE Wake
  BY <1>5 DEF Wake, ScanEnd, ScanSkip, ScanPrime, StartPrime, lockVars, connVars
<1>6. CASE VBLTask
  BY <1>6 DEF VBLTask, VBLFlush, VBLFill, VBLWake, StartTransfer, StartWakeUp, connVars
<1>7. CASE TransferEnds
  BY <1>7 DEF TransferEnds, WriteDone, ReadDone, TransferFails, StartTransfer, StartWakeUp, lockVars
<1>8. CASE Feed
  BY <1>8 DEF Feed, lockVars
<1>9. CASE UNCHANGED vars
  BY <1>9 DEF vars, lockVars, connVars
<1> QED
  BY <1>1, <1>2, <1>3, <1>4, <1>5, <1>6, <1>7, <1>8, <1>9 DEF Next

\* The types it needs are kept by themselves.
LEMMA StepOwnerTypes == OwnerTypes /\ [Next]_vars => OwnerTypes'
<1> SUFFICES ASSUME OwnerTypes, [Next]_vars PROVE OwnerTypes'
  OBVIOUS
<1> USE DEF OwnerTypes, At, GoTo, Labels
<1>1. ASSUME NEW c \in Ctx, NEW r \in Req, MainIssues(r) \/ InterruptIssues(r) \/ CompletionIssues(c, r)
      PROVE  OwnerTypes'
  BY <1>1 DEF MainIssues, InterruptIssues, CompletionIssues, IssueRequest, StartPrime, lockVars
<1>2. ASSUME NEW c \in Ctx, Prime(c) PROVE OwnerTypes'
  <2>1. CASE Enter(c)
    BY <2>1 DEF Enter, MayEnter
  <2>2. CASE Copy(c)
    <3>1. pc' = [pc EXCEPT ![c] = "result"] \/ pc' = [pc EXCEPT ![c] = "find"]
      BY <2>2 DEF Copy, CopyRead, CopyWrite, CopyRefused, CopyResult
    <3> QED
      BY <2>2, <3>1 DEF Copy
  <2>3. CASE Find(c) \/ Claim(c) \/ ParkDce(c) \/ ParkPb(c) \/ Result(c) \/ IODone(c) \/ CompletionReturns(c)
    BY <2>3 DEF Find, Claim, ParkDce, ParkPb, Result, IODone, CompletionReturns, lockVars
  <2>4. CASE Return(c)
    BY <2>4 DEF Return, StartPrime, lockVars
  <2> QED
    BY <1>2, <2>1, <2>2, <2>3, <2>4 DEF Prime
<1>3. CASE MainAwakes \/ Wake \/ VBLTask \/ TransferEnds \/ Feed \/ UNCHANGED vars
  BY <1>3 DEF MainAwakes, Wake, ScanEnd, ScanSkip, ScanPrime, VBLTask, VBLFlush, VBLFill, VBLWake,
     TransferEnds, WriteDone, ReadDone, TransferFails, StartWakeUp, StartPrime, Feed, vars, lockVars
<1> QED
  BY <1>1, <1>2, <1>3 DEF Next

\* A transfer in progress is what makes ioResult 1.
LEMMA StepLockInv == TypeOK /\ LockInv /\ [Next]_vars => LockInv'
<1> SUFFICES ASSUME TypeOK, LockInv, [Next]_vars PROVE LockInv'
  OBVIOUS
<1>1. OwnerInv'
  BY StepOwnerInv DEF TypeOK, OwnerTypes, LockInv
<1>2. UNCHANGED <<connResult, flight>> \/ VBLTask \/ TransferEnds
  BY DEF Next, MainIssues, InterruptIssues, CompletionIssues, IssueRequest, MainAwakes, Prime, Enter, Copy,
     Find, Claim, ParkDce, ParkPb, Result, IODone, CompletionReturns, Return, Wake, ScanEnd, ScanSkip,
     ScanPrime, Feed, vars, connVars
<1>3. CASE UNCHANGED <<connResult, flight>>
  BY <1>1, <1>3 DEF LockInv
<1>4. CASE VBLTask
  BY <1>1, <1>4 DEF LockInv, VBLTask, VBLFlush, VBLFill, VBLWake, StartTransfer, connVars
<1>5. CASE TransferEnds
  BY <1>1, <1>5 DEF LockInv, TransferEnds, WriteDone, ReadDone, TransferFails, StartTransfer
<1> QED
  BY <1>2, <1>3, <1>4, <1>5

\* What bufferCopy moves: never more than either side has left.
LEMMA CopyCountBounds ==
  ASSUME NEW src \in Storage, NEW dst \in Storage,
         src.ioActCount \in 0..src.ioReqCount, dst.ioActCount \in 0..dst.ioReqCount
  PROVE  /\ CopyCount(src, dst) \in Nat
         /\ CopyCount(src, dst) <= src.ioReqCount - src.ioActCount
         /\ CopyCount(src, dst) <= dst.ioReqCount - dst.ioActCount
BY BoundsAssumption DEF Storage, CopyCount

\* What a copy for a read or a write moves, in a state where the counters are sane.
LEMMA CopyBounds ==
  ASSUME TypeOK, SaneCounters, NEW r \in Req
  PROVE  /\ CopyCount(readStorage, PbSpec(r)) \in Nat
         /\ CopyCount(readStorage, PbSpec(r)) <= readStorage.ioReqCount - readStorage.ioActCount
         /\ CopyCount(readStorage, PbSpec(r)) <= ReqCount[r] - ioActCount[r]
         /\ CopyCount(PbSpec(r), writeStorage) \in Nat
         /\ CopyCount(PbSpec(r), writeStorage) <= ReqCount[r] - ioActCount[r]
         /\ CopyCount(PbSpec(r), writeStorage) <= PayloadSize - writeStorage.ioActCount
<1> DEFINE p == PbSpec(r)
<1>1. /\ p \in Storage /\ p.ioReqCount = ReqCount[r] /\ p.ioActCount = ioActCount[r]
      /\ p.ioActCount \in 0..p.ioReqCount
  BY RequestsAssumption DEF PbSpec, Storage, TypeOK, SaneCounters
<1>2. /\ readStorage \in Storage /\ readStorage.ioActCount \in 0..readStorage.ioReqCount
      /\ writeStorage \in Storage /\ writeStorage.ioActCount \in 0..writeStorage.ioReqCount
      /\ writeStorage.ioReqCount = PayloadSize
  BY DEF TypeOK, SaneCounters
<1> HIDE DEF p
<1>3. /\ CopyCount(readStorage, p) \in Nat
      /\ CopyCount(readStorage, p) <= readStorage.ioReqCount - readStorage.ioActCount
      /\ CopyCount(readStorage, p) <= p.ioReqCount - p.ioActCount
  BY <1>1, <1>2, CopyCountBounds
<1>4. /\ CopyCount(p, writeStorage) \in Nat
      /\ CopyCount(p, writeStorage) <= p.ioReqCount - p.ioActCount
      /\ CopyCount(p, writeStorage) <= writeStorage.ioReqCount - writeStorage.ioActCount
  BY <1>1, <1>2, CopyCountBounds
<1> QED
  BY <1>1, <1>2, <1>3, <1>4 DEF p

\* The request and the driver a thread works on.
LEMMA StepArgsInv ==
  ASSUME OwnerTypes, OwnerInv, RequestTypes, ArgsInv, [Next]_vars
  PROVE  ArgsInv'
<1> USE DEF ArgsInv, At, CanRun, GoTo
<1>0. /\ ArgsInv
      /\ pc \in [Ctx -> Labels] /\ pb \in [Ctx -> Req \cup {NoReq}]
      /\ dce \in [Ctx -> Drivers \cup {NoDriver}] /\ info \in [Ctx -> 1..Entries]
      /\ todo \in [Ctx -> Seq(Req)]
      /\ drvrInfo \in [1..Entries -> [refNum : Drivers \cup {NoDriver}, pendingPb : Req \cup {NoReq},
                                      pendingDce : Drivers \cup {NoDriver}]]
      /\ \A r \in Req : DriverOf[r] \in Drivers
      /\ scan \in 1..(Entries + 1)
      /\ OwnerInv
  BY RequestsAssumption DEF OwnerTypes, RequestTypes, Tables
<1>1. ASSUME NEW r \in Req, MainIssues(r) \/ InterruptIssues(r) PROVE ArgsInv'
  BY <1>0, <1>1, ZenonT(60) DEF MainIssues, InterruptIssues, IssueRequest, StartPrime, argVars
<1>2. ASSUME NEW c \in Ctx, NEW r \in Req, CompletionIssues(c, r) PROVE ArgsInv'
  BY <1>0, <1>2 DEF CompletionIssues, IssueRequest, StartPrime, argVars
<1>3. CASE MainAwakes
  BY <1>0, <1>3 DEF MainAwakes, argVars
<1>4. ASSUME NEW c \in Ctx, Prime(c) PROVE ArgsInv'
  <2>1. CASE Enter(c) \/ CompletionReturns(c) \/ Result(c) \/ IODone(c)
    BY <1>0, <2>1 DEF Enter, CompletionReturns, Result, IODone, argVars
  <2>2. CASE Copy(c)
    <3>1. UNCHANGED <<pb, dce, drvrInfo>> /\ \E l \in {"result", "find"} : pc' = [pc EXCEPT ![c] = l]
      BY <2>2 DEF Copy, CopyRead, CopyWrite, CopyRefused, CopyResult, GoTo
    <3> QED
      BY <1>0, <2>2, <3>1 DEF Copy, At
  <2>3. CASE Find(c)
    BY <1>0, <2>3 DEF Find, argVars
  <2>4. CASE Claim(c)
    <3>1. \A i \in 1..Entries : /\ drvrInfo'[i].pendingPb = drvrInfo[i].pendingPb
                                /\ drvrInfo'[i].pendingDce = drvrInfo[i].pendingDce
      BY <1>0, <2>4 DEF Claim
    <3> QED
      BY <1>0, <2>4, <3>1 DEF Claim, argVars
  <2>5. CASE ParkDce(c)
    <3>1. pb[c] \in Req /\ dce[c] \in Drivers
      BY <1>0, <2>5 DEF ParkDce
    <3>2. \A i \in 1..Entries : /\ drvrInfo'[i].pendingPb = drvrInfo[i].pendingPb
                                /\ drvrInfo'[i].pendingDce =
                                     IF i = info[c] THEN dce[c] ELSE drvrInfo[i].pendingDce
      BY <1>0, <2>5 DEF ParkDce
    <3> QED
      BY <1>0, <2>5, <3>1, <3>2 DEF ParkDce, argVars
  <2>6. CASE ParkPb(c)
    <3>1. \A i \in 1..Entries : /\ drvrInfo'[i].pendingPb =
                                     IF i = info[c] THEN pb[c] ELSE drvrInfo[i].pendingPb
                                /\ drvrInfo'[i].pendingDce = drvrInfo[i].pendingDce
      BY <1>0, <2>6 DEF ParkPb
    <3> QED
      BY <1>0, <2>6, <3>1 DEF ParkPb, argVars
  <2>7. CASE Return(c)
    <3>1. CASE todo[c] # <<>>
      <4>1. Head(todo[c]) \in Req
        BY <1>0, <3>1
      <4> QED
        BY <1>0, <2>7, <3>1, <4>1 DEF Return, StartPrime
    <3>2. CASE todo[c] = <<>>
      BY <1>0, <2>7, <3>2 DEF Return, argVars
    <3> QED
      BY <3>1, <3>2
  <2> QED
    BY <1>4, <2>1, <2>2, <2>3, <2>4, <2>5, <2>6, <2>7 DEF Prime
<1>5. CASE Wake
  <2>1. CASE ScanEnd \/ ScanSkip
    BY <1>0, <2>1 DEF ScanEnd, ScanSkip, argVars
  <2>2. CASE ScanPrime
    <3>1. scan \in 1..Entries /\ drvrInfo[scan].pendingPb \in Req /\ drvrInfo[scan].pendingDce \in Drivers
      BY <1>0, <2>2 DEF ScanPrime, InTable
    <3>2. \A i \in 1..Entries : /\ drvrInfo'[i].pendingPb \in {NoReq, drvrInfo[i].pendingPb}
                                /\ drvrInfo'[i].pendingDce = drvrInfo[i].pendingDce
      BY <1>0, <2>2 DEF ScanPrime
    <3>3. \A c \in Ctx : pc'[c] = "parkPb" => pc[c] = "parkPb" /\ info'[c] = info[c]
      BY <1>0, <2>2 DEF ScanPrime, StartPrime
    <3>4. \A c \in Ctx : pc'[c] \notin {"idle", "scan"} => pb'[c] \in Req /\ dce'[c] \in Drivers
      BY <1>0, <2>2, <3>1 DEF ScanPrime, StartPrime
    <3> QED
      BY <1>0, <3>2, <3>3, <3>4
  <2> QED
    BY <1>5, <2>1, <2>2 DEF Wake
<1>6. CASE VBLTask
  BY <1>0, <1>6 DEF VBLTask, VBLFlush, VBLFill, VBLWake, StartWakeUp, argVars
<1>7. CASE TransferEnds
  BY <1>0, <1>7 DEF TransferEnds, WriteDone, ReadDone, TransferFails, StartWakeUp, argVars
<1>8. CASE Feed \/ UNCHANGED vars
  BY <1>0, <1>8 DEF Feed, vars, argVars
<1> QED
  BY <1>1, <1>2, <1>3, <1>4, <1>5, <1>6, <1>7, <1>8 DEF Next

\* The bytes a copy moves are bytes, and the copy leaves the buffers well formed.
LEMMA CopyReadKeeps ==
  ASSUME IInv, NEW c \in Ctx, pc[c] = "copy", CopyRead(c), UNCHANGED connVars
  PROVE  /\ SaneCounters'
         /\ readStorage' \in Storage /\ ioActCount' \in [Req -> Int] /\ delivered' \in Seq(Nat)
<1> DEFINE r == pb[c]
           n == CopyCount(readStorage, PbSpec(pb[c]))
           a == readStorage.ioActCount
<1>1. TypeOK /\ SaneCounters /\ r \in Req
  BY DEF IInv, ArgsInv
<1>2. n \in Nat /\ n <= readStorage.ioReqCount - a /\ n <= ReqCount[r] - ioActCount[r]
  BY <1>1, CopyBounds
<1>3. ioActCount \in [Req -> Int] /\ readStorage \in Storage /\ readData \in Seq(Nat)
      /\ delivered \in Seq(Nat) /\ ReqCount[r] \in Nat
  BY <1>1, RequestsAssumption DEF TypeOK
<1>4. a \in 0..Len(readData) /\ readStorage.ioReqCount = Len(readData)
  BY <1>1 DEF SaneCounters
<1>5. readStorage = [ioReqCount |-> Len(readData), ioActCount |-> a]
  BY <1>3, <1>4 DEF Storage
<1>6. /\ ioActCount' = [ioActCount EXCEPT ![r] = ioActCount[r] + n]
      /\ readStorage' = [readStorage EXCEPT !.ioActCount = a + n]
      /\ delivered' = delivered \o SubSeq(readData, a + 1, a + n)
      /\ UNCHANGED <<writeStorage, writeData>>
  BY DEF CopyRead, CopyResult
<1> HIDE DEF r, n, a
<1>7. delivered' \in Seq(Nat)
  <2>1. \A i \in (a + 1)..(a + n) : readData[i] \in Nat
    BY <1>2, <1>3, <1>4, SMTT(30)
  <2>2. SubSeq(readData, a + 1, a + n) \in Seq(Nat)
    BY <1>2, <1>4, <1>3, <2>1, SubSeqProperties
  <2> QED
    BY <1>3, <1>6, <2>2, ConcatProperties
<1>8. readStorage' = [ioReqCount |-> Len(readData), ioActCount |-> a + n]
  BY <1>5, <1>6
<1>9. readStorage' \in Storage
  BY <1>2, <1>3, <1>4, <1>8 DEF Storage
<1>10. ioActCount' \in [Req -> Int] /\ \A q \in Req : ioActCount'[q] \in 0..ReqCount[q]
  BY <1>1, <1>2, <1>3, <1>6 DEF SaneCounters
<1>11. SaneCounters'
  <2>1. UNCHANGED <<readData, sendLength, flight, writeStorage, writeData>>
    BY <1>6 DEF connVars
  <2>2. readStorage'.ioReqCount = Len(readData) /\ readStorage'.ioActCount = a + n
    BY <1>8
  <2>3. readStorage'.ioActCount \in 0..readStorage'.ioReqCount
    BY <1>2, <1>3, <1>4, <2>2
  <2> QED
    BY <1>1, <1>10, <2>1, <2>2, <2>3 DEF SaneCounters
<1> QED
  BY <1>7, <1>9, <1>10, <1>11

\* The same for a write: the bytes are marked with the request they come from.
LEMMA CopyWriteKeeps ==
  ASSUME IInv, NEW c \in Ctx, pc[c] = "copy", CopyWrite(c), UNCHANGED connVars
  PROVE  /\ SaneCounters'
         /\ writeStorage' \in Storage /\ ioActCount' \in [Req -> Int]
         /\ writeData' \in Seq(Writes \X Nat)
<1> DEFINE r == pb[c]
           n == CopyCount(PbSpec(pb[c]), writeStorage)
           a == writeStorage.ioActCount
           new == [i \in 1..n |-> <<r, ioActCount[r] + i>>]
<1>1. TypeOK /\ SaneCounters /\ LockInv /\ r \in Req
  BY DEF IInv, ArgsInv
<1>2. n \in Nat /\ n <= PayloadSize - a /\ n <= ReqCount[r] - ioActCount[r]
  BY <1>1, CopyBounds
<1>3. ioActCount \in [Req -> Int] /\ writeStorage \in Storage /\ writeData \in Seq(Writes \X Nat)
      /\ ReqCount[r] \in Nat /\ ioActCount[r] \in Nat
  BY <1>1, RequestsAssumption DEF TypeOK, SaneCounters
<1>4. a \in 0..PayloadSize /\ a <= Len(writeData) /\ writeStorage.ioReqCount = PayloadSize
  BY <1>1 DEF SaneCounters
<1>5. SubSeq(writeData, 1, a) \in Seq(Writes \X Nat) /\ Len(SubSeq(writeData, 1, a)) = a
  BY <1>3, <1>4, BoundsAssumption
<1>6. /\ r \in Writes
      /\ ioActCount' = [ioActCount EXCEPT ![r] = ioActCount[r] + n]
      /\ writeStorage' = [writeStorage EXCEPT !.ioActCount = a + n]
      /\ writeData' = SubSeq(writeData, 1, a) \o new
      /\ UNCHANGED readStorage /\ connResult = "noErr"
  BY DEF CopyWrite, CopyResult
<1>7. flight # "write"
  BY <1>1, <1>6 DEF LockInv
<1>8. writeStorage = [ioReqCount |-> PayloadSize, ioActCount |-> a]
  BY <1>3, <1>4 DEF Storage
<1> HIDE DEF r, n, a
<1>9. new \in Seq(Writes \X Nat) /\ Len(new) = n
  <2>1. \A i \in 1..n : <<r, ioActCount[r] + i>> \in Writes \X Nat
    BY <1>2, <1>3, <1>6
  <2> QED
    BY <1>2, <2>1
<1> HIDE DEF new
<1>10. writeData' \in Seq(Writes \X Nat) /\ Len(writeData') = a + n
  BY <1>2, <1>4, <1>5, <1>6, <1>9
<1>11. /\ writeStorage' = [ioReqCount |-> PayloadSize, ioActCount |-> a + n]
       /\ writeStorage' \in Storage
  BY <1>2, <1>4, <1>6, <1>8, BoundsAssumption DEF Storage
<1>12. ioActCount' \in [Req -> Int] /\ \A q \in Req : ioActCount'[q] \in 0..ReqCount[q]
  BY <1>1, <1>2, <1>3, <1>6, SMTT(30) DEF SaneCounters
<1>13. SaneCounters'
  <2>1. UNCHANGED <<readData, readStorage, sendLength, flight>>
    BY <1>6 DEF connVars
  <2>2. writeStorage'.ioReqCount = PayloadSize /\ writeStorage'.ioActCount = a + n
    BY <1>11
  <2>3. writeStorage'.ioActCount \in 0..PayloadSize /\ writeStorage'.ioActCount <= Len(writeData')
    BY <1>2, <1>4, <1>10, <2>2, BoundsAssumption
  <2> QED
    BY <1>1, <1>7, <1>12, <2>1, <2>2, <2>3 DEF SaneCounters
<1> QED
  BY <1>10, <1>11, <1>12, <1>13

\* The counters move in a copy, when a message is sent and when one arrives.
LEMMA StepSaneCounters == IInv /\ [Next]_vars => SaneCounters'
<1> SUFFICES ASSUME IInv, [Next]_vars PROVE SaneCounters'
  OBVIOUS
<1> USE DEF At, CanRun, GoTo
<1>0. /\ TypeOK /\ LockInv /\ ArgsInv /\ SaneCounters
      /\ writeStorage \in Storage /\ readStorage \in Storage
      /\ fed \in Nat /\ fetched \in 0..fed
  BY BoundsAssumption, SMTT(30) DEF IInv, TypeOK
<1>1. ASSUME NEW r \in Req, MainIssues(r) \/ InterruptIssues(r) PROVE SaneCounters'
  BY <1>0, <1>1 DEF MainIssues, InterruptIssues, IssueRequest, copyVars, connVars, SaneCounters
<1>2. ASSUME NEW c \in Ctx, NEW r \in Req, CompletionIssues(c, r) PROVE SaneCounters'
  BY <1>0, <1>2 DEF CompletionIssues, IssueRequest, copyVars, connVars, SaneCounters
<1>3. CASE MainAwakes \/ Wake \/ Feed \/ UNCHANGED vars
  BY <1>0, <1>3 DEF MainAwakes, Wake, ScanEnd, ScanSkip, ScanPrime, Feed, vars, copyVars, connVars,
                    SaneCounters
<1>4. ASSUME NEW c \in Ctx, Prime(c) PROVE SaneCounters'
  <2>1. CASE Enter(c) \/ Find(c) \/ Claim(c) \/ ParkDce(c) \/ ParkPb(c)
    BY <1>0, <2>1 DEF Enter, Find, Claim, ParkDce, ParkPb, copyVars, connVars, SaneCounters
  <2>2. CASE Result(c) \/ IODone(c) \/ CompletionReturns(c) \/ Return(c)
    BY <1>0, <2>2 DEF Result, IODone, CompletionReturns, Return, copyVars, connVars, SaneCounters
  <2>3. CASE Copy(c)
    <3>1. CASE CopyRead(c)
      BY <2>3, <3>1, CopyReadKeeps DEF Copy
    <3>2. CASE CopyWrite(c)
      BY <2>3, <3>2, CopyWriteKeeps DEF Copy
    <3>3. CASE CopyRefused(c)
      BY <1>0, <2>3, <3>3 DEF Copy, CopyRefused, copyVars, connVars, SaneCounters
    <3> QED
      BY <2>3, <3>1, <3>2, <3>3 DEF Copy
  <2> QED
    BY <1>4, <2>1, <2>2, <2>3 DEF Prime
<1>5. CASE VBLTask
  BY <1>0, <1>5 DEF VBLTask, VBLFlush, VBLFill, VBLWake, StartTransfer, copyVars, connVars, SaneCounters
<1>6. CASE TransferEnds
  <2>1. CASE WriteDone
    <3>1. writeStorage'.ioReqCount = writeStorage.ioReqCount /\ writeStorage'.ioActCount = 0
          /\ flight' # "write"
      BY <1>0, <2>1 DEF WriteDone, SentStorage, Storage, StartTransfer
    <3> QED
      BY <1>0, <2>1, <3>1, BoundsAssumption DEF WriteDone, SaneCounters
  <2>2. CASE ReadDone
    <3> DEFINE avail == fed - fetched
               count == IF avail > PayloadSize THEN PayloadSize ELSE avail
    <3>1. count \in 0..PayloadSize
      BY <1>0, BoundsAssumption
    <3>2. readData' = [i \in 1..count |-> fetched + i] /\ flight' = "none"
          /\ readStorage' = [ioReqCount |-> count, ioActCount |-> 0]
          /\ UNCHANGED <<writeStorage, writeData, ioActCount, sendLength>>
      BY <2>2 DEF ReadDone, Carried
    <3> HIDE DEF count
    <3>3. Len(readData') = count
      BY <3>1, <3>2, BoundsAssumption
    <3> QED
      BY <1>0, <3>1, <3>2, <3>3, BoundsAssumption DEF SaneCounters
  <2>3. CASE TransferFails
    BY <1>0, <2>3 DEF TransferFails, copyVars, SaneCounters
  <2> QED
    BY <1>6, <2>1, <2>2, <2>3 DEF TransferEnds
<1> QED
  BY <1>1, <1>2, <1>3, <1>4, <1>5, <1>6 DEF Next

\* The types of what is queued, held and parked, step by step.
LEMMA StepRequestTypes ==
  ASSUME OwnerTypes, RequestTypes, ArgsInv, [Next]_vars
  PROVE  RequestTypes'
<1> USE DEF At, CanRun, GoTo
<1>0. RequestTypes /\ ArgsInv /\ pc \in [Ctx -> Labels]
  BY DEF OwnerTypes
\* A request being issued or started.
<1>a. ASSUME NEW c \in Ctx, NEW r \in Req, NEW d \in Drivers, StartPrime(c, r, d)
      PROVE  /\ pb' \in [Ctx -> Req \cup {NoReq}]
             /\ dce' \in [Ctx -> Drivers \cup {NoDriver}] /\ err' \in [Ctx -> Results]
  BY <1>0, <1>a DEF StartPrime, RequestTypes, Results
<1>b. ASSUME NEW c \in Ctx, NEW r \in Req, NEW l \in Labels, IssueRequest(c, r, l),
             waiting' \in Req \cup {NoReq}
      PROVE  RequestTypes'
  <2>1. DriverOf[r] \in Drivers
    BY RequestsAssumption
  <2>2. /\ pb' \in [Ctx -> Req \cup {NoReq}]
        /\ dce' \in [Ctx -> Drivers \cup {NoDriver}] /\ err' \in [Ctx -> Results]
    <3>1. CASE queue[DriverOf[r]] = <<>>
      BY <1>a, <1>b, <2>1, <3>1 DEF IssueRequest
    <3>2. CASE queue[DriverOf[r]] # <<>>
      BY <1>0, <1>b, <3>2, SMTT(30) DEF IssueRequest, RequestTypes, argVars
    <3> QED
      BY <3>1, <3>2
  <2>3. queue' \in [Drivers -> Seq(Req)]
    BY <1>0, <1>b, <2>1, SMTT(30) DEF IssueRequest, RequestTypes
  <2> QED
    BY <1>0, <1>b, <2>2, <2>3 DEF IssueRequest, RequestTypes, connVars
<1>1. ASSUME NEW r \in Req, MainIssues(r) \/ InterruptIssues(r) PROVE RequestTypes'
  <2>1. "idle" \in Labels /\ waiting' \in Req \cup {NoReq}
    BY <1>0, <1>1 DEF MainIssues, InterruptIssues, RequestTypes, Labels
  <2> QED
    BY <1>b, <1>1, <2>1 DEF MainIssues, InterruptIssues
<1>2. ASSUME NEW c \in Ctx, NEW r \in Req, CompletionIssues(c, r) PROVE RequestTypes'
  <2>1. "return" \in Labels /\ waiting' \in Req \cup {NoReq}
    BY <1>0, <1>2 DEF CompletionIssues, RequestTypes, Labels
  <2> QED
    BY <1>b, <1>2, <2>1 DEF CompletionIssues
<1>3. CASE MainAwakes
  BY <1>0, <1>3 DEF MainAwakes, RequestTypes, connVars, dmVars, argVars
<1>4. ASSUME NEW c \in Ctx, Prime(c) PROVE RequestTypes'
  <2>1. CASE Enter(c) \/ CompletionReturns(c) \/ Result(c)
    BY <1>0, <2>1 DEF Enter, CompletionReturns, Result, RequestTypes, connVars, dmVars, argVars
  <2>2. CASE Copy(c)
    <3>1. \E e \in {"noErr", "inProgress", connResult} : err' = [err EXCEPT ![c] = e]
      BY <2>2 DEF Copy, CopyRead, CopyWrite, CopyRefused, CopyResult
    <3>2. err' \in [Ctx -> Results]
      BY <1>0, <3>1 DEF RequestTypes, Results
    <3> QED
      BY <1>0, <2>2, <3>2 DEF Copy, RequestTypes, connVars, dmVars
  <2>3. CASE Find(c)
    <3>1. info' \in [Ctx -> 1..Entries]
      BY <1>0, <2>3, SMTT(30) DEF Find, RequestTypes
    <3> QED
      BY <1>0, <2>3, <3>1 DEF Find, RequestTypes, connVars, dmVars, argVars
  <2>4. CASE Claim(c) \/ ParkDce(c) \/ ParkPb(c)
    <3>1. dce[c] \in Drivers /\ pb[c] \in Req /\ info[c] \in 1..Entries /\ drvrInfo \in Tables
      BY <1>0, <2>4 DEF Claim, ParkDce, ParkPb, RequestTypes, ArgsInv
    <3>2. drvrInfo' \in Tables
      BY <2>4, <3>1 DEF Claim, ParkDce, ParkPb, Tables
    <3> QED
      BY <1>0, <2>4, <3>2 DEF Claim, ParkDce, ParkPb, RequestTypes, connVars, dmVars, argVars
  <2>5. CASE IODone(c)
    <3> DEFINE q == queue[dce[c]]
    <3>1. dce[c] \in Drivers /\ q \in Seq(Req) /\ q # <<>>
      BY <1>0, <2>5 DEF IODone, RequestTypes, ArgsInv
    <3>2. Head(q) \in Req /\ Tail(q) \in Seq(Req) /\ (Tail(q) # <<>> => Head(Tail(q)) \in Req)
      BY <3>1
    <3>3. queue' = [queue EXCEPT ![dce[c]] = Tail(q)]
          /\ todo' = [todo EXCEPT ![c] = IF Tail(q) = <<>> THEN todo[c] ELSE <<Head(Tail(q))>> \o todo[c]]
      BY <2>5 DEF IODone
    <3> HIDE DEF q
    <3>4. queue' \in [Drivers -> Seq(Req)]
      BY <1>0, <3>2, <3>3 DEF RequestTypes
    <3>5. todo' \in [Ctx -> Seq(Req)]
      <4>1. todo \in [Ctx -> Seq(Req)] /\ todo[c] \in Seq(Req)
        BY <1>0 DEF RequestTypes
      <4>2. CASE Tail(q) = <<>>
        BY <3>3, <4>1, <4>2
      <4>3. CASE Tail(q) # <<>>
        <5>1. <<Head(Tail(q))>> \in Seq(Req)
          BY <3>2, <4>3
        <5>2. <<Head(Tail(q))>> \o todo[c] \in Seq(Req)
          BY <4>1, <5>1, ConcatProperties
        <5> QED
          BY <3>3, <4>1, <4>3, <5>2
      <4> QED
        BY <4>2, <4>3
    <3> QED
      BY <1>0, <2>5, <3>4, <3>5 DEF IODone, RequestTypes, connVars, argVars
  <2>6. CASE Return(c)
    <3>1. /\ pb' \in [Ctx -> Req \cup {NoReq}]
          /\ dce' \in [Ctx -> Drivers \cup {NoDriver}] /\ err' \in [Ctx -> Results]
          /\ todo' \in [Ctx -> Seq(Req)]
      <4>1. CASE todo[c] # <<>>
        <5>1. todo[c] \in Seq(Req) /\ Head(todo[c]) \in Req /\ Tail(todo[c]) \in Seq(Req)
          BY <1>0, <4>1 DEF RequestTypes
        <5>2. DriverOf[Head(todo[c])] \in Drivers
          BY <5>1, RequestsAssumption
        <5>3. /\ StartPrime(c, Head(todo[c]), DriverOf[Head(todo[c])])
              /\ todo' = [todo EXCEPT ![c] = Tail(todo[c])]
          BY <2>6, <4>1 DEF Return
        <5>4. todo' \in [Ctx -> Seq(Req)]
          BY <1>0, <5>1, <5>3 DEF RequestTypes
        <5> QED
          BY <1>a, <5>1, <5>2, <5>3, <5>4
      <4>2. CASE todo[c] = <<>>
        <5>2. pb' = pb /\ dce' = dce /\ err' = err /\ todo' = todo
          BY <2>6, <4>2 DEF Return, argVars
        <5>3. /\ pb \in [Ctx -> Req \cup {NoReq}] /\ dce \in [Ctx -> Drivers \cup {NoDriver}]
              /\ err \in [Ctx -> Results] /\ todo \in [Ctx -> Seq(Req)]
          BY <1>0 DEF RequestTypes
        <5> QED
          BY <5>2, <5>3
      <4> QED
        BY <4>1, <4>2
    <3> QED
      BY <1>0, <2>6, <3>1 DEF Return, RequestTypes, connVars, dmVars
  <2> QED
    BY <1>4, <2>1, <2>2, <2>3, <2>4, <2>5, <2>6 DEF Prime
<1>5. CASE Wake
  <2>1. CASE ScanEnd
    BY <1>0, <2>1 DEF ScanEnd, RequestTypes, connVars, dmVars, argVars
  <2>2. CASE ScanSkip
    <3>1. scan' \in 1..(Entries + 1)
      BY <2>2, BoundsAssumption DEF ScanSkip, InTable
    <3> QED
      BY <1>0, <2>2, <3>1 DEF ScanSkip, RequestTypes, connVars, dmVars, argVars
  <2>3. CASE ScanPrime
    <3>1. scan \in 1..Entries /\ drvrInfo \in Tables
          /\ drvrInfo[scan].pendingPb \in Req /\ drvrInfo[scan].pendingDce \in Drivers
      BY <1>0, <2>3 DEF ScanPrime, InTable, RequestTypes, Tables, ArgsInv
    <3>2. scan' \in 1..(Entries + 1)
      BY <2>3, <3>1, BoundsAssumption DEF ScanPrime
    <3>3. drvrInfo' \in Tables
      BY <2>3, <3>1 DEF ScanPrime, Tables
    <3>4. /\ pb' \in [Ctx -> Req \cup {NoReq}]
          /\ dce' \in [Ctx -> Drivers \cup {NoDriver}] /\ err' \in [Ctx -> Results]
      BY <1>a, <2>3, <3>1 DEF ScanPrime
    <3> QED
      BY <1>0, <2>3, <3>2, <3>3, <3>4 DEF ScanPrime, RequestTypes, connVars, dmVars
  <2> QED
    BY <1>5, <2>1, <2>2, <2>3 DEF Wake
<1>c. ASSUME StartWakeUp PROVE scan' \in 1..(Entries + 1)
  BY <1>c, BoundsAssumption DEF StartWakeUp
<1>6. CASE VBLTask
  BY <1>0, <1>c, <1>6
  DEF VBLTask, VBLFlush, VBLFill, VBLWake, StartTransfer, RequestTypes, Results, connVars, dmVars, argVars
<1>7. CASE TransferEnds
  BY <1>0, <1>c, <1>7
  DEF TransferEnds, WriteDone, ReadDone, TransferFails, StartTransfer, RequestTypes, Results, dmVars, argVars
<1>8. CASE Feed \/ UNCHANGED vars
  BY <1>0, <1>8 DEF Feed, vars, RequestTypes, connVars, dmVars, argVars
<1> QED
  BY <1>1, <1>2, <1>3, <1>4, <1>5, <1>6, <1>7, <1>8 DEF Next

\* A result is stored for a request that is queued or was, whatever else X holds.
LEMMA StepResults ==
  ASSUME OwnerTypes, RequestTypes, ArgsInv, [Next]_vars,
         NEW X, Results \subseteq X, ioResult \in [Req -> X]
  PROVE  ioResult' \in [Req -> X]
<1> USE DEF At, CanRun
<1>0. /\ pc \in [Ctx -> Labels] /\ err \in [Ctx -> Results] /\ queue \in [Drivers -> Seq(Req)]
      /\ \A c \in Ctx : pc[c] \notin {"idle", "scan"} => dce[c] \in Drivers
  BY DEF OwnerTypes, RequestTypes, ArgsInv
<1>a. ASSUME NEW r, NEW e \in Results, ioResult' = [ioResult EXCEPT ![r] = e]
      PROVE  ioResult' \in [Req -> X]
  BY <1>a
<1>1. ASSUME NEW c \in Ctx, NEW r \in Req, MainIssues(r) \/ InterruptIssues(r) \/ CompletionIssues(c, r)
      PROVE  ioResult' \in [Req -> X]
  <2>1. ioResult' = [ioResult EXCEPT ![r] = "inProgress"] /\ "inProgress" \in Results
    BY <1>1 DEF MainIssues, InterruptIssues, CompletionIssues, IssueRequest, Results
  <2> QED
    BY <1>a, <2>1
<1>2. ASSUME NEW c \in Ctx, Prime(c) PROVE ioResult' \in [Req -> X]
  <2>1. CASE Result(c) \/ IODone(c)
    <3>1. \E r : ioResult' = [ioResult EXCEPT ![r] = err[c]]
      BY <2>1 DEF Result, IODone
    <3> QED
      BY <1>0, <1>a, <3>1
  <2>2. UNCHANGED ioResult \/ Result(c) \/ IODone(c)
    BY <1>2 DEF Prime, Enter, Copy, Find, Claim, ParkDce, ParkPb, CompletionReturns, Return, dmVars
  <2> QED
    BY <2>1, <2>2
<1>3. CASE MainAwakes \/ Wake \/ VBLTask \/ TransferEnds \/ Feed \/ UNCHANGED vars
  BY <1>3 DEF MainAwakes, Wake, ScanEnd, ScanSkip, ScanPrime, VBLTask, VBLFlush, VBLFill, VBLWake,
     TransferEnds, WriteDone, ReadDone, TransferFails, Feed, vars, dmVars
<1> QED
  BY <1>1, <1>2, <1>3 DEF Next

LEMMA StepResultTypes == WorkInv /\ [Next]_vars => ResultTypes'
<1>1. Results \subseteq Results \cup {"unissued"}
  OBVIOUS
<1> QED
  BY <1>1, StepResults DEF WorkInv, ResultTypes

\* The types of the buffers and of what passes through them.
BufferTypes ==
  /\ readStorage \in Storage /\ writeStorage \in Storage
  /\ readData \in Seq(Nat) /\ readExtraAvail \in Nat
  /\ writeData \in Seq(Writes \X Nat) /\ sendLength \in Int
  /\ bytesRead \in Int /\ bytesWritten \in Int
  /\ flight \in {"none", "write", "read"}
  /\ fed \in 0..MaxFed /\ fetched \in 0..fed
  /\ sent \in Seq(Writes \X Nat) /\ delivered \in Seq(Nat)
  /\ ioActCount \in [Req -> Int]

LEMMA StepBufferTypes == IInv /\ [Next]_vars => BufferTypes'
<1> SUFFICES ASSUME IInv, [Next]_vars PROVE BufferTypes'
  OBVIOUS
<1>0. BufferTypes /\ ArgsInv /\ SaneCounters
  BY DEF IInv, TypeOK, BufferTypes
<1>1. CASE UNCHANGED copyVars /\ UNCHANGED connVars
  BY <1>0, <1>1 DEF BufferTypes, copyVars, connVars
<1>2. ASSUME NEW c \in Ctx, NEW r \in Req, NEW l, IssueRequest(c, r, l) PROVE BufferTypes'
  BY <1>0, <1>2 DEF IssueRequest, BufferTypes, copyVars, connVars
<1>3. ASSUME NEW c \in Ctx, Copy(c) PROVE BufferTypes'
  <2>1. /\ readStorage' \in Storage /\ writeStorage' \in Storage
        /\ ioActCount' \in [Req -> Int] /\ delivered' \in Seq(Nat)
        /\ writeData' \in Seq(Writes \X Nat)
    <3>1. CASE CopyRead(c)
      BY <1>0, <1>3, <3>1, CopyReadKeeps DEF Copy, CopyRead, BufferTypes, At
    <3>2. CASE CopyWrite(c)
      BY <1>0, <1>3, <3>2, CopyWriteKeeps DEF Copy, CopyWrite, BufferTypes, At
    <3>3. CASE CopyRefused(c)
      BY <1>0, <3>3 DEF CopyRefused, BufferTypes, copyVars
    <3> QED
      BY <1>3, <3>1, <3>2, <3>3 DEF Copy
  <2>2. bytesRead' \in Int /\ bytesWritten' \in Int
    <3>1. CASE CopyRefused(c)
      BY <1>0, <3>1 DEF CopyRefused, BufferTypes, copyVars
    <3>2. CASE CopyRead(c) \/ CopyWrite(c)
      <4>1. PICK m : AddToTotals(pb[c], m) /\ ioActCount' = [ioActCount EXCEPT ![pb[c]] = m]
        BY <3>2 DEF CopyRead, CopyWrite, CopyResult
      <4>2. pb[c] \in Req
        BY <1>0, <1>3 DEF Copy, ArgsInv, At
      <4>3. m \in Int
        BY <1>0, <2>1, <4>1, <4>2 DEF BufferTypes
      <4> QED
        BY <1>0, <4>1, <4>3 DEF AddToTotals, BufferTypes
    <3> QED
      BY <1>3, <3>1, <3>2 DEF Copy
  <2> QED
    BY <1>0, <1>3, <2>1, <2>2 DEF Copy, BufferTypes, connVars
<1>4. CASE VBLTask
  BY <1>0, <1>4
  DEF VBLTask, VBLFlush, VBLFill, VBLWake, StartTransfer, BufferTypes, Storage, copyVars, connVars, dmVars
<1>5. ASSUME flight = "write" PROVE sent \o SubSeq(writeData, 1, sendLength) \in Seq(Writes \X Nat)
  <2>1. sendLength \in Nat /\ sendLength <= Len(writeData) /\ writeData \in Seq(Writes \X Nat)
        /\ sent \in Seq(Writes \X Nat)
    BY <1>0, <1>5, BoundsAssumption DEF SaneCounters, BufferTypes
  <2>2. SubSeq(writeData, 1, sendLength) \in Seq(Writes \X Nat)
    BY <2>1, SubSeqProperties
  <2> QED
    BY <2>1, <2>2, ConcatProperties
<1>6. CASE TransferEnds
  <2>1. CASE WriteDone
    <3>1. sent' \in Seq(Writes \X Nat)
      BY <1>5, <2>1 DEF WriteDone
    <3>2. writeStorage' \in Storage
      <4>1. writeStorage = [ioReqCount |-> writeStorage.ioReqCount, ioActCount |-> writeStorage.ioActCount]
            /\ writeStorage.ioReqCount \in Int
        BY <1>0 DEF BufferTypes, Storage
      <4>2. writeStorage' = [ioReqCount |-> writeStorage.ioReqCount, ioActCount |-> 0]
        BY <2>1, <4>1 DEF WriteDone, SentStorage
      <4> QED
        BY <4>1, <4>2 DEF Storage
    <3>3. flight' \in {"none", "write", "read"}
      BY <2>1 DEF WriteDone, StartTransfer
    <3> QED
      BY <1>0, <2>1, <3>1, <3>2, <3>3 DEF WriteDone, BufferTypes, dmVars
  <2>2. CASE ReadDone
    <3> DEFINE avail == fed - fetched
               count == IF avail > PayloadSize THEN PayloadSize ELSE avail
    <3>1. fed \in Nat /\ fetched \in Nat /\ avail \in Nat /\ count \in 0..avail
      BY <1>0, BoundsAssumption DEF BufferTypes
    <3>2. /\ readData' = [i \in 1..count |-> fetched + i] /\ flight' = "none" /\ connResult' = "noErr"
          /\ readStorage' = [ioReqCount |-> count, ioActCount |-> 0]
          /\ readExtraAvail' = ExtraAvail(avail) /\ fetched' = fetched + count
      BY <2>2 DEF ReadDone, Carried
    <3>3. readExtraAvail' \in Nat
      BY <3>1, <3>2, BoundsAssumption DEF ExtraAvail
    <3>4. fetched' \in 0..fed
      BY <3>1, <3>2
    <3> HIDE DEF count, avail
    <3>5. readData' \in Seq(Nat) /\ readStorage' \in Storage
      BY <3>1, <3>2 DEF Storage
    <3> QED
      BY <1>0, <2>2, <3>2, <3>3, <3>4, <3>5 DEF ReadDone, BufferTypes, dmVars
  <2>3. CASE TransferFails
    <3>1. sent' \in Seq(Writes \X Nat)
      BY <1>0, <1>5, <2>3 DEF TransferFails, BufferTypes
    <3>2. fetched' \in 0..fed
      BY <1>0, <2>3, BoundsAssumption DEF TransferFails, Carried, BufferTypes
    <3> QED
      BY <1>0, <2>3, <3>1, <3>2 DEF TransferFails, BufferTypes, copyVars, dmVars
  <2> QED
    BY <1>6, <2>1, <2>2, <2>3 DEF TransferEnds
<1>7. CASE Feed
  <2>1. fed' \in 0..MaxFed /\ fetched \in 0..fed'
    BY <1>0, <1>7, BoundsAssumption DEF Feed, BufferTypes
  <2> QED
    BY <1>0, <1>7, <2>1 DEF Feed, BufferTypes, copyVars, dmVars
<1>8. ASSUME NEW c \in Ctx, Prime(c) PROVE BufferTypes'
  BY <1>1, <1>3, <1>8
  DEF Prime, Enter, Find, Claim, ParkDce, ParkPb, Result, IODone, CompletionReturns, Return, dmVars
<1>9. CASE MainAwakes \/ Wake \/ UNCHANGED vars
  BY <1>1, <1>9 DEF MainAwakes, Wake, ScanEnd, ScanSkip, ScanPrime, vars, dmVars
<1> QED
  BY <1>2, <1>4, <1>6, <1>7, <1>8, <1>9 DEF Next, MainIssues, InterruptIssues, CompletionIssues

LEMMA StepTypeOK == IInv /\ [Next]_vars => TypeOK'
<1> SUFFICES ASSUME IInv, [Next]_vars PROVE TypeOK'
  OBVIOUS
<1>1. OwnerTypes' /\ RequestTypes' /\ ResultTypes' /\ BufferTypes'
  BY WorkIsPart, StepOwnerTypes, StepRequestTypes, StepResultTypes, StepBufferTypes DEF WorkInv
<1> QED
  BY <1>1 DEF OwnerTypes, RequestTypes, ResultTypes, BufferTypes, Tables, TypeOK

\* The inductive invariant.
THEOREM InvariantHolds == Spec => []IInv
<1>1. Init => IInv
  BY InitIInv
<1>2. IInv /\ [Next]_vars => IInv'
  BY StepTypeOK, StepLockInv, StepSaneCounters, StepArgsInv, WorkIsPart DEF IInv, WorkInv
<1> QED
  BY <1>1, <1>2, PTL DEF Spec

LEMMA WorkInvariant == Spec => []WorkInv
BY InvariantHolds, WorkIsPart, PTL

\* Every variable of the driver keeps its type (FujiSerData, the parameter blocks,
\* the Device Manager's queues), whatever the drivers and requests are.
THEOREM TypeCorrect == Spec => []TypeOK
<1>1. IInv => TypeOK
  BY DEF IInv
<1> QED
  BY <1>1, InvariantHolds, PTL

\* The VBL mutex excludes doPrime's critical section, a transfer in progress and a
\* wake up from one another, and is held by one of them whenever it is taken
\* (takeVblMutex, releaseVblMutex).
THEOREM MutexIsExclusive == Spec => []VblMutexExcludes
<1>1. IInv => VblMutexExcludes
  BY DEF IInv, LockInv, OwnerInv
<1> QED
  BY <1>1, InvariantHolds, PTL

\* bufferCopy's sanity checks never fire, and a message in flight carries exactly
\* the bytes the buffer counts.
THEOREM CountersStaySane == Spec => []SaneCounters
<1>1. IInv => SaneCounters
  BY DEF IInv
<1> QED
  BY <1>1, InvariantHolds, PTL
===============================================================================
