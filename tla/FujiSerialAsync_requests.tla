----------------------- MODULE FujiSerialAsync_requests -----------------------
(* Proofs about who holds a request of FujiSerialAsync: no request is lost, none *)
(* is served twice and none is completed in the place of another, for any       *)
(* number of drivers and requests.                                              *)
EXTENDS FujiSerialAsync_proofs, FiniteSetTheorems, WellFoundedInduction

USE DEF Ctx

\* getDriverInfo is not protected against an interrupt that claims the same empty
\* entry.  The theorems are about programs that do not provoke it: what is requested
\* at interrupt level goes to drivers that are in the table from the start.
FirstUseAtMain ==
  \A r \in AtInterrupt : \E i \in 1..Len(Registered) : Registered[i] = DriverOf[r]

-------------------------------------------------------------------------------
(* The invariant *)

\* The request that heads its driver's queue: the one the Device Manager started.
Oldest(r) == queue[DriverOf[r]] # <<>> /\ Head(queue[DriverOf[r]]) = r

\* Where a request can be besides in a thread's hands: in the table, or among those
\* that a thread has yet to start.
Parked(i, r) == drvrInfo[i].pendingPb = r
Left(c, r) == \E k \in 1..Len(todo[c]) : todo[c][k] = r

\* A queue holds requests to its driver, each once.
QueueInv ==
  \A d \in Drivers : \A i \in 1..Len(queue[d]) :
    /\ DriverOf[queue[d][i]] = d /\ ioResult[queue[d][i]] # "unissued"
    /\ \A j \in 1..Len(queue[d]) : queue[d][i] = queue[d][j] => i = j

\* The used entries come first, and a parked request is in its driver's entry.
TableInv ==
  /\ \A i \in 1..Entries, j \in 1..Entries :
       j <= i /\ drvrInfo[i].refNum # NoDriver => drvrInfo[j].refNum # NoDriver
  /\ \A i \in 1..Entries :
       drvrInfo[i].pendingPb # NoReq =>
         /\ drvrInfo[i].refNum = DriverOf[drvrInfo[i].pendingPb]
         /\ drvrInfo[i].pendingDce = drvrInfo[i].refNum

Entered(table, d) == \E i \in 1..Entries : table[i].refNum = d

\* What getDriverInfo found stays right until the request is parked, whatever
\* interrupts do to the table meanwhile: they enter no driver.
FoundInv ==
  /\ \A c \in Ctx :
       /\ pc[c] = "claim" =>
            /\ drvrInfo[info[c]].refNum \in {dce[c], NoDriver}
            /\ \A j \in 1..Entries : j < info[c] => drvrInfo[j].refNum # NoDriver
       /\ pc[c] \in {"parkDce", "parkPb"} => drvrInfo[info[c]].refNum = dce[c]
       /\ pc[c] = "parkPb" => drvrInfo[info[c]].pendingDce = dce[c]
  /\ pc["intr"] = "claim" => drvrInfo[info["intr"]].refNum = dce["intr"]

\* What is started at interrupt level, now or later, is for drivers in the table.
EnteredInv ==
  /\ pc["intr"] \notin {"idle", "scan"} => Entered(drvrInfo, dce["intr"])
  /\ \A k \in 1..Len(todo["intr"]) : Entered(drvrInfo, DriverOf[todo["intr"][k]])
  /\ \A i \in 1..Len(Registered) : Entered(drvrInfo, Registered[i])

\* A thread serves a request for the driver it was made to, and its result is 1 for
\* as long as it may still park it.
ServeInv ==
  \A c \in Ctx :
    /\ pc[c] \notin {"idle", "scan"} => dce[c] = DriverOf[pb[c]]
    /\ pc[c] \in {"enter", "find", "claim", "parkDce", "parkPb"} => err[c] = "inProgress"
    /\ pc[c] = "iodone" => err[c] # "inProgress"

\* Exactly the oldest requests are held, each in one place.
KeptOnce ==
  /\ \A r \in Req :
       Oldest(r) <=> \/ \E c \in Ctx : Running(c, r) \/ Left(c, r)
                     \/ \E i \in 1..Entries : Parked(i, r)
  /\ \A r \in Req, c \in Ctx, b \in Ctx :
       /\ Running(c, r) => ~Left(b, r) /\ (Running(b, r) => b = c)
       /\ Left(c, r) /\ Left(b, r) => b = c
  /\ \A r \in Req, i \in 1..Entries :
       Parked(i, r) =>
         /\ \A c \in Ctx : ~Running(c, r) /\ ~Left(c, r)
         /\ \A j \in 1..Entries : Parked(j, r) => j = i
  /\ \A c \in Ctx : \A i, j \in 1..Len(todo[c]) : todo[c][i] = todo[c][j] => i = j

KInv == QueueInv /\ TableInv /\ FoundInv /\ EnteredInv /\ ServeInv /\ KeptOnce

-------------------------------------------------------------------------------
(* Queues *)

\* Appending what is not there, and removing the first, leave everything once.
LEMMA AppendTailOnce ==
  ASSUME NEW S, NEW q \in Seq(S), \A i, j \in 1..Len(q) : q[i] = q[j] => i = j
  PROVE  /\ \A x \in S : (\A i \in 1..Len(q) : q[i] # x) =>
              \A i, j \in 1..Len(Append(q, x)) : Append(q, x)[i] = Append(q, x)[j] => i = j
         /\ q # <<>> =>
              /\ \A i, j \in 1..Len(Tail(q)) : Tail(q)[i] = Tail(q)[j] => i = j
              /\ \A i \in 1..Len(Tail(q)) : Tail(q)[i] # Head(q)
OBVIOUS

\* The driver just opened: nothing queued, nothing held.
LEMMA InitKInv == FirstUseAtMain /\ Init => KInv
<1> SUFFICES ASSUME FirstUseAtMain, Init PROVE KInv
  OBVIOUS
<1> USE DEF Init
<1>0. /\ Len(Registered) \in Nat /\ Len(Registered) < Entries /\ Entries \in Nat
      /\ \A i \in 1..Len(Registered) : Registered[i] \in Drivers /\ Registered[i] # NoDriver
  BY TableAssumption, BoundsAssumption, SentinelsAssumption
<1>1. \A i \in 1..Entries :
        /\ drvrInfo[i].refNum = IF i <= Len(Registered) THEN Registered[i] ELSE NoDriver
        /\ drvrInfo[i].pendingPb = NoReq
  BY DEF NoEntry
<1>2. QueueInv /\ ServeInv
  BY DEF QueueInv, ServeInv
<1>3. TableInv
  BY <1>0, <1>1 DEF TableInv
<1>4. \A i \in 1..Len(Registered) : Entered(drvrInfo, Registered[i])
  BY <1>0, <1>1 DEF Entered
<1>5. FoundInv /\ EnteredInv
  BY <1>4 DEF FoundInv, EnteredInv
<1>6. \A r \in Req : /\ ~Oldest(r)
                     /\ \A c \in Ctx : ~Running(c, r) /\ ~Left(c, r)
                     /\ \A i \in 1..Entries : ~Parked(i, r)
  BY <1>1, RequestsAssumption, SentinelsAssumption DEF Oldest, Running, Left, Parked
<1>7. KeptOnce
  BY <1>6 DEF KeptOnce
<1> QED
  BY <1>2, <1>3, <1>5, <1>7 DEF KInv

\* What is queued, and once.
LEMMA StepQueueInv == WorkInv /\ QueueInv /\ [Next]_vars => QueueInv'
<1> SUFFICES ASSUME WorkInv, QueueInv, [Next]_vars PROVE QueueInv'
  OBVIOUS
<1>0. /\ queue \in [Drivers -> Seq(Req)] /\ ioResult \in [Req -> Results \cup {"unissued"}]
      /\ err \in [Ctx -> Results] /\ DriverOf \in [Req -> Drivers]
      /\ "unissued" \notin Results /\ "inProgress" \in Results
  BY RequestsAssumption DEF WorkInv, RequestTypes, ResultTypes, Results
<1>a. ASSUME UNCHANGED dmVars PROVE QueueInv'
  BY <1>a DEF dmVars, QueueInv
<1>b. ASSUME NEW c \in Ctx, NEW r \in Req, NEW l, IssueRequest(c, r, l) PROVE QueueInv'
  <2> DEFINE d == DriverOf[r]
  <2>1. /\ ioResult[r] = "unissued" /\ ioResult' = [ioResult EXCEPT ![r] = "inProgress"]
        /\ queue' = [queue EXCEPT ![d] = Append(queue[d], r)] /\ d \in Drivers
    BY <1>0, <1>b DEF IssueRequest
  <2>2. \A i \in 1..Len(queue[d]) : queue[d][i] # r
    BY <2>1 DEF QueueInv
  <2>3. \A i, j \in 1..Len(Append(queue[d], r)) :
          Append(queue[d], r)[i] = Append(queue[d], r)[j] => i = j
    BY <1>0, <2>1, <2>2, AppendTailOnce DEF QueueInv
  <2>4. \A i \in 1..Len(Append(queue[d], r)) :
          /\ DriverOf[Append(queue[d], r)[i]] = d /\ ioResult'[Append(queue[d], r)[i]] # "unissued"
    BY <1>0, <2>1 DEF QueueInv
  <2>5. \A e \in Drivers : e # d => queue'[e] = queue[e] /\
          \A i \in 1..Len(queue[e]) : ioResult'[queue[e][i]] # "unissued"
    BY <1>0, <2>1 DEF QueueInv
  <2>6. queue'[d] = Append(queue[d], r)
    BY <1>0, <2>1
  <2> SUFFICES ASSUME NEW e \in Drivers, NEW i \in 1..Len(queue'[e])
               PROVE  /\ DriverOf[queue'[e][i]] = e /\ ioResult'[queue'[e][i]] # "unissued"
                      /\ \A j \in 1..Len(queue'[e]) : queue'[e][i] = queue'[e][j] => i = j
    BY DEF QueueInv
  <2>7. CASE e = d
    BY <2>3, <2>4, <2>6, <2>7
  <2>8. CASE e # d
    BY <2>5, <2>8 DEF QueueInv
  <2> QED
    BY <2>7, <2>8
<1>1. ASSUME NEW r \in Req, MainIssues(r) \/ InterruptIssues(r) PROVE QueueInv'
  BY <1>b, <1>1 DEF MainIssues, InterruptIssues
<1>2. ASSUME NEW c \in Ctx, NEW r \in Req, CompletionIssues(c, r) PROVE QueueInv'
  BY <1>b, <1>2 DEF CompletionIssues
<1>3. ASSUME NEW c \in Ctx, Prime(c) PROVE QueueInv'
  <2>1. CASE \/ Enter(c) \/ Copy(c) \/ Find(c) \/ Claim(c) \/ ParkDce(c) \/ ParkPb(c)
             \/ CompletionReturns(c) \/ Return(c)
    BY <1>a, <2>1 DEF Enter, Copy, Find, Claim, ParkDce, ParkPb, CompletionReturns, Return
  <2>2. CASE Result(c)
    BY <1>0, <2>2 DEF Result, QueueInv
  <2>3. CASE IODone(c)
    <3> DEFINE d == dce[c]
               q == queue[dce[c]]
    <3>1. /\ d \in Drivers /\ q \in Seq(Req) /\ q # <<>> /\ Head(q) \in Req
          /\ ioResult' = [ioResult EXCEPT ![Head(q)] = err[c]]
          /\ queue' = [queue EXCEPT ![d] = Tail(q)]
      BY <1>0, <2>3 DEF IODone, WorkInv, ArgsInv, At
    <3>2. \A i, j \in 1..Len(Tail(q)) : Tail(q)[i] = Tail(q)[j] => i = j
      BY <3>1, AppendTailOnce DEF QueueInv
    <3>3. \A x : ioResult[x] # "unissued" /\ x \in Req => ioResult'[x] # "unissued"
      BY <1>0, <3>1
    <3>4. \A e \in Drivers : \A i \in 1..Len(queue[e]) : queue[e][i] \in Req
      BY <1>0
    <3>5. \A i \in 1..Len(Tail(q)) : DriverOf[Tail(q)[i]] = d /\ ioResult'[Tail(q)[i]] # "unissued"
      <4>1. \A i \in 1..Len(Tail(q)) : i + 1 \in 1..Len(q) /\ Tail(q)[i] = q[i + 1]
        BY <3>1
      <4> QED
        BY <3>1, <3>3, <3>4, <4>1 DEF QueueInv
    <3>6. \A e \in Drivers : e # d => queue'[e] = queue[e]
      BY <1>0, <3>1
    <3>7. queue'[d] = Tail(q)
      BY <1>0, <3>1
    <3> HIDE DEF d, q
    <3> SUFFICES ASSUME NEW e \in Drivers, NEW i \in 1..Len(queue'[e])
                 PROVE  /\ DriverOf[queue'[e][i]] = e /\ ioResult'[queue'[e][i]] # "unissued"
                        /\ \A j \in 1..Len(queue'[e]) : queue'[e][i] = queue'[e][j] => i = j
      BY DEF QueueInv
    <3>8. CASE e = d
      BY <3>2, <3>5, <3>7, <3>8
    <3>9. CASE e # d
      BY <3>3, <3>4, <3>6, <3>9 DEF QueueInv
    <3> QED
      BY <3>8, <3>9
  <2> QED
    BY <1>3, <2>1, <2>2, <2>3 DEF Prime
<1>4. CASE MainAwakes \/ Wake \/ VBLTask \/ TransferEnds \/ Feed \/ UNCHANGED vars
  BY <1>a, <1>4 DEF MainAwakes, Wake, ScanEnd, ScanSkip, ScanPrime, VBLTask, VBLFlush, VBLFill, VBLWake,
     TransferEnds, WriteDone, ReadDone, TransferFails, Feed, vars
<1> QED
  BY <1>1, <1>2, <1>3, <1>4 DEF Next

-------------------------------------------------------------------------------
(* The table *)

\* The types that the steps below need.
LEMMA Types ==
  ASSUME WorkInv
  PROVE  /\ pc \in [Ctx -> Labels] /\ pb \in [Ctx -> Req \cup {NoReq}]
         /\ dce \in [Ctx -> Drivers \cup {NoDriver}] /\ info \in [Ctx -> 1..Entries]
         /\ err \in [Ctx -> Results] /\ todo \in [Ctx -> Seq(Req)]
         /\ queue \in [Drivers -> Seq(Req)] /\ scan \in 1..(Entries + 1)
         /\ drvrInfo \in [1..Entries -> [refNum : Drivers \cup {NoDriver}, pendingPb : Req \cup {NoReq},
                                         pendingDce : Drivers \cup {NoDriver}]]
         /\ \A c \in Ctx : pc[c] \notin {"idle", "scan"} => pb[c] \in Req /\ dce[c] \in Drivers
         /\ DriverOf \in [Req -> Drivers] /\ NoDriver \notin Drivers /\ NoReq \notin Req
         /\ pc["main"] # "scan" /\ Entries \in Nat
BY RequestsAssumption, SentinelsAssumption, BoundsAssumption DEF WorkInv, OwnerTypes, RequestTypes, Tables, ArgsInv, OwnerInv

\* Entries are filled from the first on, never renamed, and hold their driver's request.
LEMMA StepTableInv ==
  ASSUME WorkInv, TableInv, FoundInv, ServeInv, [Next]_vars
  PROVE  /\ TableInv'
         /\ \A i \in 1..Entries :
              drvrInfo'[i].refNum = drvrInfo[i].refNum \/ drvrInfo[i].refNum = NoDriver
<1> USE DEF At, CanRun
<1> DEFINE Goal == /\ TableInv'
                   /\ \A i \in 1..Entries :
                        drvrInfo'[i].refNum = drvrInfo[i].refNum \/ drvrInfo[i].refNum = NoDriver
<1>a. ASSUME UNCHANGED drvrInfo PROVE Goal
  BY <1>a DEF TableInv
<1>1. ASSUME NEW c \in Ctx, Claim(c) PROVE Goal
  <2>1. /\ info[c] \in 1..Entries /\ dce[c] \in Drivers
        /\ drvrInfo[info[c]].refNum \in {dce[c], NoDriver}
        /\ \A j \in 1..Entries : j < info[c] => drvrInfo[j].refNum # NoDriver
    BY <1>1, Types DEF Claim, FoundInv
  <2>2. \A i \in 1..Entries :
          /\ drvrInfo'[i].refNum = IF i = info[c] THEN dce[c] ELSE drvrInfo[i].refNum
          /\ drvrInfo'[i].pendingPb = drvrInfo[i].pendingPb
          /\ drvrInfo'[i].pendingDce = drvrInfo[i].pendingDce
    BY <1>1, Types DEF Claim
  <2>3. \A i \in 1..Entries : drvrInfo[i].pendingPb # NoReq => drvrInfo[i].refNum # NoDriver
    <3>1. \A i \in 1..Entries : drvrInfo[i].pendingPb \in Req \cup {NoReq}
      BY Types
    <3> QED
      BY <3>1, Types DEF TableInv
  <2>4. \A i, j \in 1..Entries : j <= i /\ drvrInfo'[i].refNum # NoDriver => drvrInfo'[j].refNum # NoDriver
    <3> SUFFICES ASSUME NEW i \in 1..Entries, NEW j \in 1..Entries, j <= i,
                        drvrInfo'[i].refNum # NoDriver
                 PROVE  drvrInfo'[j].refNum # NoDriver
      OBVIOUS
    <3>1. dce[c] # NoDriver
      BY <2>1, Types
    <3>2. CASE i = info[c]
      BY <2>1, <2>2, <3>1, <3>2, BoundsAssumption
    <3>3. CASE i # info[c]
      BY <2>2, <3>1, <3>3 DEF TableInv
    <3> QED
      BY <3>2, <3>3
  <2>5. \A i \in 1..Entries : drvrInfo'[i].pendingPb # NoReq =>
          /\ drvrInfo'[i].refNum = DriverOf[drvrInfo'[i].pendingPb]
          /\ drvrInfo'[i].pendingDce = drvrInfo'[i].refNum
    BY <2>1, <2>2, <2>3 DEF TableInv
  <2> QED
    BY <2>1, <2>2, <2>4, <2>5 DEF TableInv
<1>2. ASSUME NEW c \in Ctx, ParkDce(c) PROVE Goal
  <2>1. drvrInfo[info[c]].refNum = dce[c]
    BY <1>2, Types DEF ParkDce, FoundInv
  <2>2. \A i \in 1..Entries :
          /\ drvrInfo'[i].refNum = drvrInfo[i].refNum
          /\ drvrInfo'[i].pendingPb = drvrInfo[i].pendingPb
          /\ drvrInfo'[i].pendingDce = IF i = info[c] THEN dce[c] ELSE drvrInfo[i].pendingDce
    BY <1>2, Types DEF ParkDce
  <2> QED
    BY <2>1, <2>2, Types, ZenonT(60) DEF TableInv
<1>3. ASSUME NEW c \in Ctx, ParkPb(c) PROVE Goal
  <2>1. /\ drvrInfo[info[c]].refNum = dce[c] /\ drvrInfo[info[c]].pendingDce = dce[c]
        /\ dce[c] = DriverOf[pb[c]]
    BY <1>3, Types DEF ParkPb, FoundInv, ServeInv
  <2>2. \A i \in 1..Entries :
          /\ drvrInfo'[i].refNum = drvrInfo[i].refNum
          /\ drvrInfo'[i].pendingPb = IF i = info[c] THEN pb[c] ELSE drvrInfo[i].pendingPb
          /\ drvrInfo'[i].pendingDce = drvrInfo[i].pendingDce
    BY <1>3, Types DEF ParkPb
  <2> QED
    BY <2>1, <2>2, Types, ZenonT(60) DEF TableInv
<1>4. CASE ScanPrime
  <2>1. \A i \in 1..Entries :
          /\ drvrInfo'[i].refNum = drvrInfo[i].refNum
          /\ drvrInfo'[i].pendingPb \in {drvrInfo[i].pendingPb, NoReq}
          /\ drvrInfo'[i].pendingDce = drvrInfo[i].pendingDce
    BY <1>4, Types DEF ScanPrime, InTable
  <2> QED
    BY <2>1, Types DEF TableInv
<1>5. CASE \/ \E r \in Req : MainIssues(r) \/ InterruptIssues(r)
           \/ \E c \in Ctx, r \in Req : CompletionIssues(c, r)
           \/ MainAwakes \/ ScanEnd \/ ScanSkip \/ VBLTask \/ TransferEnds \/ Feed \/ UNCHANGED vars
  BY <1>a, <1>5 DEF MainIssues, InterruptIssues, CompletionIssues, IssueRequest, MainAwakes, ScanEnd,
     ScanSkip, VBLTask, VBLFlush, VBLFill, VBLWake, TransferEnds, WriteDone, ReadDone, TransferFails,
     Feed, vars
<1>6. ASSUME NEW c \in Ctx, \/ Enter(c) \/ Copy(c) \/ Find(c) \/ Result(c) \/ IODone(c)
                            \/ CompletionReturns(c) \/ Return(c)
      PROVE  Goal
  BY <1>a, <1>6 DEF Enter, Copy, Find, Result, IODone, CompletionReturns, Return
<1> QED
  BY <1>1, <1>2, <1>3, <1>4, <1>5, <1>6 DEF Next, Prime, Wake

\* A thread serves a request for its driver, and parks it only with result 1.
LEMMA StepServeInv == WorkInv /\ TableInv /\ ServeInv /\ [Next]_vars => ServeInv'
<1> SUFFICES ASSUME WorkInv, TableInv, ServeInv, [Next]_vars PROVE ServeInv'
  OBVIOUS
<1> USE DEF At, CanRun, GoTo
<1>a. ASSUME UNCHANGED argVars, \A c \in Ctx : pc'[c] \in {pc[c], "idle", "scan", "return", "call"},
             \A c \in Ctx : pc'[c] \notin {pc[c], "idle", "scan"} => pc[c] \notin {"idle", "scan"}
      PROVE  ServeInv'
  BY <1>a DEF ServeInv, argVars
<1>b. ASSUME NEW c \in Ctx, NEW r \in Req, StartPrime(c, r, DriverOf[r]) PROVE ServeInv'
  BY <1>b, Types DEF StartPrime, ServeInv
<1>c. ASSUME NEW c \in Ctx, NEW r \in Req, NEW l \in {"idle", "return"}, IssueRequest(c, r, l),
             l = "return" => pc[c] = "call"
      PROVE  ServeInv'
  <2>1. CASE queue[DriverOf[r]] = <<>>
    BY <1>b, <1>c, <2>1 DEF IssueRequest
  <2>2. CASE queue[DriverOf[r]] # <<>>
    BY <1>a, <1>c, <2>2, Types DEF IssueRequest
  <2> QED
    BY <2>1, <2>2
<1>1. ASSUME NEW r \in Req, MainIssues(r) \/ InterruptIssues(r) PROVE ServeInv'
  BY <1>c, <1>1 DEF MainIssues, InterruptIssues
<1>2. ASSUME NEW c \in Ctx, NEW r \in Req, CompletionIssues(c, r) PROVE ServeInv'
  BY <1>c, <1>2 DEF CompletionIssues
<1>3. ASSUME NEW c \in Ctx, Prime(c) PROVE ServeInv'
  <2>1. CASE Enter(c) \/ Find(c) \/ Claim(c) \/ ParkDce(c) \/ ParkPb(c) \/ Result(c) \/ IODone(c)
             \/ CompletionReturns(c)
    BY <2>1, Types, ZenonT(60)
    DEF Enter, Find, Claim, ParkDce, ParkPb, Result, IODone, CompletionReturns, ServeInv, argVars
  <2>2. CASE Copy(c)
    <3>1. \E e \in Results : /\ err' = [err EXCEPT ![c] = e]
                             /\ pc' = [pc EXCEPT ![c] = IF e = "inProgress" THEN "find" ELSE "result"]
                             /\ UNCHANGED <<pb, dce>>
      <4>1. CASE CopyRefused(c)
        BY <2>2, <4>1 DEF Copy, CopyRefused, WorkInv, RequestTypes
      <4>2. CASE CopyRead(c) \/ CopyWrite(c)
        BY <2>2, <4>2 DEF Copy, CopyRead, CopyWrite, CopyResult, Results
      <4> QED
        BY <2>2, <4>1, <4>2 DEF Copy
    <3> QED
      BY <2>2, <3>1, Types DEF Copy, ServeInv
  <2>3. CASE Return(c)
    <3>1. CASE todo[c] # <<>>
      BY <1>b, <2>3, <3>1, Types DEF Return
    <3>2. CASE todo[c] = <<>>
      BY <1>a, <2>3, <3>2, Types DEF Return
    <3> QED
      BY <3>1, <3>2
  <2> QED
    BY <1>3, <2>1, <2>2, <2>3 DEF Prime
<1>4. CASE ScanPrime
  <2>1. /\ scan \in 1..Entries /\ drvrInfo[scan].pendingPb \in Req
        /\ drvrInfo[scan].pendingDce = DriverOf[drvrInfo[scan].pendingPb]
    BY <1>4, Types DEF ScanPrime, InTable, TableInv
  <2> QED
    BY <1>b, <1>4, <2>1 DEF ScanPrime
<1>5. CASE MainAwakes \/ ScanEnd \/ ScanSkip \/ VBLTask \/ TransferEnds \/ Feed \/ UNCHANGED vars
  BY <1>a, <1>5, Types DEF MainAwakes, ScanEnd, ScanSkip, VBLTask, VBLFlush, VBLFill, VBLWake, TransferEnds,
     WriteDone, ReadDone, TransferFails, StartWakeUp, Feed, vars
<1> QED
  BY <1>1, <1>2, <1>3, <1>4, <1>5 DEF Next, Wake

\* Whatever interrupt level starts is for a driver in the table.
LEMMA StepEnteredInv ==
  ASSUME FirstUseAtMain, WorkInv, TableInv, FoundInv, EnteredInv, ServeInv, QueueInv, [Next]_vars
  PROVE  EnteredInv'
<1> USE DEF At, CanRun, GoTo
<1> DEFINE In(d) == Entered(drvrInfo', d)
<1>e. \A d \in Drivers : Entered(drvrInfo, d) => In(d)
  BY StepTableInv, Types DEF Entered
<1>i. \A r \in AtInterrupt : r \in Req /\ In(DriverOf[r])
  <2>1. \A r \in AtInterrupt : r \in Req /\ Entered(drvrInfo, DriverOf[r])
    BY RequestsAssumption DEF FirstUseAtMain, EnteredInv
  <2> QED
    BY <1>e, <2>1, Types
<1>t. \A k \in 1..Len(todo["intr"]) : In(DriverOf[todo["intr"][k]])
  <2>1. \A k \in 1..Len(todo["intr"]) : todo["intr"][k] \in Req
    BY Types
  <2> QED
    BY <1>e, <2>1, Types DEF EnteredInv
<1>r. \A i \in 1..Len(Registered) : In(Registered[i])
  <2>1. \A i \in 1..Len(Registered) : Registered[i] \in Drivers
    BY TableAssumption
  <2> QED
    BY <1>e, <2>1 DEF EnteredInv
<1>d. pc["intr"] \notin {"idle", "scan"} => In(dce["intr"])
  BY <1>e, Types DEF EnteredInv
<1> HIDE DEF In
<1>q. ASSUME pc'["intr"] \notin {"idle", "scan"} => In(dce'["intr"]),
             \A k \in 1..Len(todo'["intr"]) : In(DriverOf[todo'["intr"][k]])
      PROVE  EnteredInv'
  BY <1>q, <1>r DEF EnteredInv, In
<1>a. ASSUME UNCHANGED <<dce, todo>>, pc'["intr"] \notin {"idle", "scan"} => pc["intr"] \notin {"idle", "scan"}
      PROVE  EnteredInv'
  BY <1>a, <1>d, <1>q, <1>t
<1>b. ASSUME NEW c \in Ctx, NEW r \in Req, StartPrime(c, r, DriverOf[r]), c = "intr" => In(DriverOf[r]),
             todo' = todo \/ (todo[c] # <<>> /\ todo' = [todo EXCEPT ![c] = Tail(todo[c])])
      PROVE  EnteredInv'
  <2>1. pc'["intr"] \notin {"idle", "scan"} => In(dce'["intr"])
    BY <1>b, <1>d, Types DEF StartPrime
  <2>2. CASE todo'["intr"] = todo["intr"]
    BY <1>q, <1>t, <2>1, <2>2
  <2>3. CASE todo["intr"] # <<>> /\ todo'["intr"] = Tail(todo["intr"])
    <3>1. \A k \in 1..Len(todo'["intr"]) :
            todo'["intr"][k] = todo["intr"][k + 1] /\ k + 1 \in 1..Len(todo["intr"])
      BY <2>3, Types
    <3> QED
      BY <1>q, <1>t, <2>1, <3>1
  <2> QED
    BY <1>b, <2>2, <2>3, Types
<1>c. ASSUME NEW c \in Ctx, NEW r \in Req, NEW l \in {"idle", "return"}, IssueRequest(c, r, l),
             l = "return" => pc[c] = "call", c = "intr" => r \in AtInterrupt
      PROVE  EnteredInv'
  <2>1. CASE queue[DriverOf[r]] = <<>>
    BY <1>b, <1>c, <1>i, <2>1 DEF IssueRequest
  <2>2. CASE queue[DriverOf[r]] # <<>>
    BY <1>a, <1>c, <2>2, Types DEF IssueRequest, argVars
  <2> QED
    BY <2>1, <2>2
<1>1. ASSUME NEW r \in Req, MainIssues(r) \/ InterruptIssues(r) PROVE EnteredInv'
  BY <1>c, <1>1 DEF MainIssues, InterruptIssues
<1>2. ASSUME NEW c \in Ctx, NEW r \in Req, CompletionIssues(c, r) PROVE EnteredInv'
  BY <1>c, <1>2 DEF CompletionIssues
<1>3. ASSUME NEW c \in Ctx, Prime(c) PROVE EnteredInv'
  <2>1. CASE \/ Enter(c) \/ Copy(c) \/ Find(c) \/ Claim(c) \/ ParkDce(c) \/ ParkPb(c)
             \/ Result(c) \/ CompletionReturns(c)
    <3>1. UNCHANGED <<dce, todo>>
      BY <2>1 DEF Enter, Copy, Find, Claim, ParkDce, ParkPb, Result, CompletionReturns, argVars
    <3>2. \E l : pc' = [pc EXCEPT ![c] = l]
      BY <2>1 DEF Enter, Copy, CopyRead, CopyWrite, CopyRefused, CopyResult, Find, Claim, ParkDce,
         ParkPb, Result, CompletionReturns
    <3>3. pc[c] \notin {"idle", "scan"}
      BY <2>1 DEF Enter, Copy, Find, Claim, ParkDce, ParkPb, Result, CompletionReturns
    <3> QED
      BY <1>a, <3>1, <3>2, <3>3, Types
  <2>2. CASE IODone(c)
    <3> DEFINE q == queue[dce[c]]
    <3>1. dce[c] \in Drivers /\ q \in Seq(Req) /\ q # <<>>
      BY <2>2, Types DEF IODone
    <3>2. Tail(q) # <<>> => Head(Tail(q)) \in Req /\ DriverOf[Head(Tail(q))] = dce[c]
      <4> SUFFICES ASSUME Tail(q) # <<>> PROVE Head(Tail(q)) \in Req /\ DriverOf[Head(Tail(q))] = dce[c]
        OBVIOUS
      <4>1. 2 \in 1..Len(q) /\ Head(Tail(q)) = q[2]
        BY <3>1
      <4> QED
        BY <3>1, <4>1 DEF QueueInv
    <3>3. /\ pc[c] = "iodone" /\ pc' = [pc EXCEPT ![c] = "call"] /\ UNCHANGED dce
          /\ todo' = [todo EXCEPT ![c] = IF Tail(q) = <<>> THEN todo[c] ELSE <<Head(Tail(q))>> \o todo[c]]
      BY <2>2 DEF IODone, argVars
    <3> HIDE DEF q
    <3>4. pc'["intr"] \notin {"idle", "scan"} => In(dce'["intr"])
      BY <1>d, <3>3, Types
    <3>5. \A k \in 1..Len(todo'["intr"]) : In(DriverOf[todo'["intr"][k]])
      <4>1. CASE c = "main" \/ Tail(q) = <<>>
        BY <1>t, <3>3, <4>1, Types
      <4>2. CASE c = "intr" /\ Tail(q) # <<>>
        <5>1. todo'["intr"] = <<Head(Tail(q))>> \o todo["intr"] /\ todo["intr"] \in Seq(Req)
          BY <3>3, <4>2, Types
        <5>2. \A k \in 1..Len(todo'["intr"]) :
                /\ todo'["intr"][k] = IF k = 1 THEN Head(Tail(q)) ELSE todo["intr"][k - 1]
                /\ k = 1 \/ k - 1 \in 1..Len(todo["intr"])
          BY <3>2, <4>2, <5>1
        <5>3. In(DriverOf[Head(Tail(q))])
          BY <1>d, <3>2, <3>3, <4>2
        <5> QED
          BY <1>t, <5>2, <5>3
      <4> QED
        BY <4>1, <4>2
    <3> QED
      BY <1>q, <3>4, <3>5
  <2>3. CASE Return(c)
    <3>1. CASE todo[c] # <<>>
      <4>1. Head(todo[c]) \in Req /\ Head(todo[c]) = todo[c][1] /\ 1 \in 1..Len(todo[c])
        BY <3>1, Types
      <4>2. c = "intr" => In(DriverOf[Head(todo[c])])
        BY <1>t, <4>1
      <4> QED
        BY <1>b, <2>3, <3>1, <4>1, <4>2 DEF Return
    <3>2. CASE todo[c] = <<>>
      BY <1>a, <2>3, <3>2, Types DEF Return, argVars
    <3> QED
      BY <3>1, <3>2
  <2> QED
    BY <1>3, <2>1, <2>2, <2>3 DEF Prime
<1>4. CASE ScanPrime
  <2>1. /\ scan \in 1..Entries /\ drvrInfo[scan].pendingPb \in Req
        /\ drvrInfo[scan].pendingDce = DriverOf[drvrInfo[scan].pendingPb]
        /\ drvrInfo[scan].refNum = drvrInfo[scan].pendingDce
    BY <1>4, Types DEF ScanPrime, InTable, TableInv
  <2>2. In(drvrInfo[scan].pendingDce)
    BY <1>e, <2>1, Types DEF Entered
  <2> QED
    BY <1>4, <1>b, <2>1, <2>2 DEF ScanPrime
<1>5. CASE MainAwakes \/ ScanEnd \/ ScanSkip \/ VBLTask \/ TransferEnds \/ Feed \/ UNCHANGED vars
  BY <1>5, <1>a, Types DEF MainAwakes, ScanEnd, ScanSkip, VBLTask, VBLFlush, VBLFill, VBLWake, TransferEnds,
     WriteDone, ReadDone, TransferFails, StartWakeUp, Feed, vars, argVars
<1> QED
  BY <1>1, <1>2, <1>3, <1>4, <1>5 DEF Next, Wake

\* Interrupt level enters no driver, so the main program finds what it found.
LEMMA StepFoundInv ==
  ASSUME WorkInv, TableInv, FoundInv, EnteredInv, [Next]_vars
  PROVE  FoundInv'
<1> USE DEF At, CanRun, GoTo
\* A thread that does anything but find and park.
<1>a. ASSUME NEW c \in Ctx, NEW l \in Labels \ {"claim", "parkDce", "parkPb"}, pc' = [pc EXCEPT ![c] = l],
             \A b \in Ctx : b # c => dce'[b] = dce[b],
             \A i \in 1..Entries : /\ drvrInfo'[i].refNum = drvrInfo[i].refNum
                                   /\ drvrInfo'[i].pendingDce = drvrInfo[i].pendingDce,
             UNCHANGED info
      PROVE  FoundInv'
  BY <1>a, Types, SMTT(30) DEF FoundInv
<1>b. ASSUME UNCHANGED <<pc, dce, drvrInfo, info>> PROVE FoundInv'
  BY <1>b DEF FoundInv
<1>1. ASSUME NEW r \in Req, MainIssues(r) \/ InterruptIssues(r) PROVE FoundInv'
  BY <1>1, <1>a, Types DEF MainIssues, InterruptIssues, IssueRequest, StartPrime, argVars, Labels
<1>2. ASSUME NEW c \in Ctx, NEW r \in Req, CompletionIssues(c, r) PROVE FoundInv'
  BY <1>2, <1>a, Types DEF CompletionIssues, IssueRequest, StartPrime, argVars, Labels
<1>3. ASSUME NEW c \in Ctx, Prime(c) PROVE FoundInv'
  <2>1. CASE Enter(c) \/ Copy(c) \/ Result(c) \/ IODone(c) \/ CompletionReturns(c) \/ Return(c)
    <3>1. \E l \in {"enter", "copy", "find", "result", "return", "iodone", "call", "idle", "scan"} :
            pc' = [pc EXCEPT ![c] = l]
      BY <2>1 DEF Enter, Copy, CopyRead, CopyWrite, CopyRefused, CopyResult, Result, IODone,
         CompletionReturns, Return, StartPrime
    <3>2. UNCHANGED <<drvrInfo, info>> /\ \A b \in Ctx : b # c => dce'[b] = dce[b]
      BY <2>1, Types DEF Enter, Copy, Result, IODone, CompletionReturns, Return, StartPrime, argVars
    <3> QED
      BY <1>a, <3>1, <3>2 DEF Labels
  <2>2. CASE Find(c)
    <3>1. PICK i \in 1..Entries :
            /\ drvrInfo[i].refNum \in {dce[c], NoDriver}
            /\ \A j \in 1..(i - 1) : drvrInfo[j].refNum \notin {dce[c], NoDriver}
            /\ info' = [info EXCEPT ![c] = i]
      BY <2>2 DEF Find
    <3>2. \A j \in 1..Entries : j < i => drvrInfo[j].refNum \notin {dce[c], NoDriver}
      BY <3>1, Types
    <3>3. c = "intr" => drvrInfo[i].refNum = dce[c]
      <4> SUFFICES ASSUME c = "intr", drvrInfo[i].refNum = NoDriver PROVE FALSE
        BY <3>1
      <4>1. PICK k \in 1..Entries : drvrInfo[k].refNum = dce[c]
        BY <2>2 DEF Find, EnteredInv, Entered
      <4>2. dce[c] # NoDriver
        BY <2>2, Types DEF Find
      <4>3. i <= k
        BY <3>2, <4>1, Types
      <4> QED
        BY <4>1, <4>2, <4>3 DEF TableInv
    <3>4. pc[c] = "find" /\ pc' = [pc EXCEPT ![c] = "claim"] /\ UNCHANGED <<dce, drvrInfo>>
      BY <2>2 DEF Find, argVars
    <3>5. \A b \in Ctx : b # c => info'[b] = info[b] /\ pc'[b] = pc[b]
      BY <3>1, <3>4, Types
    <3>6. info'[c] = i /\ pc'[c] = "claim"
      BY <3>1, <3>4, Types
    <3> QED
      BY <3>1, <3>2, <3>3, <3>4, <3>5, <3>6 DEF FoundInv
  <2>3. CASE Claim(c)
    <3>1. /\ info[c] \in 1..Entries /\ dce[c] \in Drivers
          /\ drvrInfo[info[c]].refNum \in {dce[c], NoDriver}
          /\ c = "intr" => drvrInfo[info[c]].refNum = dce[c]
      BY <2>3, Types DEF Claim, FoundInv
    <3>2. \A i \in 1..Entries :
            /\ drvrInfo'[i].refNum = IF i = info[c] THEN dce[c] ELSE drvrInfo[i].refNum
            /\ drvrInfo'[i].pendingDce = drvrInfo[i].pendingDce
      BY <2>3, Types DEF Claim
    <3>3. UNCHANGED <<dce, info>> /\ (c = "main" => pc["intr"] = "idle")
      BY <2>3 DEF Claim, argVars
    <3>4. \A b \in Ctx : info[b] \in 1..Entries /\ (b # c => pc'[b] = pc[b]) /\ (pc'[c] = "parkDce")
      BY <2>3, Types DEF Claim
    <3>5. CASE c = "intr"
      <4>1. \A i \in 1..Entries : drvrInfo'[i].refNum = drvrInfo[i].refNum
        BY <3>1, <3>2, <3>5
      <4> QED
        BY <3>1, <3>2, <3>3, <3>4, <3>5, <4>1 DEF FoundInv
    <3>6. CASE c = "main"
      BY <3>1, <3>2, <3>3, <3>4, <3>6 DEF FoundInv
    <3> QED
      BY <3>5, <3>6
  <2>4. CASE ParkDce(c)
    <3>1. drvrInfo[info[c]].refNum = dce[c] /\ info[c] \in 1..Entries
      BY <2>4, Types DEF ParkDce, FoundInv
    <3>2. \A i \in 1..Entries :
            /\ drvrInfo'[i].refNum = drvrInfo[i].refNum
            /\ drvrInfo'[i].pendingDce = IF i = info[c] THEN dce[c] ELSE drvrInfo[i].pendingDce
      BY <2>4, Types DEF ParkDce
    <3>3. UNCHANGED <<dce, info>>
      BY <2>4 DEF ParkDce, argVars
    <3>4. \A b \in Ctx : info[b] \in 1..Entries /\ (b # c => pc'[b] = pc[b]) /\ (pc'[c] = "parkPb")
      BY <2>4, Types DEF ParkDce
    <3> QED
      BY <3>1, <3>2, <3>3, <3>4 DEF FoundInv
  <2>5. CASE ParkPb(c)
    <3>1. \A i \in 1..Entries : /\ drvrInfo'[i].refNum = drvrInfo[i].refNum
                                /\ drvrInfo'[i].pendingDce = drvrInfo[i].pendingDce
      BY <2>5, Types, SMTT(30) DEF ParkPb
    <3> QED
      BY <1>a, <2>5, <3>1 DEF ParkPb, argVars, Labels
  <2> QED
    BY <1>3, <2>1, <2>2, <2>3, <2>4, <2>5 DEF Prime
<1>4. CASE ScanPrime
  <2>1. \A i \in 1..Entries : /\ drvrInfo'[i].refNum = drvrInfo[i].refNum
                              /\ drvrInfo'[i].pendingDce = drvrInfo[i].pendingDce
    BY <1>4, Types DEF ScanPrime
  <2> QED
    BY <1>4, <1>a, <2>1, Types DEF ScanPrime, StartPrime, Labels
<1>5. CASE MainAwakes \/ ScanEnd \/ ScanSkip \/ VBLTask \/ TransferEnds \/ Feed \/ UNCHANGED vars
  <2>1. UNCHANGED <<dce, drvrInfo, info>>
    BY <1>5 DEF MainAwakes, ScanEnd, ScanSkip, VBLTask, VBLFlush, VBLFill, VBLWake, TransferEnds,
       WriteDone, ReadDone, TransferFails, Feed, vars, argVars
  <2>2. UNCHANGED pc \/ pc' = [pc EXCEPT !["intr"] = "scan"] \/ pc' = [pc EXCEPT !["intr"] = "idle"]
    BY <1>5 DEF MainAwakes, ScanEnd, ScanSkip, VBLTask, VBLFlush, VBLFill, VBLWake, TransferEnds,
       WriteDone, ReadDone, TransferFails, StartWakeUp, Feed, vars
  <2> QED
    BY <1>a, <1>b, <2>1, <2>2 DEF Labels
<1> QED
  BY <1>1, <1>2, <1>3, <1>4, <1>5 DEF Next, Wake

-------------------------------------------------------------------------------
(* Requests *)

\* A thread that serves a request holds it, so that it is the oldest of its driver.
LEMMA ServedIsOldest ==
  ASSUME WorkInv, ServeInv, KeptOnce, NEW c \in Ctx,
         pc[c] \in {"enter", "copy", "find", "claim", "parkDce", "parkPb", "iodone"}
  PROVE  /\ pb[c] \in Req /\ dce[c] = DriverOf[pb[c]] /\ dce[c] \in Drivers /\ Running(c, pb[c])
         /\ queue[dce[c]] # <<>> /\ Head(queue[dce[c]]) = pb[c]
<1>1. pb[c] \in Req /\ dce[c] = DriverOf[pb[c]] /\ dce[c] \in Drivers
  BY Types DEF ServeInv
<1>2. Running(c, pb[c])
  BY DEF Running, ServeInv
<1>3. Oldest(pb[c])
  BY <1>1, <1>2 DEF KeptOnce
<1> QED
  BY <1>1, <1>2, <1>3 DEF Oldest

\* Exactly the oldest requests are held, each in one place: a request that becomes
\* the oldest is given to one thread, and then goes from hand to hand.
LEMMA StepKeptOnce ==
  ASSUME WorkInv, QueueInv, TableInv, FoundInv, ServeInv, KeptOnce, [Next]_vars
  PROVE  KeptOnce'
<1> USE DEF At, CanRun, GoTo
\* What stays where it is.
<1>q. ASSUME UNCHANGED queue PROVE \A r \in Req : Oldest(r)' <=> Oldest(r)
  BY <1>q DEF Oldest
<1>t. ASSUME UNCHANGED todo PROVE \A c \in Ctx, r \in Req : Left(c, r)' <=> Left(c, r)
  BY <1>t DEF Left
<1>p. ASSUME UNCHANGED drvrInfo PROVE \A i \in 1..Entries, r \in Req : Parked(i, r)' <=> Parked(i, r)
  BY <1>p DEF Parked
<1>a. ASSUME UNCHANGED <<queue, todo>>,
             \A i \in 1..Entries : drvrInfo'[i].pendingPb = drvrInfo[i].pendingPb,
             \A c \in Ctx, r \in Req : Running(c, r)' <=> Running(c, r)
      PROVE  KeptOnce'
  <2>1. \A i \in 1..Entries, r \in Req : Parked(i, r)' <=> Parked(i, r)
    BY <1>a DEF Parked
  <2> QED
    BY <1>a, <1>q, <1>t, <2>1 DEF KeptOnce
\* Thread c begins to serve request r.
<1>b. ASSUME NEW c \in Ctx, NEW r \in Req, NEW d, StartPrime(c, r, d)
      PROVE  /\ \A q \in Req : Running(c, q)' <=> q = r
             /\ \A b \in Ctx, q \in Req : b # c => (Running(b, q)' <=> Running(b, q))
  BY <1>b, Types DEF StartPrime, Running
\* Thread c goes on with no request in hand.
<1>n. ASSUME NEW c \in Ctx, NEW l \in {"idle", "scan", "call", "return"}, pc' = [pc EXCEPT ![c] = l],
             UNCHANGED <<pb, err>>
      PROVE  /\ \A q \in Req : ~Running(c, q)'
             /\ \A b \in Ctx, q \in Req : b # c => (Running(b, q)' <=> Running(b, q))
  BY <1>n, Types DEF Running
<1>c. ASSUME NEW c \in Ctx, NEW r \in Req, NEW l \in {"idle", "return"}, IssueRequest(c, r, l),
             pc[c] \in {"idle", "call"}
      PROVE  KeptOnce'
  <2>1. \A q \in Req : ~Running(c, q)
    BY <1>c DEF Running
  <2>2. UNCHANGED <<drvrInfo, todo>> /\ queue' = [queue EXCEPT ![DriverOf[r]] = Append(queue[DriverOf[r]], r)]
    BY <1>c DEF IssueRequest
  <2>3. CASE queue[DriverOf[r]] = <<>>
    <3>1. ~Oldest(r) /\ Oldest(r)'
      BY <2>2, <2>3, Types DEF Oldest
    <3>2. \A q \in Req : q # r => (Oldest(q)' <=> Oldest(q))
      BY <2>2, <2>3, Types DEF Oldest
    <3>3. StartPrime(c, r, DriverOf[r])
      BY <1>c, <2>3 DEF IssueRequest
    <3> QED
      BY <1>b, <1>t, <1>p, <2>1, <2>2, <3>1, <3>2, <3>3 DEF KeptOnce
  <2>4. CASE queue[DriverOf[r]] # <<>>
    <3>1. \A d \in Drivers : d # DriverOf[r] => queue'[d] = queue[d]
      BY <2>2, Types
    <3>2. /\ queue'[DriverOf[r]] # <<>>
          /\ Head(queue'[DriverOf[r]]) = Head(queue[DriverOf[r]])
      <4> DEFINE q == queue[DriverOf[r]]
      <4>1. q \in Seq(Req) /\ q # <<>> /\ queue'[DriverOf[r]] = Append(q, r)
        BY <2>2, <2>4, Types
      <4> HIDE DEF q
      <4> QED
        BY <4>1 DEF q
    <3>3. \A q \in Req : Oldest(q)' <=> Oldest(q)
      BY <2>4, <3>1, <3>2, Types DEF Oldest
    <3>4. \A b \in Ctx, q \in Req : Running(b, q)' <=> Running(b, q)
      BY <1>c, <1>n, <2>1, <2>4 DEF IssueRequest, argVars
    <3> QED
      BY <1>t, <1>p, <2>2, <3>3, <3>4 DEF KeptOnce
  <2> QED
    BY <2>3, <2>4
<1>1. ASSUME NEW r \in Req, MainIssues(r) \/ InterruptIssues(r) PROVE KeptOnce'
  BY <1>c, <1>1 DEF MainIssues, InterruptIssues
<1>2. ASSUME NEW c \in Ctx, NEW r \in Req, CompletionIssues(c, r) PROVE KeptOnce'
  BY <1>c, <1>2 DEF CompletionIssues
<1>3. ASSUME NEW c \in Ctx, Prime(c) PROVE KeptOnce'
  <2>1. CASE Enter(c) \/ Find(c) \/ Claim(c) \/ ParkDce(c) \/ Result(c) \/ CompletionReturns(c)
    <3>1. \A i \in 1..Entries : drvrInfo'[i].pendingPb = drvrInfo[i].pendingPb
      <4>1. CASE Claim(c)
        BY <4>1, Types DEF Claim
      <4>2. CASE ParkDce(c)
        BY <4>2, Types DEF ParkDce
      <4>3. CASE Enter(c) \/ Find(c) \/ Result(c) \/ CompletionReturns(c)
        BY <4>3 DEF Enter, Find, Result, CompletionReturns
      <4> QED
        BY <2>1, <4>1, <4>2, <4>3
    <3>2. \A b \in Ctx, r \in Req : Running(b, r)' <=> Running(b, r)
      <4>1. UNCHANGED <<pb, err>> /\ \A b \in Ctx : b # c => pc'[b] = pc[b]
        BY <2>1, Types DEF Enter, Find, Claim, ParkDce, Result, CompletionReturns, argVars
      <4>2. CASE Enter(c) \/ Find(c) \/ Claim(c) \/ ParkDce(c)
        <5>1. /\ pc[c] \in {"enter", "find", "claim", "parkDce"}
              /\ pc'[c] \in {"copy", "find", "claim", "parkDce", "parkPb"}
          BY <4>2, Types DEF Enter, Find, Claim, ParkDce
        <5> QED
          BY <4>1, <5>1 DEF Running
      <4>3. CASE Result(c) \/ CompletionReturns(c)
        <5>1. \/ pc[c] = "result" /\ err[c] = "inProgress" /\ pc'[c] = "return"
              \/ pc[c] = "result" /\ err[c] # "inProgress" /\ pc'[c] = "iodone"
              \/ pc[c] = "call" /\ pc'[c] = "return"
          BY <4>3, Types DEF Result, CompletionReturns
        <5> QED
          BY <4>1, <5>1 DEF Running
      <4> QED
        BY <2>1, <4>2, <4>3
    <3> QED
      BY <1>a, <2>1, <3>1, <3>2 DEF Enter, Find, Claim, ParkDce, Result, CompletionReturns, dmVars
  <2>2. CASE Copy(c)
    <3>1. \E e \in Results : /\ err' = [err EXCEPT ![c] = e]
                             /\ pc' = [pc EXCEPT ![c] = IF e = "inProgress" THEN "find" ELSE "result"]
      <4>1. CASE CopyRefused(c)
        BY <2>2, <4>1 DEF Copy, CopyRefused, WorkInv, RequestTypes
      <4>2. CASE CopyRead(c) \/ CopyWrite(c)
        BY <2>2, <4>2 DEF Copy, CopyRead, CopyWrite, CopyResult, Results
      <4> QED
        BY <2>2, <4>1, <4>2 DEF Copy
    <3>2. \A b \in Ctx, r \in Req : Running(b, r)' <=> Running(b, r)
      BY <2>2, <3>1, Types DEF Copy, Running
    <3> QED
      BY <1>a, <2>2, <3>2 DEF Copy, dmVars
  <2>3. CASE ParkPb(c)
    <3> DEFINE r == pb[c]
               i == info[c]
    <3>1. /\ pc[c] = "parkPb" /\ pc' = [pc EXCEPT ![c] = "result"] /\ UNCHANGED <<queue, todo, pb, err>>
          /\ \A j \in 1..Entries : drvrInfo'[j].pendingPb = IF j = i THEN r ELSE drvrInfo[j].pendingPb
          /\ i \in 1..Entries
      BY <2>3, Types DEF ParkPb, dmVars, argVars
    <3>2. r \in Req /\ dce[c] = DriverOf[r] /\ Running(c, r) /\ Oldest(r)
      BY <3>1, ServedIsOldest DEF Oldest
    <3>3. \A q \in Req : ~Parked(i, q)
      <4> SUFFICES ASSUME NEW q \in Req, Parked(i, q) PROVE FALSE
        OBVIOUS
      <4>1. Oldest(q) /\ q # r
        BY <3>1, <3>2 DEF KeptOnce
      <4>2. DriverOf[q] = dce[c]
        BY <3>1, Types DEF Parked, TableInv, FoundInv
      <4> QED
        BY <3>2, <4>1, <4>2 DEF Oldest
    <3>4. \A b \in Ctx, q \in Req : Running(b, q)' <=> Running(b, q) /\ ~(b = c)
      BY <3>1, Types DEF Running, ServeInv
    <3>5. \A q \in Req : Running(c, q) => q = r
      BY DEF Running
    <3>6. \A j \in 1..Entries, q \in Req : Parked(j, q)' <=> Parked(j, q) \/ (j = i /\ q = r)
      BY <3>1, <3>3 DEF Parked
    <3> HIDE DEF r, i
    <3> QED
      BY <1>q, <1>t, <3>1, <3>2, <3>3, <3>4, <3>5, <3>6 DEF KeptOnce
  <2>4. CASE IODone(c)
    <3> DEFINE r == pb[c]
               d == dce[c]
               q == queue[dce[c]]
    <3>1. /\ r \in Req /\ d = DriverOf[r] /\ d \in Drivers /\ Running(c, r)
          /\ q \in Seq(Req) /\ q # <<>> /\ Head(q) = r /\ Oldest(r)
      BY <2>4, ServedIsOldest, Types DEF IODone, Oldest
    <3>2. /\ pc' = [pc EXCEPT ![c] = "call"] /\ UNCHANGED <<drvrInfo, pb, err>>
          /\ queue' = [queue EXCEPT ![d] = Tail(q)]
          /\ todo' = [todo EXCEPT ![c] = IF Tail(q) = <<>> THEN todo[c] ELSE <<Head(Tail(q))>> \o todo[c]]
      BY <2>4 DEF IODone, argVars
    <3>3. \A x \in Req : Running(c, x) => x = r
      BY DEF Running
    <3>4. /\ \A x \in Req : ~Running(c, x)'
          /\ \A b \in Ctx, x \in Req : b # c => (Running(b, x)' <=> Running(b, x))
      BY <1>n, <3>2
    <3>5. \A i \in 1..Len(Tail(q)) : Tail(q)[i] # r
      BY <3>1, AppendTailOnce DEF QueueInv
    <3>6. \A x \in Req : DriverOf[x] # d => (Oldest(x)' <=> Oldest(x))
      BY <3>1, <3>2, Types DEF Oldest
    <3>7. \A x \in Req : DriverOf[x] = d => (Oldest(x) <=> x = r)
      BY <3>1 DEF Oldest
    <3>8. \A x \in Req : DriverOf[x] = d => (Oldest(x)' <=> Tail(q) # <<>> /\ Head(Tail(q)) = x)
      BY <3>1, <3>2, Types DEF Oldest
    <3>9. CASE Tail(q) = <<>>
      <4>1. UNCHANGED todo
        BY <3>2, <3>9, Types
      <4>2. \A x \in Req : Oldest(x)' <=> Oldest(x) /\ x # r
        BY <3>1, <3>6, <3>7, <3>8, <3>9
      <4>3. r \in Req /\ Oldest(r) /\ Running(c, r) /\ UNCHANGED drvrInfo
        BY <3>1, <3>2
      <4> HIDE DEF r, d, q
      <4> QED
        BY <1>t, <1>p, <3>3, <3>4, <4>1, <4>2, <4>3 DEF KeptOnce
    <3>10. CASE Tail(q) # <<>>
      <4> DEFINE n == Head(Tail(q))
      <4>1. n \in Req /\ n # r /\ DriverOf[n] = d
        <5>1. 2 \in 1..Len(q) /\ n = q[2] /\ n = Tail(q)[1] /\ 1 \in 1..Len(Tail(q)) /\ n \in Req
          BY <3>1, <3>10
        <5> QED
          BY <3>1, <3>5, <5>1 DEF QueueInv
      <4>2. ~Oldest(n)
        BY <3>7, <4>1
      <4>3. \A b \in Ctx : ~Left(b, n)
        BY <4>1, <4>2, ZenonT(60) DEF KeptOnce
      <4>4. todo[c] \in Seq(Req) /\ todo'[c] = <<n>> \o todo[c] /\ \A b \in Ctx : b # c => todo'[b] = todo[b]
        BY <3>2, <3>10, Types
      <4> HIDE DEF n
      <4>5. /\ Len(todo'[c]) = Len(todo[c]) + 1 /\ todo'[c][1] = n /\ Len(todo[c]) \in Nat
            /\ \A k \in 1..Len(todo[c]) : todo'[c][k + 1] = todo[c][k]
        BY <4>1, <4>4
      <4>6. \A b \in Ctx, x \in Req : Left(b, x)' <=> Left(b, x) \/ (b = c /\ x = n)
        <5>1. \A x \in Req : Left(c, x)' => Left(c, x) \/ x = n
          <6> SUFFICES ASSUME NEW x \in Req, NEW k \in 1..Len(todo'[c]), todo'[c][k] = x, x # n
                       PROVE  \E j \in 1..Len(todo[c]) : todo[c][j] = x
            BY DEF Left
          <6>1. k - 1 \in 1..Len(todo[c]) /\ todo[c][k - 1] = x
            BY <4>5, SMTT(30)
          <6> QED
            BY <6>1
        <5>2. \A x \in Req : Left(c, x) \/ x = n => Left(c, x)'
          <6>1. ASSUME NEW x \in Req, x = n PROVE Left(c, x)'
            <7>1. 1 \in 1..Len(todo'[c]) /\ todo'[c][1] = x
              BY <4>5, <6>1
            <7> QED
              BY <7>1 DEF Left
          <6>2. ASSUME NEW x \in Req, NEW k \in 1..Len(todo[c]), todo[c][k] = x PROVE Left(c, x)'
            <7>1. k + 1 \in 1..Len(todo'[c]) /\ todo'[c][k + 1] = x
              BY <4>5, <6>2
            <7> QED
              BY <7>1 DEF Left
          <6>3. ASSUME NEW x \in Req, Left(c, x) PROVE Left(c, x)'
            <7>1. PICK k \in 1..Len(todo[c]) : todo[c][k] = x
              BY <6>3 DEF Left
            <7> QED
              BY <6>2, <7>1
          <6> QED
            BY <6>1, <6>3
        <5>3. \A b \in Ctx, x \in Req : b # c => (Left(b, x)' <=> Left(b, x))
          BY <4>4 DEF Left
        <5> QED
          BY <5>1, <5>2, <5>3
      <4>7. \A b \in Ctx : \A i, j \in 1..Len(todo'[b]) : todo'[b][i] = todo'[b][j] => i = j
        <5>1. \A k \in 1..Len(todo[c]) : todo[c][k] # n
          BY <4>3 DEF Left
        <5>2. \A i, j \in 1..Len(todo[c]) : todo[c][i] = todo[c][j] => i = j
          BY DEF KeptOnce
        <5>3. \A k \in 1..Len(todo'[c]) :
                k = 1 \/ (k - 1 \in 1..Len(todo[c]) /\ todo'[c][k] = todo[c][k - 1])
          BY <4>5
        <5>4. ASSUME NEW i \in 1..Len(todo'[c]), NEW j \in 1..Len(todo'[c]), todo'[c][i] = todo'[c][j]
              PROVE  i = j
          <6>1. CASE i = 1 \/ j = 1
            BY <4>5, <5>1, <5>3, <5>4, <6>1
          <6>2. CASE i # 1 /\ j # 1
            <7>1. i - 1 = j - 1
              BY <5>2, <5>3, <5>4, <6>2
            <7> QED
              BY <4>5, <7>1
          <6> QED
            BY <6>1, <6>2
        <5> QED
          BY <4>4, <5>4 DEF KeptOnce
      <4>8. \A x \in Req : Oldest(x)' <=> (Oldest(x) /\ x # r) \/ x = n
        <5> SUFFICES ASSUME NEW x \in Req PROVE Oldest(x)' <=> (Oldest(x) /\ x # r) \/ x = n
          OBVIOUS
        <5>1. CASE DriverOf[x] = d
          <6>1. Oldest(x)' <=> n = x
            BY <3>8, <3>10, <5>1 DEF n
          <6> QED
            BY <3>7, <5>1, <6>1
        <5>2. CASE DriverOf[x] # d
          <6>1. x # n /\ x # r
            BY <3>1, <4>1, <5>2
          <6> QED
            BY <3>6, <5>2, <6>1
        <5> QED
          BY <5>1, <5>2
      <4>9. r \in Req /\ Oldest(r) /\ Running(c, r) /\ UNCHANGED drvrInfo
        BY <3>1, <3>2
      <4>10. \A b \in Ctx : ~Running(b, n)
        BY <4>1, <4>2 DEF KeptOnce
      <4>11. \A i \in 1..Entries : ~Parked(i, n)
        BY <4>1, <4>2 DEF KeptOnce
      <4>12. \A i \in 1..Entries, x \in Req : Parked(i, x)' <=> Parked(i, x)
        BY <1>p, <4>9
      <4> HIDE DEF r, d, q
      <4>13. \A x \in Req :
               Oldest(x)' <=> \/ \E b \in Ctx : Running(b, x)' \/ Left(b, x)'
                              \/ \E i \in 1..Entries : Parked(i, x)'
        BY <3>3, <3>4, <4>1, <4>6, <4>8, <4>9, <4>12 DEF KeptOnce
      <4>14. \A x \in Req, b \in Ctx, e \in Ctx :
               /\ Running(b, x)' => ~Left(e, x)' /\ (Running(e, x)' => e = b)
               /\ Left(b, x)' /\ Left(e, x)' => e = b
        BY <3>4, <4>3, <4>6, <4>10 DEF KeptOnce
      <4>15. \A x \in Req, i \in 1..Entries :
               Parked(i, x)' =>
                 /\ \A b \in Ctx : ~Running(b, x)' /\ ~Left(b, x)'
                 /\ \A j \in 1..Entries : Parked(j, x)' => j = i
        BY <3>4, <4>6, <4>11, <4>12 DEF KeptOnce
      <4> QED
        BY <4>7, <4>13, <4>14, <4>15 DEF KeptOnce
    <3> QED
      BY <3>9, <3>10
  <2>5. CASE Return(c)
    <3>1. CASE todo[c] # <<>>
      <4> DEFINE r == Head(todo[c])
      <4>1. /\ r \in Req /\ todo[c] \in Seq(Req) /\ todo'[c] = Tail(todo[c])
            /\ StartPrime(c, r, DriverOf[r]) /\ UNCHANGED <<queue, drvrInfo>>
            /\ \A b \in Ctx : b # c => todo'[b] = todo[b]
        <5>1. todo \in [Ctx -> Seq(Req)] /\ todo[c] # <<>> /\ todo' = [todo EXCEPT ![c] = Tail(todo[c])]
          BY <2>5, <3>1, Types DEF Return
        <5>2. r \in Req /\ todo[c] \in Seq(Req)
          BY <5>1
        <5>3. StartPrime(c, r, DriverOf[r]) /\ UNCHANGED <<queue, drvrInfo>>
          BY <2>5, <3>1 DEF Return, dmVars
        <5> QED
          BY <5>1, <5>2, <5>3
      <4>2. \A x \in Req : ~Running(c, x)
        BY <2>5 DEF Return, Running
      <4>3. /\ Len(todo'[c]) = Len(todo[c]) - 1 /\ todo[c][1] = r /\ Len(todo[c]) \in Nat
            /\ \A k \in 1..Len(todo'[c]) : todo'[c][k] = todo[c][k + 1]
        BY <3>1, <4>1
      <4>4. Left(c, r) /\ \A i, j \in 1..Len(todo[c]) : todo[c][i] = todo[c][j] => i = j
        BY <3>1, <4>1, <4>3 DEF Left, KeptOnce
      <4> HIDE DEF r
      <4>5. \A x \in Req : Left(c, x)' <=> Left(c, x) /\ x # r
        <5>1. ASSUME NEW x \in Req, NEW k \in 1..Len(todo'[c]), todo'[c][k] = x PROVE Left(c, x) /\ x # r
          <6>1. k + 1 \in 1..Len(todo[c]) /\ todo[c][k + 1] = x /\ 1 \in 1..Len(todo[c]) /\ k + 1 # 1
            BY <4>3, <5>1
          <6> QED
            BY <4>3, <4>4, <6>1 DEF Left
        <5>2. ASSUME NEW x \in Req, NEW k \in 1..Len(todo[c]), todo[c][k] = x, x # r PROVE Left(c, x)'
          <6>1. k - 1 \in 1..Len(todo'[c]) /\ todo'[c][k - 1] = x
            BY <4>3, <5>2
          <6> QED
            BY <6>1 DEF Left
        <5> QED
          BY <5>1, <5>2 DEF Left
      <4>6. \A b \in Ctx, x \in Req : b # c => (Left(b, x)' <=> Left(b, x))
        BY <4>1 DEF Left
      <4>7. \A b \in Ctx : \A i, j \in 1..Len(todo'[b]) : todo'[b][i] = todo'[b][j] => i = j
        <5>1. \A k \in 1..Len(todo'[c]) : k + 1 \in 1..Len(todo[c]) /\ todo'[c][k] = todo[c][k + 1]
          BY <4>3
        <5>2. \A i, j \in 1..Len(todo'[c]) : todo'[c][i] = todo'[c][j] => i = j
          BY <4>3, <4>4, <5>1
        <5> QED
          BY <4>1, <5>2 DEF KeptOnce
      <4> QED
        BY <1>b, <1>q, <1>p, <4>1, <4>2, <4>4, <4>5, <4>6, <4>7 DEF KeptOnce
    <3>2. CASE todo[c] = <<>>
      <4>1. \A b \in Ctx, x \in Req : Running(b, x)' <=> Running(b, x)
        BY <2>5, <3>2, Types, SMTT(30) DEF Return, Running, argVars
      <4> QED
        BY <1>a, <2>5, <3>2, <4>1 DEF Return, dmVars
    <3> QED
      BY <3>1, <3>2
  <2> QED
    BY <1>3, <2>1, <2>2, <2>3, <2>4, <2>5 DEF Prime
<1>4. CASE ScanPrime
  <2> DEFINE r == drvrInfo[scan].pendingPb
  <2>1. /\ scan \in 1..Entries /\ r \in Req /\ StartPrime("intr", r, drvrInfo[scan].pendingDce)
        /\ UNCHANGED <<queue, todo>> /\ pc["intr"] = "scan"
        /\ \A i \in 1..Entries :
             drvrInfo'[i].pendingPb = IF i = scan THEN NoReq ELSE drvrInfo[i].pendingPb
    BY <1>4, Types DEF ScanPrime, InTable, dmVars
  <2>2. \A x \in Req : ~Running("intr", x)
    BY <2>1 DEF Running
  <2>3. Parked(scan, r) /\ \A x \in Req : Parked(scan, x) => x = r
    BY DEF Parked
  <2>4. \A i \in 1..Entries, x \in Req : Parked(i, x)' <=> Parked(i, x) /\ i # scan
    BY <2>1, Types DEF Parked
  <2> HIDE DEF r
  <2> QED
    BY <1>b, <1>q, <1>t, <2>1, <2>2, <2>3, <2>4 DEF KeptOnce
<1>5. CASE MainAwakes \/ ScanEnd \/ ScanSkip \/ VBLTask \/ TransferEnds \/ Feed \/ UNCHANGED vars
  <2>1. UNCHANGED <<pb, err, drvrInfo, todo, queue>>
    BY <1>5 DEF MainAwakes, ScanEnd, ScanSkip, VBLTask, VBLFlush, VBLFill, VBLWake, TransferEnds,
       WriteDone, ReadDone, TransferFails, Feed, vars, argVars, dmVars
  <2>2. \/ UNCHANGED pc
        \/ /\ pc["intr"] \in {"idle", "scan"}
           /\ pc' = [pc EXCEPT !["intr"] = "scan"] \/ pc' = [pc EXCEPT !["intr"] = "idle"]
    BY <1>5 DEF MainAwakes, ScanEnd, ScanSkip, VBLTask, VBLFlush, VBLFill, VBLWake, TransferEnds,
       WriteDone, ReadDone, TransferFails, StartWakeUp, Feed, vars
  <2>3. \A b \in Ctx, x \in Req : Running(b, x)' <=> Running(b, x)
    BY <2>1, <2>2, Types DEF Running
  <2> QED
    BY <1>a, <2>1, <2>3
<1> QED
  BY <1>1, <1>2, <1>3, <1>4, <1>5 DEF Next, Wake

-------------------------------------------------------------------------------
(* What follows for the promises of FujiSerialAsync *)

LEMMA StepKInv == ASSUME FirstUseAtMain, WorkInv, KInv, [Next]_vars PROVE KInv'
<1> USE DEF KInv
<1>1. QueueInv'
  BY StepQueueInv
<1>2. TableInv'
  BY StepTableInv
<1>3. FoundInv'
  BY StepFoundInv
<1>4. EnteredInv'
  BY StepEnteredInv
<1>5. ServeInv'
  BY StepServeInv
<1>6. KeptOnce'
  BY StepKeptOnce
<1> QED
  BY <1>1, <1>2, <1>3, <1>4, <1>5, <1>6

\* The invariant about requests holds in programs whose interrupt handlers use
\* drivers that are in the table from the start.
THEOREM RequestsInvariant == ASSUME FirstUseAtMain PROVE Spec => []KInv
<1>1. Init => KInv
  BY InitKInv
<1>2. WorkInv /\ KInv /\ [Next]_vars => KInv'
  BY StepKInv
<1> QED
  BY <1>1, <1>2, WorkInvariant, PTL DEF Spec

LEMMA CompletesServed == WorkInv /\ KInv => CompletesWhatItServed
BY ServedIsOldest DEF KInv, CompletesWhatItServed

\* IODone completes the request that was served, for the driver it was made to,
\* whatever preempted doPrime and whichever wake up primed the request again.
THEOREM ServedIsCompleted == ASSUME FirstUseAtMain PROVE Spec => []CompletesWhatItServed
BY CompletesServed, WorkInvariant, RequestsInvariant, PTL

\* An entry of the table that holds a request is one that the scan reaches.
LEMMA ParkedIsRecorded ==
  ASSUME WorkInv, TableInv, NEW r \in Req, NEW i \in 1..Entries
  PROVE  Recorded(i, r) <=> Parked(i, r)
<1>1. Recorded(i, r) => Parked(i, r)
  BY DEF Recorded, Parked
<1>2. ASSUME Parked(i, r) PROVE Recorded(i, r)
  <2>1. drvrInfo[i].refNum = DriverOf[r] /\ drvrInfo[i].pendingDce = DriverOf[r]
    BY <1>2, Types DEF Parked, TableInv
  <2>2. drvrInfo[i].refNum # NoDriver
    BY <2>1, Types
  <2>3. \A j \in 1..i : j \in 1..Entries /\ j <= i
    BY Types
  <2> QED
    BY <1>2, <2>1, <2>2, <2>3 DEF Recorded, Parked, TableInv
<1> QED
  BY <1>1, <1>2

LEMMA OldestKept == WorkInv /\ KInv => OldestIsKeptOnce
<1> SUFFICES ASSUME WorkInv, KInv, NEW r \in Req
             PROVE  Keepers(r) = IF Oldest(r) THEN 1 ELSE 0
  BY DEF OldestIsKeptOnce, Oldest
<1> USE DEF KInv
<1> DEFINE Threads == {c \in Ctx : Running(c, r)}
           Table == {i \in 1..Entries : Recorded(i, r)}
           Later(c) == {k \in 1..Len(todo[c]) : todo[c][k] = r}
<1>1. Keepers(r) = Cardinality(Threads) + Cardinality(Table)
                   + Cardinality(Later("main")) + Cardinality(Later("intr"))
  BY DEF Keepers
<1>2. /\ Cardinality({}) = 0
      /\ \A S, x : S = {x} => Cardinality(S) = 1
  BY FS_EmptySet, FS_Singleton
<1>3. Table = {i \in 1..Entries : Parked(i, r)}
  BY ParkedIsRecorded
<1>4. \A c \in Ctx : ~Left(c, r) => Later(c) = {}
  BY DEF Left
<1>5. \A c \in Ctx : Left(c, r) => \E k : Later(c) = {k}
  <2> SUFFICES ASSUME NEW c \in Ctx, NEW k \in 1..Len(todo[c]), todo[c][k] = r
               PROVE  Later(c) = {k}
    BY DEF Left
  <2> QED
    BY DEF KeptOnce
<1> HIDE DEF Threads, Table, Later
<1>6. CASE ~Oldest(r)
  <2>1. /\ \A c \in Ctx : ~Running(c, r) /\ ~Left(c, r)
        /\ \A i \in 1..Entries : ~Parked(i, r)
    BY <1>6 DEF KeptOnce
  <2>2. Threads = {} /\ Table = {} /\ Later("main") = {} /\ Later("intr") = {}
    BY <1>3, <1>4, <2>1 DEF Threads
  <2> QED
    BY <1>1, <1>2, <1>6, <2>2
<1>7. ASSUME Oldest(r), NEW c \in Ctx, Running(c, r) PROVE Keepers(r) = 1
  <2>1. Threads = {c}
    BY <1>7 DEF KeptOnce, Threads
  <2>2. Table = {} /\ Later("main") = {} /\ Later("intr") = {}
    BY <1>3, <1>4, <1>7 DEF KeptOnce
  <2>3. Cardinality(Threads) = 1
    BY <1>2, <2>1
  <2> QED
    BY <1>1, <1>2, <2>2, <2>3
<1>8. ASSUME Oldest(r), NEW c \in Ctx, Left(c, r) PROVE Keepers(r) = 1
  <2>1. Threads = {} /\ Table = {}
    BY <1>3, <1>8 DEF KeptOnce, Threads
  <2>2. \A b \in Ctx : b # c => Later(b) = {}
    BY <1>4, <1>8 DEF KeptOnce
  <2>3. Cardinality(Later(c)) = 1
    BY <1>2, <1>5, <1>8
  <2>4. CASE c = "main"
    BY <1>1, <1>2, <2>1, <2>2, <2>3, <2>4
  <2>5. CASE c = "intr"
    BY <1>1, <1>2, <2>1, <2>2, <2>3, <2>5
  <2> QED
    BY <2>4, <2>5
<1>9. ASSUME Oldest(r), NEW i \in 1..Entries, Parked(i, r) PROVE Keepers(r) = 1
  <2>1. Threads = {} /\ Later("main") = {} /\ Later("intr") = {}
    BY <1>4, <1>9 DEF KeptOnce, Threads
  <2>2. Table = {i}
    BY <1>3, <1>9 DEF KeptOnce
  <2>3. Cardinality(Table) = 1
    BY <1>2, <2>2
  <2> QED
    BY <1>1, <1>2, <2>1, <2>3
<1> QED
  BY <1>6, <1>7, <1>8, <1>9 DEF KeptOnce

\* No lost wake-up, and none served twice: the oldest request of every driver is in
\* one thread's hands, or in one entry of the table that the scan reaches, or is to
\* be started by one thread.
THEOREM NoLostWakeUp == ASSUME FirstUseAtMain PROVE Spec => []OldestIsKeptOnce
BY OldestKept, WorkInvariant, RequestsInvariant, PTL

-------------------------------------------------------------------------------
(* Sums over a finite set, by induction on its subsets                          *)

\* The element that SumOf takes first, and what its recursive function has to be.
FirstOf(T) == CHOOSE x \in T : TRUE
Sums(g, S, f) ==
  g = [T \in SUBSET S |-> IF T = {} THEN 0 ELSE f[FirstOf(T)] + g[T \ {FirstOf(T)}]]

\* A set of numbers has a least one.
LEMMA Least ==
  ASSUME NEW S, S \subseteq Nat, S # {}
  PROVE  \E n \in S : \A m \in S : n <= m
<1> DEFINE R == OpToRel(<, Nat)
<1>1. IsWellFoundedOn(R, Nat)
  BY NatLessThanWellFounded
<1>2. \A m, n \in Nat : m < n => <<m, n>> \in R
  BY DEF OpToRel
<1> HIDE DEF R
<1>3. PICK n \in S : \A m \in S : <<m, n>> \notin R
  BY <1>1, WFMin
<1>4. ASSUME NEW m \in S PROVE n <= m
  <2>1. m \in Nat /\ n \in Nat /\ ~(m < n)
    BY <1>2, <1>3
  <2> QED
    BY <2>1
<1> QED
  BY <1>4

\* Induction over the subsets of a finite set, for a set A of them instead of a predicate.
LEMMA SubsetInduction ==
  ASSUME NEW S, IsFiniteSet(S), NEW A,
         \A T \in SUBSET S : (\A U \in SUBSET T : U # T => U \in A) => T \in A
  PROVE  \A T \in SUBSET S : T \in A
<1> SUFFICES ASSUME NEW V \in SUBSET S, V \notin A PROVE FALSE
  OBVIOUS
<1> DEFINE Bad == {n \in Nat : \E T \in SUBSET S : T \notin A /\ Cardinality(T) = n}
<1>1. \A T \in SUBSET S : IsFiniteSet(T) /\ Cardinality(T) \in Nat
  BY FS_Subset, FS_CardinalityType
<1>2. Cardinality(V) \in Bad
  BY <1>1
<1>3. PICK n \in Bad : \A m \in Bad : n <= m
  BY <1>2, Least
<1>4. PICK T \in SUBSET S : T \notin A /\ Cardinality(T) = n
  BY <1>3
<1>5. ASSUME NEW U \in SUBSET T, U # T PROVE U \in A
  <2>1. Cardinality(U) < n
    <3>1. U \in SUBSET S /\ IsFiniteSet(T)
      BY <1>1
    <3>2. Cardinality(U) <= Cardinality(T) /\ Cardinality(U) # Cardinality(T)
      BY <1>5, <3>1, FS_Subset
    <3> QED
      BY <1>1, <1>4, <3>1, <3>2
  <2>2. Cardinality(U) \notin Bad
    BY <1>1, <1>3, <2>1
  <2> QED
    BY <1>1, <2>2
<1> QED
  BY <1>4, <1>5

\* SumOf's recursive function is one that has this equation.
LEMMA SumOfIs ==
  ASSUME NEW S, NEW f
  PROVE  SumOf(S, f) = (CHOOSE g : Sums(g, S, f))[S]
BY DEF SumOf, Sums, FirstOf

\* It is an element.
LEMMA FirstIsIn ==
  ASSUME NEW T, T # {}
  PROVE  FirstOf(T) \in T
BY DEF FirstOf

\* The recursive function is determined by its equation,
LEMMA SumsAreOne ==
  ASSUME NEW S, IsFiniteSet(S), NEW T \in SUBSET S, NEW f, NEW g, NEW h, Sums(g, S, f), Sums(h, T, f)
  PROVE  \A U \in SUBSET T : g[U] = h[U]
<1> DEFINE A == {U \in SUBSET T : g[U] = h[U]}
<1>1. IsFiniteSet(T)
  BY FS_Subset
<1>2. ASSUME NEW U \in SUBSET T, \A V \in SUBSET U : V # U => V \in A PROVE U \in A
  <2>1. U # {} => g[U \ {FirstOf(U)}] = h[U \ {FirstOf(U)}]
    BY <1>2, FirstIsIn
  <2>2. g[U] = (IF U = {} THEN 0 ELSE f[FirstOf(U)] + g[U \ {FirstOf(U)}])
    BY DEF Sums
  <2>3. h[U] = (IF U = {} THEN 0 ELSE f[FirstOf(U)] + h[U \ {FirstOf(U)}])
    BY DEF Sums
  <2> QED
    BY <2>1, <2>2, <2>3
<1> HIDE DEF A
<1>3. \A U \in SUBSET T : U \in A
  BY <1>1, <1>2, SubsetInduction
<1> QED
  BY <1>3 DEF A

\* ... and exists for a finite set.
LEMMA SumsExist ==
  ASSUME NEW S, IsFiniteSet(S), NEW f
  PROVE  \E g : Sums(g, S, f)
<1> DEFINE A == {T \in SUBSET S : \E g : Sums(g, T, f)}
<1>1. ASSUME NEW T \in SUBSET S, \A U \in SUBSET T : U # T => U \in A PROVE T \in A
  <2> DEFINE Rest(U) == U \ {FirstOf(U)}
             h == [U \in SUBSET T |-> IF U = {} THEN 0 ELSE f[FirstOf(U)] + SumOf(Rest(U), f)]
             G(U) == CHOOSE g : Sums(g, U, f)
  <2>1. ASSUME NEW U \in SUBSET T, U # T PROVE Sums(G(U), U, f) /\ SumOf(U, f) = G(U)[U]
    <3>1. \E g : Sums(g, U, f)
      BY <1>1, <2>1
    <3> QED
      BY <3>1, SumOfIs
  <2> HIDE DEF G
  <2>2. ASSUME NEW U \in SUBSET T, U # T PROVE h[U] = SumOf(U, f)
    <3>1. CASE U = {}
      BY <2>1, <2>2, <3>1 DEF Sums
    <3>2. CASE U # {}
      <4>1. Rest(U) \in SUBSET U /\ Rest(U) # T /\ Rest(U) \in SUBSET T
        BY <2>2, <3>2, FirstIsIn
      <4>2. IsFiniteSet(U)
        <5>1. U \in SUBSET S
          OBVIOUS
        <5> QED
          BY <5>1, FS_Subset
      <4>3. Sums(G(U), U, f) /\ Sums(G(Rest(U)), Rest(U), f)
            /\ SumOf(U, f) = G(U)[U] /\ SumOf(Rest(U), f) = G(Rest(U))[Rest(U)]
        BY <2>1, <2>2, <4>1
      <4> HIDE DEF Rest
      <4>4. G(U)[Rest(U)] = G(Rest(U))[Rest(U)]
        BY <4>1, <4>2, <4>3, SumsAreOne
      <4>5. G(U)[U] = f[FirstOf(U)] + G(U)[Rest(U)]
        <5>1. U \in SUBSET U
          OBVIOUS
        <5> QED
          BY <3>2, <4>3, <5>1 DEF Sums, Rest
      <4> QED
        BY <3>2, <4>3, <4>4, <4>5
    <3> QED
      BY <3>1, <3>2
  <2>3. ASSUME NEW U \in SUBSET T, U # {} PROVE h[Rest(U)] = SumOf(Rest(U), f)
    <3>1. Rest(U) \in SUBSET T /\ Rest(U) # T
      BY <2>3, FirstIsIn
    <3> QED
      BY <2>2, <3>1
  <2>4. h = [U \in SUBSET T |-> IF U = {} THEN 0 ELSE f[FirstOf(U)] + h[U \ {FirstOf(U)}]]
    BY <2>3
  <2>5. Sums(h, T, f)
    BY <2>4 DEF Sums
  <2> QED
    BY <2>5
<1> HIDE DEF A
<1>2. S \in A
  BY <1>1, SubsetInduction
<1> QED
  BY <1>2 DEF A

\* So SumOf takes the elements one by one.
LEMMA SumOfStep ==
  ASSUME NEW S, IsFiniteSet(S), NEW f
  PROVE  SumOf(S, f) = IF S = {} THEN 0 ELSE f[FirstOf(S)] + SumOf(S \ {FirstOf(S)}, f)
<1> DEFINE R == S \ {FirstOf(S)}
           G(U) == CHOOSE g : Sums(g, U, f)
<1>0. R \in SUBSET S /\ IsFiniteSet(R)
  BY FS_RemoveElement
<1>1. Sums(G(S), S, f) /\ Sums(G(R), R, f)
  <2>1. (\E g : Sums(g, S, f)) /\ (\E g : Sums(g, R, f))
    BY <1>0, SumsExist
  <2> QED
    BY <2>1
<1>2. SumOf(S, f) = G(S)[S] /\ SumOf(R, f) = G(R)[R]
  BY SumOfIs
<1> HIDE DEF G
<1>3. G(S)[R] = G(R)[R]
  BY <1>0, <1>1, SumsAreOne
<1>4. S \in SUBSET S /\ G(S)[S] = (IF S = {} THEN 0 ELSE f[FirstOf(S)] + G(S)[R])
  BY <1>1 DEF Sums
<1> QED
  BY <1>2, <1>3, <1>4

\* A sum of integers is one, and any element may be taken first.
LEMMA SumOfAny ==
  ASSUME NEW S, IsFiniteSet(S), NEW f, \A x \in S : f[x] \in Int
  PROVE  /\ SumOf(S, f) \in Int
         /\ \A x \in S : SumOf(S, f) = f[x] + SumOf(S \ {x}, f)
<1> DEFINE A == {T \in SUBSET S : /\ SumOf(T, f) \in Int
                                  /\ \A x \in T : SumOf(T, f) = f[x] + SumOf(T \ {x}, f)}
<1>1. ASSUME NEW T \in SUBSET S, \A U \in SUBSET T : U # T => U \in A PROVE T \in A
  <2> DEFINE a == FirstOf(T)
  <2>0. IsFiniteSet(T)
    BY FS_Subset
  <2>1. CASE T = {}
    <3>1. SumOf(T, f) = 0
      BY <2>0, <2>1, SumOfStep
    <3> QED
      BY <2>1, <3>1
  <2>2. CASE T # {}
    <3>1. a \in T /\ SumOf(T, f) = f[a] + SumOf(T \ {a}, f)
      BY <2>0, <2>2, FirstIsIn, SumOfStep
    <3> HIDE DEF a
    <3>2. \A x \in T : T \ {x} \in A
      BY <1>1
    <3>3. \A x \in T : f[x] \in Int /\ SumOf(T \ {x}, f) \in Int
      BY <3>2
    <3>4. ASSUME NEW x \in T, x # a PROVE SumOf(T, f) = f[x] + SumOf(T \ {x}, f)
      <4>1. x \in T \ {a} /\ a \in T \ {x}
        BY <3>1, <3>4
      <4>2. (T \ {a}) \ {x} = (T \ {x}) \ {a} /\ (T \ {a}) \ {x} \in A
        <5>1. (T \ {a}) \ {x} \in SUBSET T /\ (T \ {a}) \ {x} # T
          BY <3>1
        <5> QED
          BY <1>1, <5>1
      <4>3. SumOf(T \ {a}, f) = f[x] + SumOf((T \ {a}) \ {x}, f)
        BY <3>1, <3>2, <4>1
      <4>4. SumOf(T \ {x}, f) = f[a] + SumOf((T \ {a}) \ {x}, f)
        BY <3>2, <4>1, <4>2
      <4>5. SumOf((T \ {a}) \ {x}, f) \in Int /\ f[x] \in Int /\ f[a] \in Int
        BY <3>1, <3>3, <4>2
      <4> QED
        BY <3>1, <4>3, <4>4, <4>5
    <3>5. SumOf(T, f) \in Int
      BY <3>1, <3>3
    <3>6. \A x \in T : SumOf(T, f) = f[x] + SumOf(T \ {x}, f)
      BY <3>1, <3>4
    <3> QED
      BY <3>5, <3>6
  <2> QED
    BY <2>1, <2>2
<1>2. S \in {T \in SUBSET S : T \in A}
  <2> HIDE DEF A
  <2>1. \A T \in SUBSET S : T \in A
    BY <1>1, SubsetInduction
  <2> QED
    BY <2>1
<1> QED
  BY <1>2

\* A sum depends on what is summed only.
LEMMA SumOfSame ==
  ASSUME NEW S, IsFiniteSet(S), NEW f, NEW h, \A x \in S : f[x] = h[x]
  PROVE  SumOf(S, f) = SumOf(S, h)
<1> DEFINE A == {T \in SUBSET S : SumOf(T, f) = SumOf(T, h)}
<1>1. ASSUME NEW T \in SUBSET S, \A U \in SUBSET T : U # T => U \in A PROVE T \in A
  <2>1. IsFiniteSet(T)
    BY FS_Subset
  <2>2. T # {} => f[FirstOf(T)] = h[FirstOf(T)] /\ SumOf(T \ {FirstOf(T)}, f) = SumOf(T \ {FirstOf(T)}, h)
    BY <1>1, FirstIsIn
  <2>3. SumOf(T, f) = (IF T = {} THEN 0 ELSE f[FirstOf(T)] + SumOf(T \ {FirstOf(T)}, f))
    BY <2>1, SumOfStep
  <2>4. SumOf(T, h) = (IF T = {} THEN 0 ELSE h[FirstOf(T)] + SumOf(T \ {FirstOf(T)}, h))
    BY <2>1, SumOfStep
  <2> QED
    BY <2>2, <2>3, <2>4
<1> HIDE DEF A
<1>2. S \in A
  BY <1>1, SubsetInduction
<1> QED
  BY <1>2 DEF A

\* Zeros add up to zero.
LEMMA SumOfZeros ==
  ASSUME NEW S, IsFiniteSet(S), NEW f, \A x \in S : f[x] = 0
  PROVE  SumOf(S, f) = 0
<1> DEFINE A == {T \in SUBSET S : SumOf(T, f) = 0}
<1>1. ASSUME NEW T \in SUBSET S, \A U \in SUBSET T : U # T => U \in A PROVE T \in A
  <2>1. IsFiniteSet(T)
    BY FS_Subset
  <2>2. T # {} => f[FirstOf(T)] = 0 /\ SumOf(T \ {FirstOf(T)}, f) = 0
    BY <1>1, FirstIsIn
  <2>3. SumOf(T, f) = (IF T = {} THEN 0 ELSE f[FirstOf(T)] + SumOf(T \ {FirstOf(T)}, f))
    BY <2>1, SumOfStep
  <2> QED
    BY <2>2, <2>3
<1> HIDE DEF A
<1>2. S \in A
  BY <1>1, SubsetInduction
<1> QED
  BY <1>2 DEF A

-------------------------------------------------------------------------------
(* The statistics *)

\* A request that was moved in full is about to be completed, or left the queue.
Full(r) == ioActCount[r] = ReqCount[r]
Finishing(c, r) == pc[c] \in {"result", "iodone"} /\ pb[c] = r /\ err[c] = "noErr"
FullInv ==
  \A r \in Req : Full(r) /\ ReqCount[r] # 0 => Closed(r) \/ \E c \in Ctx : Finishing(c, r)

\* Hence a copy never finds it.
LEMMA CopiedIsNotFull ==
  ASSUME WorkInv, KInv, FullInv, NEW c \in Ctx, pc[c] = "copy", ReqCount[pb[c]] # 0
  PROVE  ~Full(pb[c])
<1> DEFINE r == pb[c]
<1> USE DEF KInv
<1>1. /\ r \in Req /\ Running(c, r) /\ queue[DriverOf[r]] # <<>> /\ Head(queue[DriverOf[r]]) = r
      /\ DriverOf[r] \in Drivers
  BY ServedIsOldest
<1> HIDE DEF r
<1>2. ~Closed(r)
  <2> DEFINE q == queue[DriverOf[r]]
  <2>1. q \in Seq(Req) /\ q # <<>> /\ Head(q) = r
    BY <1>1, Types
  <2> HIDE DEF q
  <2>2. 1 \in 1..Len(q) /\ q[1] = r
    BY <2>1
  <2> QED
    BY <2>2 DEF q, Closed, Queued
<1>3. \A b \in Ctx : ~Finishing(b, r)
  <2>1. ASSUME NEW b \in Ctx, Finishing(b, r) PROVE FALSE
    <3>1. Running(b, r)
      BY <2>1 DEF Finishing, Running
    <3>2. b = c
      BY <1>1, <3>1 DEF KeptOnce
    <3> QED
      BY <2>1, <3>2 DEF Finishing
  <2> QED
    BY <2>1
<1> QED
  BY <1>1, <1>2, <1>3 DEF FullInv, r

\* A copy moves what its request lacks at most, whichever way it goes.
LEMMA CopyMoves ==
  ASSUME IInv, NEW c \in Ctx, Copy(c)
  PROVE  \/ \E m \in ioActCount[pb[c]]..ReqCount[pb[c]] :
              /\ ioActCount' = [ioActCount EXCEPT ![pb[c]] = m] /\ AddToTotals(pb[c], m)
              /\ m = ReqCount[pb[c]] => pc' = [pc EXCEPT ![c] = "result"]
                                        /\ err' = [err EXCEPT ![c] = "noErr"]
              /\ \A b \in Ctx : b # c => pc'[b] = pc[b] /\ err'[b] = err[b]
         \/ /\ UNCHANGED <<ioActCount, bytesRead, bytesWritten>>
            /\ \A b \in Ctx : b # c => pc'[b] = pc[b] /\ err'[b] = err[b]
<1> DEFINE r == pb[c]
<1>1. /\ TypeOK /\ SaneCounters /\ r \in Req /\ pc \in [Ctx -> Labels] /\ err \in [Ctx -> Results]
      /\ ioActCount[r] \in Nat /\ ReqCount[r] \in Nat
  <2>1. pc[c] = "copy" /\ TypeOK /\ SaneCounters
    BY DEF IInv, Copy, At
  <2>2. r \in Req
    BY <2>1 DEF IInv, ArgsInv
  <2>3. ReqCount[r] \in Nat /\ ioActCount[r] \in 0..ReqCount[r]
    BY <2>1, <2>2, RequestsAssumption DEF SaneCounters
  <2>4. pc \in [Ctx -> Labels] /\ err \in [Ctx -> Results]
    BY <2>1 DEF TypeOK
  <2>5. ioActCount[r] \in Nat
    BY <2>3
  <2> HIDE DEF r
  <2> QED
    BY <2>1, <2>2, <2>3, <2>4, <2>5
<1>2. CASE CopyRefused(c)
  BY <1>1, <1>2 DEF CopyRefused, GoTo, copyVars
<1>3. ASSUME NEW n \in 0..(ReqCount[r] - ioActCount[r]), CopyResult(c, n)
      PROVE  \E m \in ioActCount[r]..ReqCount[r] :
              /\ ioActCount' = [ioActCount EXCEPT ![r] = m] /\ AddToTotals(r, m)
              /\ m = ReqCount[r] => pc' = [pc EXCEPT ![c] = "result"] /\ err' = [err EXCEPT ![c] = "noErr"]
              /\ \A b \in Ctx : b # c => pc'[b] = pc[b] /\ err'[b] = err[b]
  <2> DEFINE m == ioActCount[r] + n
  <2>1. m \in ioActCount[r]..ReqCount[r]
    BY <1>1
  <2>2. /\ ioActCount' = [ioActCount EXCEPT ![r] = m] /\ AddToTotals(r, m)
        /\ m = ReqCount[r] => pc' = [pc EXCEPT ![c] = "result"] /\ err' = [err EXCEPT ![c] = "noErr"]
    BY <1>3 DEF CopyResult, GoTo
  <2>3. \A b \in Ctx : b # c => pc'[b] = pc[b] /\ err'[b] = err[b]
    BY <1>1, <1>3 DEF CopyResult, GoTo
  <2> HIDE DEF m
  <2> QED
    BY <2>1, <2>2, <2>3
<1>4. CASE CopyRead(c)
  <2>1. CopyCount(readStorage, PbSpec(r)) \in 0..(ReqCount[r] - ioActCount[r])
    BY <1>1, CopyBounds
  <2> QED
    BY <1>3, <1>4, <2>1 DEF CopyRead
<1>5. CASE CopyWrite(c)
  <2>1. CopyCount(PbSpec(r), writeStorage) \in 0..(ReqCount[r] - ioActCount[r])
    BY <1>1, CopyBounds
  <2> QED
    BY <1>3, <1>5, <2>1 DEF CopyWrite
<1> QED
  BY <1>2, <1>4, <1>5 DEF Copy

\* Every step leaves requests that were moved in full on their way out.
LEMMA StepFullInv ==
  ASSUME IInv, KInv, FullInv, [Next]_vars
  PROVE  FullInv'
<1> USE WorkIsPart
<1> USE DEF At, CanRun, GoTo
<1>0. ioActCount \in [Req -> Int] /\ err \in [Ctx -> Results] /\ ioResult \in [Req -> Results \cup {"unissued"}] /\ "unissued" \notin Results
  BY DEF IInv, TypeOK, Results
\* Nothing but threads that have nothing to finish.
<1>a. ASSUME UNCHANGED <<ioActCount, dmVars>>,
             \A b \in Ctx, r \in Req : Finishing(b, r) => Finishing(b, r)'
      PROVE  FullInv'
  BY <1>a DEF dmVars, FullInv, Full, Closed, Queued
<1>b. ASSUME NEW c \in Ctx, NEW r \in Req, NEW l, IssueRequest(c, r, l), pc[c] \notin {"result", "iodone"}
      PROVE  FullInv'
  <2>1. /\ ioResult[r] = "unissued" /\ ioResult' = [ioResult EXCEPT ![r] = "inProgress"]
        /\ queue' = [queue EXCEPT ![DriverOf[r]] = Append(queue[DriverOf[r]], r)]
        /\ UNCHANGED ioActCount
    BY <1>b DEF IssueRequest, copyVars
  <2>2. \A x \in Req : Closed(x) => Closed(x)'
    <3> SUFFICES ASSUME NEW x \in Req, Closed(x) PROVE Closed(x)'
      OBVIOUS
    <3>1. x # r /\ ioResult'[x] # "unissued"
      <4>1. ioResult[x] # "unissued"
        BY DEF Closed
      <4> QED
        BY <1>0, <2>1, <4>1
    <3>2. ~Queued(x)'
      <4> DEFINE q == queue[DriverOf[x]]
      <4>1. q \in Seq(Req) /\ \A i \in 1..Len(q) : q[i] # x
        <5>1. q \in Seq(Req)
          BY Types, RequestsAssumption
        <5>2. ~Queued(x)
          BY DEF Closed
        <5> QED
          BY <5>1, <5>2 DEF Queued
      <4>2. queue'[DriverOf[x]] = q \/ queue'[DriverOf[x]] = Append(q, r)
        BY <2>1, Types
      <4> HIDE DEF q
      <4>3. \A i \in 1..Len(Append(q, r)) : Append(q, r)[i] # x
        BY <3>1, <4>1
      <4> QED
        BY <4>1, <4>2, <4>3 DEF Queued
    <3> QED
      BY <3>1, <3>2 DEF Closed
  <2>3. \A b \in Ctx, x \in Req : Finishing(b, x) => Finishing(b, x)'
    BY <1>b, Types DEF IssueRequest, StartPrime, argVars, Finishing
  <2> QED
    BY <2>1, <2>2, <2>3 DEF FullInv, Full
<1>1. ASSUME NEW c \in Ctx, Copy(c) PROVE FullInv'
  <2>1. UNCHANGED <<dmVars, pb>> /\ pc[c] = "copy"
    BY <1>1 DEF Copy
  <2>2. \A x \in Req : Closed(x)' <=> Closed(x)
    BY <2>1 DEF dmVars, Closed, Queued
  <2>3. \A b \in Ctx : b # c => pc'[b] = pc[b] /\ err'[b] = err[b]
    BY <1>1, CopyMoves
  <2>4. \A b \in Ctx, x \in Req : Finishing(b, x) => Finishing(b, x)'
    BY <2>1, <2>3 DEF Finishing
  <2>5. pb[c] \in Req
    BY <2>1, Types
  <2>6. \A x \in Req : Full(x)' => Full(x) \/ Finishing(c, x)'
    <3>0. PICK r \in Req : r = pb[c]
      BY <2>5
    <3>1. CASE UNCHANGED ioActCount
      BY <3>1 DEF Full
    <3>2. ASSUME NEW m, ioActCount' = [ioActCount EXCEPT ![r] = m],
                 m = ReqCount[r] => pc' = [pc EXCEPT ![c] = "result"] /\ err' = [err EXCEPT ![c] = "noErr"]
          PROVE  \A x \in Req : Full(x)' => Full(x) \/ Finishing(c, x)'
      <4>1. ioActCount'[r] = m /\ \A x \in Req : x # r => ioActCount'[x] = ioActCount[x]
        BY <1>0, <3>2
      <4>2. m = ReqCount[r] => Finishing(c, r)'
        BY <2>1, <3>0, <3>2, Types DEF Finishing
      <4>3. ASSUME NEW x \in Req, Full(x)' PROVE Full(x) \/ Finishing(c, x)'
        <5>1. CASE x = r
          BY <4>1, <4>2, <4>3, <5>1 DEF Full, Finishing
        <5>2. CASE x # r
          BY <4>1, <4>3, <5>2 DEF Full
        <5> QED
          BY <5>1, <5>2
      <4> QED
        BY <4>3
    <3> QED
      BY <1>1, <3>0, <3>1, <3>2, CopyMoves
  <2> QED
    BY <2>2, <2>4, <2>6 DEF FullInv
<1>2. ASSUME NEW c \in Ctx, Result(c) PROVE FullInv'
  <2>1. /\ UNCHANGED <<ioActCount, queue, pb, err>> /\ pc[c] = "result"
        /\ ioResult' = [ioResult EXCEPT ![pb[c]] = err[c]]
        /\ pc' = [pc EXCEPT ![c] = IF err[c] = "inProgress" THEN "return" ELSE "iodone"]
    BY <1>2 DEF Result, copyVars, argVars
  <2>2. \A x \in Req : Closed(x) => Closed(x)'
    BY <1>0, <2>1 DEF Closed, Queued
  <2>3. \A b \in Ctx, x \in Req : Finishing(b, x) => Finishing(b, x)'
    BY <2>1, Types DEF Finishing
  <2> QED
    BY <2>1, <2>2, <2>3 DEF FullInv, Full
<1>3. ASSUME NEW c \in Ctx, IODone(c) PROVE FullInv'
  <2> DEFINE d == dce[c]
  <2>0. pc[c] = "iodone" /\ pb[c] \in Req /\ d = DriverOf[pb[c]] /\ d \in Drivers
        /\ queue[d] # <<>> /\ Head(queue[d]) = pb[c]
    <3>1. pc[c] = "iodone"
      BY <1>3 DEF IODone
    <3> QED
      BY <3>1, ServedIsOldest DEF KInv
  <2>1. /\ UNCHANGED <<ioActCount, pb, err>> /\ queue' = [queue EXCEPT ![d] = Tail(queue[d])]
        /\ ioResult' = [ioResult EXCEPT ![pb[c]] = err[c]] /\ pc' = [pc EXCEPT ![c] = "call"]
    BY <1>3, <2>0 DEF IODone, copyVars, argVars
  <2>2. /\ queue[d] \in Seq(Req)
        /\ \A i, j \in 1..Len(queue[d]) : queue[d][i] = queue[d][j] => i = j
    BY <2>0, Types DEF KInv, QueueInv
  <2> HIDE DEF d
  <2>3. \A x \in Req : Queued(x)' => Queued(x) /\ x # pb[c]
    <3> SUFFICES ASSUME NEW x \in Req, Queued(x)' PROVE Queued(x) /\ x # pb[c]
      OBVIOUS
    <3>1. CASE DriverOf[x] # d
      <4>1. queue'[DriverOf[x]] = queue[DriverOf[x]]
        BY <2>1, <3>1, Types
      <4> QED
        BY <2>0, <3>1, <4>1 DEF Queued
    <3>2. CASE DriverOf[x] = d
      <4> DEFINE q == queue[d]
      <4>1. q \in Seq(Req) /\ q # <<>> /\ Head(q) = pb[c] /\ queue'[d] = Tail(q)
            /\ \A i, j \in 1..Len(q) : q[i] = q[j] => i = j
        BY <2>0, <2>1, <2>2, Types
      <4>2. PICK k \in 1..Len(queue'[d]) : queue'[d][k] = x
        BY <3>2 DEF Queued
      <4> HIDE DEF q
      <4>3. k + 1 \in 1..Len(q) /\ q[k + 1] = x
        BY <4>1, <4>2
      <4>4. 1 \in 1..Len(q) /\ q[1] = pb[c] /\ k + 1 # 1
        BY <4>1, <4>2
      <4>5. x # pb[c]
        BY <4>1, <4>3, <4>4
      <4> QED
        BY <3>2, <4>3, <4>5 DEF Queued, q
    <3> QED
      BY <3>1, <3>2
  <2>4. \A x \in Req : ioResult[x] # "unissued" \/ x = pb[c] => ioResult'[x] # "unissued"
    BY <1>0, <2>1
  <2>5. \A x \in Req : Closed(x) \/ x = pb[c] => Closed(x)'
    BY <2>3, <2>4 DEF Closed
  <2>6. \A b \in Ctx, x \in Req : Finishing(b, x) => Finishing(b, x)' \/ x = pb[c]
    BY <2>1, Types DEF Finishing
  <2> QED
    BY <2>1, <2>5, <2>6 DEF FullInv, Full
<1>4. ASSUME NEW c \in Ctx, Enter(c) \/ Find(c) \/ Claim(c) \/ ParkDce(c) \/ ParkPb(c) \/ CompletionReturns(c)
      PROVE  FullInv'
  <2>1. /\ UNCHANGED <<ioActCount, dmVars, pb, err>> /\ pc[c] \notin {"result", "iodone"}
        /\ \A b \in Ctx : b # c => pc'[b] = pc[b]
    BY <1>4, Types DEF Enter, Find, Claim, ParkDce, ParkPb, CompletionReturns, copyVars, argVars
  <2> QED
    BY <1>a, <2>1 DEF Finishing
<1>5. ASSUME NEW c \in Ctx, Return(c) \/ (c = "intr" /\ Wake) PROVE FullInv'
  <2>1. /\ UNCHANGED <<ioActCount, dmVars>> /\ pc[c] \notin {"result", "iodone"}
        /\ \A b \in Ctx : b # c => pc'[b] = pc[b] /\ pb'[b] = pb[b] /\ err'[b] = err[b]
    BY <1>5, Types DEF Return, Wake, ScanEnd, ScanSkip, ScanPrime, StartPrime, copyVars, argVars
  <2> QED
    BY <1>a, <2>1 DEF Finishing
<1>6. CASE MainAwakes \/ VBLTask \/ TransferEnds \/ Feed \/ UNCHANGED vars
  <2>1. /\ UNCHANGED <<ioActCount, dmVars, pb, err>>
        /\ \/ UNCHANGED pc
           \/ pc["intr"] = "idle" /\ pc' = [pc EXCEPT !["intr"] = "scan"]
    <3>1. CASE UNCHANGED vars
      BY <3>1 DEF vars, copyVars, argVars
    <3>2. CASE MainAwakes \/ Feed
      BY <3>2 DEF MainAwakes, Feed, copyVars, argVars
    <3>3. CASE VBLTask
      BY <3>3 DEF VBLTask, VBLFlush, VBLFill, VBLWake, StartWakeUp, copyVars, argVars
    <3>4. CASE TransferEnds
      BY <3>4 DEF TransferEnds, WriteDone, ReadDone, TransferFails, StartWakeUp, copyVars, argVars
    <3> QED
      BY <1>6, <3>1, <3>2, <3>3, <3>4
  <2>2. \A b \in Ctx : pc[b] \in {"result", "iodone"} => pc'[b] = pc[b]
    BY <2>1, Types
  <2> QED
    BY <1>a, <2>1, <2>2 DEF Finishing
<1>7. ASSUME NEW r \in Req, MainIssues(r) \/ InterruptIssues(r) PROVE FullInv'
  BY <1>7, <1>b DEF MainIssues, InterruptIssues
<1>8. ASSUME NEW c \in Ctx, NEW r \in Req, CompletionIssues(c, r) PROVE FullInv'
  BY <1>8, <1>b DEF CompletionIssues
<1> QED
  BY <1>1, <1>2, <1>3, <1>4, <1>5, <1>6, <1>7, <1>8 DEF Next, Prime

\* What the statistics should be for the requests of S, with the counts of f.
Total(S, f) == SumOf({x \in S : f[x] = ReqCount[x]}, f)

\* How the sum over the requests that were moved in full changes with one of them.
LEMMA TotalGrows ==
  ASSUME NEW S \in SUBSET Req, IsFiniteSet(S), NEW f \in [Req -> Nat], NEW r \in Req,
         NEW h \in [Req -> Nat], \A x \in Req : x # r => h[x] = f[x],
         f[r] <= h[r], h[r] <= ReqCount[r],
         ReqCount[r] # 0 => f[r] # ReqCount[r]
  PROVE  Total(S, h) = Total(S, f) + IF h[r] = ReqCount[r] /\ r \in S THEN h[r] ELSE 0
<1> DEFINE T == {x \in S : f[x] = ReqCount[x]}
           U == {x \in S : h[x] = ReqCount[x]}
<1>0. f[r] \in Nat /\ ReqCount[r] \in Nat /\ h[r] \in Nat
  BY RequestsAssumption
<1>1. IsFiniteSet(T) /\ IsFiniteSet(U)
  BY FS_Subset
<1>2. SumOf(T, f) \in Int
  <2>1. \A x \in T : f[x] \in Int
    OBVIOUS
  <2> HIDE DEF T
  <2> QED
    BY <1>1, <2>1, SumOfAny
<1>3. CASE r \in T \/ ~(h[r] = ReqCount[r] /\ r \in S)
  <2>1. U = T /\ \A x \in T : f[x] = h[x]
    BY <1>0, <1>3
  <2>2. (IF h[r] = ReqCount[r] /\ r \in S THEN h[r] ELSE 0) = 0
    BY <1>0, <1>3
  <2> HIDE DEF T, U
  <2>3. SumOf(U, h) = SumOf(T, f)
    BY <1>1, <2>1, SumOfSame
  <2> QED
    BY <1>2, <2>2, <2>3 DEF T, U, Total
<1>4. CASE r \notin T /\ h[r] = ReqCount[r] /\ r \in S
  <2>1. r \in U /\ U \ {r} = T /\ (\A x \in T : f[x] = h[x]) /\ \A x \in U : h[x] \in Int
    BY <1>0, <1>4
  <2> HIDE DEF T, U
  <2>2. SumOf(U, h) = h[r] + SumOf(T, h)
    BY <1>1, <2>1, SumOfAny
  <2>3. SumOf(T, h) = SumOf(T, f)
    BY <1>1, <2>1, SumOfSame
  <2> QED
    BY <1>0, <1>2, <1>4, <2>2, <2>3 DEF T, U, Total
<1> QED
  BY <1>3, <1>4

\* The two totals are kept by every step.
LEMMA StepStats ==
  ASSUME IsFiniteSet(Req), IInv, KInv, FullInv, StatsExact, [Next]_vars
  PROVE  StatsExact'
<1>1. ASSUME UNCHANGED <<ioActCount, bytesRead, bytesWritten>> PROVE StatsExact'
  BY <1>1 DEF StatsExact
<1>2. ASSUME NEW c \in Ctx, Copy(c) PROVE StatsExact'
  <2> DEFINE r == pb[c]
  <2>1. /\ pc[c] = "copy" /\ r \in Req /\ ioActCount \in [Req -> Nat]
        /\ bytesRead \in Int /\ bytesWritten \in Int
    <3>1. pc[c] = "copy"
      BY <1>2 DEF Copy, At
    <3>2. \A x \in Req : ioActCount[x] \in Nat
      BY RequestsAssumption DEF IInv, SaneCounters
    <3> QED
      BY <3>1, <3>2 DEF IInv, TypeOK, ArgsInv
  <2>2. ReqCount[r] # 0 => ioActCount[r] # ReqCount[r]
    BY <2>1, WorkIsPart, CopiedIsNotFull DEF Full
  <2>3. CASE UNCHANGED <<ioActCount, bytesRead, bytesWritten>>
    BY <1>1, <2>3
  <2>4. ASSUME NEW m \in ioActCount[r]..ReqCount[r],
               ioActCount' = [ioActCount EXCEPT ![r] = m], AddToTotals(r, m)
        PROVE  StatsExact'
    <3> DEFINE add(S) == IF m = ReqCount[r] /\ r \in S THEN m ELSE 0
    <3>1. ASSUME NEW S \in SUBSET Req
          PROVE  Total(S, ioActCount') = Total(S, ioActCount) + add(S)
      <4>1. IsFiniteSet(S)
        BY FS_Subset
      <4>2. PICK f \in [Req -> Nat] : f = ioActCount
        BY <2>1
      <4>3. PICK q \in Req : q = r
        BY <2>1
      <4>4. /\ f[q] \in Nat /\ ReqCount[q] \in Nat /\ m \in Nat /\ f[q] <= m /\ m <= ReqCount[q]
            /\ ReqCount[q] # 0 => f[q] # ReqCount[q]
        <5>1. f[q] \in Nat /\ ReqCount[q] \in Nat
          BY <4>2, <4>3, RequestsAssumption
        <5>2. m \in f[q]..ReqCount[q]
          BY <4>2, <4>3
        <5>3. m \in Nat /\ f[q] <= m /\ m <= ReqCount[q]
          BY <5>1, <5>2
        <5>4. ReqCount[q] # 0 => f[q] # ReqCount[q]
          BY <2>2, <4>2, <4>3
        <5> QED
          BY <5>1, <5>3, <5>4
      <4>5. PICK h \in [Req -> Nat] : h = ioActCount'
        BY <2>4, <4>2, <4>3, <4>4
      <4>6. h[q] = m /\ \A x \in Req : x # q => h[x] = f[x]
        BY <2>4, <4>2, <4>3, <4>5
      <4>7. Total(S, h) = Total(S, f) + IF h[q] = ReqCount[q] /\ q \in S THEN h[q] ELSE 0
        BY <4>1, <4>4, <4>6, TotalGrows
      <4> QED
        BY <4>2, <4>3, <4>5, <4>6, <4>7
    <3>2. Total(Writes, ioActCount') = Total(Writes, ioActCount) + add(Writes)
          /\ Total(Reads, ioActCount') = Total(Reads, ioActCount) + add(Reads)
      <4>1. Writes \in SUBSET Req /\ Reads \in SUBSET Req
        BY DEF Req
      <4> QED
        BY <3>1, <4>1
    <3>3. bytesWritten = Total(Writes, ioActCount) /\ bytesRead = Total(Reads, ioActCount)
      BY DEF StatsExact, Total
    <3>4. bytesWritten' = bytesWritten + add(Writes) /\ bytesRead' = bytesRead + add(Reads)
      BY <2>1, <2>4 DEF AddToTotals
    <3> HIDE DEF add
    <3>5. bytesWritten' = Total(Writes, ioActCount') /\ bytesRead' = Total(Reads, ioActCount')
      BY <3>2, <3>3, <3>4
    <3> QED
      BY <3>5 DEF StatsExact, Total
  <2> QED
    BY <1>2, <2>3, <2>4, CopyMoves
<1>3. ASSUME NEW c \in Ctx, Prime(c), ~Copy(c) PROVE StatsExact'
  BY <1>1, <1>3 DEF Prime, Enter, Find, Claim, ParkDce, ParkPb, Result, IODone, CompletionReturns, Return,
     copyVars
<1>4. ASSUME NEW c \in Ctx, NEW r \in Req, MainIssues(r) \/ InterruptIssues(r) \/ CompletionIssues(c, r)
      PROVE  StatsExact'
  BY <1>1, <1>4 DEF MainIssues, InterruptIssues, CompletionIssues, IssueRequest, copyVars
<1>5. CASE MainAwakes \/ Wake \/ VBLTask \/ TransferEnds \/ Feed \/ UNCHANGED vars
  BY <1>1, <1>5 DEF MainAwakes, Wake, ScanEnd, ScanSkip, ScanPrime, VBLTask, VBLFlush, VBLFill, VBLWake,
     TransferEnds, WriteDone, ReadDone, TransferFails, Feed, vars, copyVars
<1> QED
  BY <1>2, <1>3, <1>4, <1>5 DEF Next

\* The statistics count each byte of each finished request once: no request that was
\* moved in full is primed again, whatever suspended it and whoever woke it.
THEOREM StatisticsAreExact ==
  ASSUME FirstUseAtMain, IsFiniteSet(Req)
  PROVE  Spec => []StatsExact
<1>1. Init => FullInv /\ StatsExact
  <2> SUFFICES ASSUME Init PROVE FullInv /\ StatsExact
    OBVIOUS
  <2>1. \A r \in Req : ioActCount[r] = 0
    BY DEF Init
  <2>2. FullInv
    BY <2>1 DEF FullInv, Full
  <2>3. ASSUME NEW S \in SUBSET Req PROVE SumOf({r \in S : ioActCount[r] = ReqCount[r]}, ioActCount) = 0
    <3> DEFINE T == {r \in S : ioActCount[r] = ReqCount[r]}
    <3>1. T \in SUBSET Req /\ IsFiniteSet(T) /\ \A r \in T : ioActCount[r] = 0
      BY <2>1, FS_Subset
    <3> HIDE DEF T
    <3>2. SumOf(T, ioActCount) = 0
      BY <3>1, SumOfZeros
    <3> QED
      BY <3>2 DEF T
  <2>4. Writes \in SUBSET Req /\ Reads \in SUBSET Req
    BY DEF Req
  <2>5. bytesWritten = 0 /\ bytesRead = 0
    BY DEF Init
  <2> QED
    BY <2>2, <2>3, <2>4, <2>5 DEF StatsExact
<1>2. IInv /\ KInv /\ FullInv /\ StatsExact /\ [Next]_vars => FullInv' /\ StatsExact'
  BY StepFullInv, StepStats
<1> QED
  BY <1>1, <1>2, InvariantHolds, RequestsInvariant, PTL DEF Spec

===============================================================================
