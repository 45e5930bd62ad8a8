------------------------------ MODULE SerialPort ------------------------------
(* What the asynchronous FujiNet serial driver promises to the programs that    *)
(* use it, with no mutex, interrupt, table of drivers or message block in       *)
(* sight: two byte pipes of bounded size to one device, shared by all drivers,  *)
(* and for each driver a line of requests served strictly in order.  After a    *)
(* transfer fails the port is broken: nothing moves any more and every request  *)
(* is closed with the error.  FujiSerialAsync is shown to implement this.       *)
EXTENDS Naturals, Sequences

CONSTANTS
  Drivers,    \* the serial drivers (.Fuji, .AIn, .AOut, ...)
  Reads,      \* read requests
  Writes,     \* write requests
  DriverOf,   \* the driver each request is issued to
  ReqCount,   \* the number of bytes each request asks for
  Capacity    \* how many bytes either pipe buffers

Req == Reads \cup Writes

VARIABLES
  status,     \* of each request: "new", "open" or "closed"
  line,       \* per driver, its open requests, oldest first
  moved,      \* per request, how many of its bytes went through the port
  outgoing,   \* bytes accepted from writes and not yet sent
  sent,       \* bytes the device has received
  incoming,   \* bytes fetched from the device and not yet handed to a read
  fetched,    \* how many bytes left the device in all
  taken,      \* bytes handed to reads
  broken      \* a transfer has failed

portVars == <<status, line, moved, outgoing, sent, incoming, fetched, taken, broken>>

Init ==
  /\ status = [r \in Req |-> "new"]
  /\ line = [d \in Drivers |-> <<>>]
  /\ moved = [r \in Req |-> 0]
  /\ outgoing = <<>> /\ sent = <<>>
  /\ incoming = <<>> /\ fetched = 0 /\ taken = <<>>
  /\ broken = FALSE

Oldest(r) == line[DriverOf[r]] # <<>> /\ Head(line[DriverOf[r]]) = r

Submit(r) ==
  /\ status[r] = "new"
  /\ status' = [status EXCEPT ![r] = "open"]
  /\ line' = [line EXCEPT ![DriverOf[r]] = Append(@, r)]
  /\ UNCHANGED <<moved, outgoing, sent, incoming, fetched, taken, broken>>

\* The port takes over the next n bytes of the oldest write of some driver.
Accept(r, n) ==
  /\ r \in Writes /\ Oldest(r) /\ ~broken
  /\ moved[r] + n <= ReqCount[r]
  /\ Len(outgoing) + n <= Capacity
  /\ outgoing' = outgoing \o [i \in 1..n |-> <<r, moved[r] + i>>]
  /\ moved' = [moved EXCEPT ![r] = @ + n]
  /\ UNCHANGED <<status, line, sent, incoming, fetched, taken, broken>>

\* The oldest read of some driver receives the next n bytes.
Take(r, n) ==
  /\ r \in Reads /\ Oldest(r) /\ ~broken
  /\ moved[r] + n <= ReqCount[r]
  /\ n <= Len(incoming)
  /\ taken' = taken \o SubSeq(incoming, 1, n)
  /\ incoming' = SubSeq(incoming, n + 1, Len(incoming))
  /\ moved' = [moved EXCEPT ![r] = @ + n]
  /\ UNCHANGED <<status, line, outgoing, sent, fetched, broken>>

\* Everything that was accepted reaches the device, once.
Ship ==
  /\ ~broken
  /\ sent' = sent \o outgoing
  /\ outgoing' = <<>>
  /\ UNCHANGED <<status, line, moved, incoming, fetched, taken, broken>>

\* The next n bytes are fetched, and only when all the earlier ones were taken.
Fetch(n) ==
  /\ ~broken /\ incoming = <<>>
  /\ incoming' = [i \in 1..n |-> fetched + i]
  /\ fetched' = fetched + n
  /\ UNCHANGED <<status, line, moved, outgoing, sent, taken, broken>>

\* A transfer fails.  A write that failed may have reached the device or not, and the
\* bytes that a failed read should have fetched may have left it or not.
Fail ==
  /\ ~broken /\ broken' = TRUE
  /\ \/ UNCHANGED <<sent, fetched>>
     \/ sent' = sent \o outgoing /\ UNCHANGED fetched
     \/ incoming = <<>> /\ (\E n \in 0..Capacity : fetched' = fetched + n) /\ UNCHANGED sent
  /\ UNCHANGED <<status, line, moved, outgoing, incoming, taken>>

\* A request ends when all its bytes went through, or the port is broken.
Close(r) ==
  /\ Oldest(r)
  /\ moved[r] = ReqCount[r] \/ broken
  /\ status' = [status EXCEPT ![r] = "closed"]
  /\ line' = [line EXCEPT ![DriverOf[r]] = Tail(@)]
  /\ UNCHANGED <<moved, outgoing, sent, incoming, fetched, taken, broken>>

Next ==
  \/ \E r \in Req : Submit(r) \/ Close(r)
  \/ \E r \in Req, n \in 1..Capacity : Accept(r, n) \/ Take(r, n)
  \/ \E n \in 1..Capacity : Fetch(n)
  \/ Ship \/ Fail

Spec == Init /\ [][Next]_portVars
===============================================================================
