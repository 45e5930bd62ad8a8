-------------------------- MODULE FujiHandshake_proofs --------------------------
(* Proofs about the handshake for any drives, sectors and knock, and any other   *)
(* programs that leave at least one sector of the knock alone: both sides mean   *)
(* the same sector whenever the Macintosh has one, and the disks of the others   *)
(* keep what those wrote.                                                        *)
EXTENDS FujiHandshake, SequenceTheorems, TLAPS

\* A sector of the knock that nobody but fujiOpen reads or writes.
Private(i) == KnockSeq[i] # FileSector /\ \A d \in Drives : <<d, KnockSeq[i]>> \notin Others

\* The knock is fujiOpen's: other programs do not touch all of its sectors, and the
\* FujiNet file does not begin at its last one.  Without this a program that reads
\* the sectors of the knock in a row arms the device again, under the driver's feet.
KnockIsOurs ==
  /\ KnockSeq[Len(KnockSeq)] # FileSector
  /\ \E i \in 1..Len(KnockSeq) : Private(i)

AtFile == drive = MacDrive /\ sector = FileSector
IsReply(b) == b.kind \in {"sector", "reply"}
TheReply == [kind |-> "sector", value |-> FileSector]

\* What fujiOpen has when it is there, and that nothing on a disk looks like an answer.
CallInv ==
  /\ pc # "idle" => fileOpen
  /\ pc = "cache" => knocks = 0
  /\ pc = "knock" => knocks \in 0..(Len(KnockSeq) - 1)
  /\ DOMAIN disk = Drives \X Sectors
  /\ \A a \in Drives \X Sectors : ~IsReply(disk[a])

\* The Macintosh has a target: both sides agree, and the knock cannot be completed.
ReadyInv(i) ==
  Ready => /\ state = "magicSector" /\ AtFile /\ knock < i
           /\ target = [drive |-> MacDrive, sector |-> FileSector]
           /\ fileOpen /\ pc \in {"idle", "openDriver"}

\* The Pico agreed on the file's sector and the Macintosh does not know any more, or
\* not yet: nothing makes it believe in a new handshake.
ForgottenInv ==
  (~Ready /\ state = "magicSector" /\ AtFile) =>
    \/ pc = "idle" /\ (fileOpen \/ bufTag = "none")
    \/ pc \in {"cache", "check"} /\ bufTag = "none"
    \/ pc = "knock"
    \/ pc = "reply" /\ reply = TheReply

\* An answer was read from the file's sector: the Pico has just agreed on it.
ReplyInv(i) ==
  (pc = "reply" /\ IsReply(reply)) =>
    state = "magicSector" /\ AtFile /\ reply = TheReply /\ knock < i

\* In the middle of a handshake no knock is half heard that others could complete.
HalfWayInv(i) ==
  ((bufTag = "FUJI" \/ pc \in {"write", "readBack"}) /\ state \in {"magicWrite", "magicRead"})
    => knock < i

AgreeInv(i) ==
  knock \in 0..(Len(KnockSeq) - 1) /\ CallInv /\ ReadyInv(i) /\ ForgottenInv /\ ReplyInv(i) /\ HalfWayInv(i)

-------------------------------------------------------------------------------
(* What an access does *)

\* An access of a sector that is not the negative one, seen from outside: it ends a
\* knock, is the magic write, is its read back, carries a message, or is the disk's.
KnockHeard(d, s, m) ==
  /\ Pico!Knocked(s) /\ drive' = d
  /\ IF m = "write" THEN state' = "magicRead" /\ sector' = s
                    ELSE state' = "magicWrite" /\ sector' = 0 /\ io'.tag = "FUJI" /\ ~io'.taken
MagicTaken(d, s, m) ==
  /\ ~Pico!Knocked(s) /\ state = "magicWrite" /\ m = "write" /\ d = drive
  /\ state' = "magicRead" /\ drive' = drive /\ sector' = s /\ io'.taken
Confirmed(d, s, m) ==
  /\ ~Pico!Knocked(s) /\ state = "magicRead" /\ m = "read" /\ d = drive /\ s = sector
  /\ state' = "magicSector" /\ UNCHANGED <<drive, sector>>
  /\ io'.taken /\ io'.tag = "FUJI" /\ io'.block = [kind |-> "sector", value |-> sector]
Carried(d, s, m) ==
  /\ ~Pico!Knocked(s) /\ state = "magicSector" /\ d = drive /\ s = sector
  /\ UNCHANGED <<state, drive, sector>> /\ io'.tag = "none"
Passed(d, s, m) ==
  /\ ~Pico!Knocked(s) /\ ~(state = "magicWrite" /\ m = "write" /\ d = drive)
  /\ ~(state \in {"magicRead", "magicSector"} /\ m = "read" /\ d = drive /\ s = sector)
  /\ ~(state = "magicSector" /\ d = drive /\ s = sector)
  /\ UNCHANGED <<state, drive, sector>> /\ io'.tag = "none" /\ ~io'.taken

\* There is no sixth kind.
LEMMA KindsOfAccess ==
  ASSUME NEW d, NEW s \in Sectors, NEW m \in {"read", "write"}, NEW b, Pico!Access(d, s, m, b)
  PROVE  /\ knock' = Pico!NextKnock(s) /\ io'.drive = d /\ io'.sector = s /\ io'.mode = m
         /\ \/ KnockHeard(d, s, m) \/ MagicTaken(d, s, m) \/ Confirmed(d, s, m)
            \/ Carried(d, s, m) \/ Passed(d, s, m)
<1>0. s # NegativeLBA
  BY DeviceAssumption
<1>1. knock' = Pico!NextKnock(s)
  BY <1>0 DEF Pico!Access
<1>2. ASSUME NEW t, Pico!DiskIO(d, s, m, b, t)
      PROVE  io'.drive = d /\ io'.sector = s /\ io'.mode = m /\ io'.tag = t /\ ~io'.taken
  BY <1>2 DEF Pico!DiskIO
<1>3. CASE Pico!KnockAccess(d, s, m, b)
  <2>1. CASE m = "write"
    <3>1. io' = [drive |-> d, sector |-> s, mode |-> m, taken |-> TRUE, tag |-> "none", block |-> b]
      BY <1>3, <2>1 DEF Pico!KnockAccess
    <3> QED
      BY <1>1, <1>3, <2>1, <3>1 DEF Pico!KnockAccess, KnockHeard
  <2>2. CASE m = "read"
    BY <1>1, <1>2, <1>3, <2>2 DEF Pico!KnockAccess, KnockHeard
  <2> QED
    BY <2>1, <2>2
<1>4. CASE ~Pico!Knocked(s) /\ Pico!MagicWrite(d, s, m, b)
  <2>1. io' = [drive |-> d, sector |-> s, mode |-> m, taken |-> TRUE, tag |-> "none", block |-> b]
    BY <1>4 DEF Pico!MagicWrite
  <2> QED
    BY <1>1, <1>4, <2>1 DEF Pico!MagicWrite, MagicTaken
<1>5. CASE ~Pico!Knocked(s) /\ Pico!MagicRead(d, s, m)
  <2>1. io' = [drive |-> d, sector |-> s, mode |-> m, taken |-> TRUE, tag |-> "FUJI",
               block |-> [kind |-> "sector", value |-> sector]]
    BY <1>5 DEF Pico!MagicRead
  <2> QED
    BY <1>1, <1>5, <2>1 DEF Pico!MagicRead, Pico!IsReadBack, Confirmed
<1>6. CASE ~Pico!Knocked(s) /\ Pico!MessageAccess(d, s, m, b)
  <2>1. io'.drive = d /\ io'.sector = s /\ io'.mode = m /\ io'.tag = "none"
    <3>1. CASE m = "read" /\ Pico!MagicSectorRead(d, s, "none")
      BY <3>1 DEF Pico!MagicSectorRead
    <3>2. CASE m = "write" /\ Pico!MagicSectorWrite(d, s, b, "none")
      BY <3>2 DEF Pico!MagicSectorWrite
    <3> QED
      BY <1>6, <3>1, <3>2 DEF Pico!MessageAccess, Pico!MagicSectorIO
  <2> QED
    BY <1>1, <1>6, <2>1 DEF Pico!MessageAccess, Pico!IsMagicSector, Carried
<1>7. CASE ~Pico!Knocked(s) /\ Pico!OrdinaryAccess(d, s, m, b)
  BY <1>1, <1>2, <1>7 DEF Pico!OrdinaryAccess, Pico!IsReadBack, Pico!IsMagicSector, Passed
<1> QED
  BY <1>0, <1>1, <1>3, <1>4, <1>5, <1>6, <1>7 DEF Pico!Access

\* The count of the knock stays in its range, and starts anew after the last one.
LEMMA KnockCounts ==
  ASSUME knock \in 0..(Len(KnockSeq) - 1), NEW s
  PROVE  /\ Pico!NextKnock(s) \in 0..(Len(KnockSeq) - 1)
         /\ Pico!Knocked(s) => Pico!NextKnock(s) = 0
<1>1. Len(KnockSeq) \in Nat \ {0}
  BY DeviceAssumption
<1>2. ASSUME NEW l \in Nat \ {0} PROVE l % l = 0 /\ \A a \in 0..l : a % l \in 0..(l - 1)
  OBVIOUS
<1>3. (knock + 1) % Len(KnockSeq) \in 0..(Len(KnockSeq) - 1)
  BY <1>1, <1>2
<1>4. CASE knock + 1 = Len(KnockSeq)
  BY <1>1, <1>2, <1>3, <1>4 DEF Pico!NextKnock, Pico!Knocked
<1>5. CASE knock + 1 # Len(KnockSeq)
  BY <1>1, <1>3, <1>5 DEF Pico!NextKnock, Pico!Knocked
<1> QED
  BY <1>4, <1>5

\* Who does not touch the i-th sector of the knock does not get past it.
LEMMA KnockStopsShort ==
  ASSUME knock \in 0..(Len(KnockSeq) - 1), NEW i \in 1..Len(KnockSeq), knock < i,
         NEW s, s # KnockSeq[i]
  PROVE  Pico!NextKnock(s) < i /\ ~Pico!Knocked(s)
<1>1. Len(KnockSeq) \in Nat \ {0}
  BY DeviceAssumption
<1>2. CASE s = KnockSeq[knock + 1]
  <2>1. knock + 1 # i /\ knock + 1 < i /\ knock + 1 < Len(KnockSeq)
    BY <1>1, <1>2
  <2>2. ASSUME NEW l \in Nat \ {0}, NEW a \in Nat, a < l PROVE a % l = a
    BY <2>2
  <2>3. (knock + 1) % Len(KnockSeq) = knock + 1
    BY <1>1, <2>1, <2>2
  <2> QED
    BY <1>2, <2>1, <2>3 DEF Pico!NextKnock, Pico!Knocked
<1>3. CASE s # KnockSeq[knock + 1]
  BY <1>3 DEF Pico!NextKnock, Pico!Knocked
<1> QED
  BY <1>2, <1>3

-------------------------------------------------------------------------------
(* Both sides agree *)

\* Steps of the Macintosh that reach no disk.
LEMMA QuietAgree ==
  ASSUME NEW i \in 1..Len(KnockSeq), AgreeInv(i), NoAccess,
         \/ FileBusy \/ OpenFile \/ CacheControl \/ KnockFails \/ CheckTag
         \/ MagicWriteFails \/ ReadBackFails \/ CheckReply \/ OpenDriver
  PROVE  AgreeInv(i)'
<1> USE DEF AgreeInv, CallInv, ReadyInv, ForgottenInv, ReplyInv, HalfWayInv, AtFile, Ready, GoTo, Fail
<1>1. UNCHANGED <<state, knock, drive, sector, disk, bufTag>>
  BY DEF NoAccess, picoVars
<1>2. Len(KnockSeq) \in Nat \ {0}
  BY DeviceAssumption
<1>3. CASE FileBusy
  BY <1>1, <1>3 DEF FileBusy
<1>4. CASE OpenFile
  BY <1>1, <1>2, <1>4 DEF OpenFile
<1>5. CASE CacheControl
  BY <1>1, <1>5 DEF CacheControl
<1>6. CASE KnockFails
  BY <1>1, <1>6 DEF KnockFails
<1>7. CASE CheckTag
  BY <1>1, <1>7 DEF CheckTag
<1>8. CASE MagicWriteFails
  BY <1>1, <1>8 DEF MagicWriteFails
<1>9. CASE ReadBackFails
  BY <1>1, <1>9 DEF ReadBackFails
<1>10. CASE CheckReply
  <2>1. CASE IsReply(reply)
    <3>1. target' = [drive |-> MacDrive, sector |-> SectorAddr] /\ pc' = "openDriver" /\ pc = "reply"
      BY <1>10, <2>1 DEF CheckReply, IsReply
    <3>2. SectorAddr = FileSector /\ state = "magicSector" /\ AtFile /\ knock < i /\ fileOpen
      BY <2>1, <3>1 DEF SectorAddr, TheReply
    <3>3. FileSector # 0 /\ target' # NoTarget
      BY <3>1, <3>2, HandshakeAssumption DEF NoTarget
    <3> QED
      BY <1>1, <1>10, <3>1, <3>2, <3>3 DEF CheckReply
  <2>2. CASE ~IsReply(reply)
    <3>1. IsReply(TheReply)
      BY DEF IsReply, TheReply
    <3>2. UNCHANGED <<target, reply, fileOpen, knocks>> /\ pc' = "idle" /\ pc = "reply"
      BY <1>10, <2>2 DEF CheckReply, IsReply
    <3> QED
      BY <1>1, <2>2, <3>1, <3>2
  <2> QED
    BY <2>1, <2>2
<1>11. CASE OpenDriver
  BY <1>1, <1>11 DEF OpenDriver
<1> QED
  BY <1>3, <1>4, <1>5, <1>6, <1>7, <1>8, <1>9, <1>10, <1>11

\* A block that is written is no answer, so neither is what any disk holds afterwards.
LEMMA DisksHoldNoReply ==
  ASSUME CallInv, NEW d \in Drives, NEW s \in Sectors, NEW b, ~IsReply(b), DiskWrite(d, s, b)
  PROVE  DOMAIN disk' = Drives \X Sectors /\ \A a \in Drives \X Sectors : ~IsReply(disk'[a])
<1>1. disk' = disk \/ disk' = [disk EXCEPT ![<<d, s>>] = b]
  BY DEF DiskWrite
<1> QED
  BY <1>1 DEF CallInv

\* What fujiOpen and the programs write is no answer.
LEMMA WrittenBlocks ==
  ASSUME NEW v
  PROVE  ~IsReply(Pico!Data(v)) /\ ~IsReply(Pico!Magic) /\ ~IsReply(Pico!Request(v))
BY DEF IsReply, Pico!Data, Pico!Magic, Pico!Request

\* A knock of fujiOpen.
LEMMA KnockAgree ==
  ASSUME NEW i \in 1..Len(KnockSeq), KnockSeq[Len(KnockSeq)] # FileSector, AgreeInv(i), Knock
  PROVE  AgreeInv(i)'
<1> DEFINE s == KnockSeq[knocks + 1]
<1>1. /\ pc = "knock" /\ knocks \in 0..(Len(KnockSeq) - 1) /\ Len(KnockSeq) \in Nat \ {0}
      /\ s \in Sectors /\ MacDrive \in Drives
  BY DeviceAssumption, HandshakeAssumption DEF Knock, AgreeInv, CallInv
<1>2. /\ Pico!Access(MacDrive, s, "read", Pico!OnDisk) /\ bufTag' = io'.tag
      /\ UNCHANGED <<disk, fileOpen, reply, target, err, messages>>
      /\ knocks' = knocks + 1 /\ pc' = IF knocks' = Len(KnockSeq) THEN "check" ELSE "knock"
  BY DEF Knock, DiskRead, GoTo
<1> HIDE DEF s
<1>3. /\ knock' = Pico!NextKnock(s)
      /\ \/ KnockHeard(MacDrive, s, "read") \/ MagicTaken(MacDrive, s, "read")
         \/ Confirmed(MacDrive, s, "read") \/ Carried(MacDrive, s, "read") \/ Passed(MacDrive, s, "read")
  BY <1>1, <1>2, KindsOfAccess
<1>4. knock' \in 0..(Len(KnockSeq) - 1) /\ (Pico!Knocked(s) => knock' = 0)
  BY <1>1, <1>2, KindsOfAccess, KnockCounts DEF AgreeInv
<1>5. ~Ready /\ ~Ready' /\ pc' \in {"check", "knock"} /\ (pc' = "check" => s # FileSector)
  BY <1>1, <1>2 DEF AgreeInv, ReadyInv, Ready, s
<1>6. CallInv'
  BY <1>1, <1>2 DEF AgreeInv, CallInv
<1>7. (state' = "magicSector" /\ drive' = MacDrive /\ sector' = FileSector /\ pc' = "check") => bufTag' = "none"
  BY <1>2, <1>3, <1>5 DEF KnockHeard, MagicTaken, Confirmed, Carried, Passed
<1>8. (bufTag' = "FUJI" /\ state' \in {"magicWrite", "magicRead"}) => knock' = 0
  BY <1>2, <1>3, <1>4 DEF KnockHeard, MagicTaken, Confirmed, Carried, Passed
<1> QED
  BY <1>1, <1>4, <1>5, <1>6, <1>7, <1>8
  DEF AgreeInv, ReadyInv, ForgottenInv, ReplyInv, HalfWayInv, AtFile

\* The magic write: the Pico waits for it, or it goes to the disk.
LEMMA MagicWriteAgree ==
  ASSUME NEW i \in 1..Len(KnockSeq), KnockSeq[Len(KnockSeq)] # FileSector, KnockSeq[i] # FileSector,
         AgreeInv(i), MagicWrite
  PROVE  AgreeInv(i)'
<1>1. /\ pc = "write" /\ pc' = "readBack" /\ MacDrive \in Drives /\ FileSector \in Sectors
      /\ UNCHANGED <<knocks, fileOpen, reply, target, bufTag>>
      /\ Pico!Access(MacDrive, FileSector, "write", Pico!Magic)
  BY HandshakeAssumption DEF MagicWrite, DiskWrite, GoTo
<1>2. KnockHeard(MacDrive, FileSector, "write") \/ MagicTaken(MacDrive, FileSector, "write")
        \/ Confirmed(MacDrive, FileSector, "write") \/ Carried(MacDrive, FileSector, "write")
        \/ Passed(MacDrive, FileSector, "write")
  BY <1>1, KindsOfAccess
<1>3. knock' = Pico!NextKnock(FileSector)
  BY <1>1, KindsOfAccess
<1>4. knock' \in 0..(Len(KnockSeq) - 1) /\ ~Pico!Knocked(FileSector) /\ (knock < i => knock' < i)
  <2>1. Len(KnockSeq) \in Nat \ {0}
    BY DeviceAssumption
  <2> QED
    BY <1>3, <2>1, KnockCounts, KnockStopsShort DEF AgreeInv, Pico!Knocked
<1>5. CallInv'
  <2>1. DiskWrite(MacDrive, FileSector, Pico!Magic) /\ ~IsReply(Pico!Magic) /\ CallInv
    BY WrittenBlocks DEF MagicWrite, AgreeInv
  <2>2. DOMAIN disk' = Drives \X Sectors /\ \A a \in Drives \X Sectors : ~IsReply(disk'[a])
    BY <1>1, <2>1, DisksHoldNoReply
  <2> QED
    BY <1>1, <2>1, <2>2 DEF CallInv
<1>6. ~Ready /\ ~Ready'
  BY <1>1 DEF AgreeInv, ReadyInv, Ready
<1>7. state \in {"magicWrite", "magicRead"} \/ state' \notin {"magicWrite", "magicRead"}
  BY <1>2, <1>4 DEF KnockHeard, MagicTaken, Confirmed, Carried, Passed
<1>8. state' # "magicSector" \/ ~AtFile'
  BY <1>1, <1>2, <1>4, <1>6
  DEF KnockHeard, MagicTaken, Confirmed, Carried, Passed, AgreeInv, ForgottenInv, AtFile
<1> QED
  BY <1>1, <1>4, <1>5, <1>6, <1>7, <1>8 DEF AgreeInv, ReadyInv, ForgottenInv, ReplyInv, HalfWayInv

\* The read back: an answer comes from a Pico that has just agreed.
LEMMA ReadBackAgree ==
  ASSUME NEW i \in 1..Len(KnockSeq), KnockSeq[Len(KnockSeq)] # FileSector, KnockSeq[i] # FileSector,
         AgreeInv(i), ReadBack
  PROVE  AgreeInv(i)'
<1>1. /\ pc = "readBack" /\ pc' = "reply" /\ MacDrive \in Drives /\ FileSector \in Sectors
      /\ UNCHANGED <<knocks, fileOpen, target, disk>> /\ bufTag' = io'.tag
      /\ reply' = IF io'.taken THEN io'.block ELSE disk[<<MacDrive, FileSector>>]
      /\ Pico!Access(MacDrive, FileSector, "read", Pico!OnDisk)
  BY HandshakeAssumption DEF ReadBack, DiskRead, GoTo, Answer
<1>2. KnockHeard(MacDrive, FileSector, "read") \/ MagicTaken(MacDrive, FileSector, "read")
        \/ Confirmed(MacDrive, FileSector, "read") \/ Carried(MacDrive, FileSector, "read")
        \/ Passed(MacDrive, FileSector, "read")
  BY <1>1, KindsOfAccess
<1>3. knock' = Pico!NextKnock(FileSector)
  BY <1>1, KindsOfAccess
<1>4. knock' \in 0..(Len(KnockSeq) - 1) /\ ~Pico!Knocked(FileSector) /\ (knock < i => knock' < i)
  <2>1. Len(KnockSeq) \in Nat \ {0}
    BY DeviceAssumption
  <2> QED
    BY <1>3, <2>1, KnockCounts, KnockStopsShort DEF AgreeInv, Pico!Knocked
<1>5. CallInv'
  BY <1>1 DEF AgreeInv, CallInv
<1>6. ~Ready /\ ~Ready'
  BY <1>1 DEF AgreeInv, ReadyInv, Ready
<1>7. ~(state = "magicSector" /\ AtFile)
  BY <1>1, <1>6 DEF AgreeInv, ForgottenInv
\* Only a Pico that waits for the read back takes it.
<1>8. CASE Confirmed(MacDrive, FileSector, "read")
  <2>1. /\ state = "magicRead" /\ state' = "magicSector" /\ AtFile /\ AtFile' /\ reply' = TheReply
    BY <1>1, <1>8 DEF Confirmed, AtFile, TheReply
  <2> QED
    BY <1>1, <1>4, <1>5, <1>6, <2>1
    DEF AgreeInv, ReadyInv, ForgottenInv, ReplyInv, HalfWayInv
<1>9. CASE Passed(MacDrive, FileSector, "read")
  <2>1. UNCHANGED <<state, drive, sector>> /\ reply' = disk[<<MacDrive, FileSector>>] /\ bufTag' = "none"
    BY <1>1, <1>9 DEF Passed
  <2>2. ~IsReply(reply') /\ ~(state' = "magicSector" /\ AtFile')
    BY <1>1, <1>7, <2>1 DEF AgreeInv, CallInv, AtFile
  <2> QED
    BY <1>1, <1>4, <1>5, <1>6, <2>1, <2>2
    DEF AgreeInv, ReadyInv, ForgottenInv, ReplyInv, HalfWayInv
<1> QED
  BY <1>2, <1>4, <1>7, <1>8, <1>9 DEF KnockHeard, MagicTaken, Carried, AtFile

\* A message goes to the target, where the Pico waits for it.
LEMMA MessageAgree ==
  ASSUME NEW i \in 1..Len(KnockSeq), KnockSeq[i] # FileSector, AgreeInv(i), ReadMessage \/ WriteMessage
  PROVE  AgreeInv(i)'
<1>1. /\ Ready /\ state = "magicSector" /\ AtFile /\ knock < i
      /\ target = [drive |-> MacDrive, sector |-> FileSector]
      /\ MacDrive \in Drives /\ FileSector \in Sectors
  BY HandshakeAssumption DEF ReadMessage, WriteMessage, AgreeInv, ReadyInv
<1>2. PICK m \in {"read", "write"} :
        /\ \E b : Pico!Access(MacDrive, FileSector, m, b)
        /\ m = "write" => \E b : DiskWrite(MacDrive, FileSector, b) /\ b.kind = "request"
        /\ m = "read" => bufTag' = io'.tag /\ UNCHANGED disk
        /\ m = "write" => UNCHANGED bufTag
        /\ UNCHANGED <<pc, knocks, fileOpen, reply, target>>
  BY <1>1 DEF ReadMessage, WriteMessage, DiskRead, DiskWrite, macVars, Pico!Request
<1>3. knock' = Pico!NextKnock(FileSector) /\ Carried(MacDrive, FileSector, m)
  <2>1. ~Pico!Knocked(FileSector)
    BY <1>1, KnockStopsShort DEF AgreeInv
  <2>2. Carried(MacDrive, FileSector, m) \/ Passed(MacDrive, FileSector, m)
    BY <1>1, <1>2, <2>1, KindsOfAccess DEF KnockHeard, MagicTaken, Confirmed
  <2> QED
    BY <1>1, <1>2, <2>2, KindsOfAccess DEF Passed, AtFile
<1>4. knock' \in 0..(Len(KnockSeq) - 1) /\ knock' < i
  BY <1>1, <1>3, KnockCounts, KnockStopsShort DEF AgreeInv
<1>5. CallInv'
  <2>1. DOMAIN disk' = Drives \X Sectors /\ \A a \in Drives \X Sectors : ~IsReply(disk'[a])
    <3>1. CASE m = "read"
      BY <1>2, <3>1 DEF AgreeInv, CallInv
    <3>2. CASE m = "write"
      BY <1>1, <1>2, <3>2, DisksHoldNoReply DEF AgreeInv, IsReply
    <3> QED
      BY <3>1, <3>2
  <2> QED
    BY <1>2, <2>1 DEF AgreeInv, CallInv
<1> QED
  BY <1>1, <1>2, <1>3, <1>4, <1>5
  DEF Carried, AgreeInv, ReadyInv, ForgottenInv, ReplyInv, HalfWayInv, AtFile, Ready

\* Other programs: they do not reach the file, nor the whole knock.
LEMMA OthersAgree ==
  ASSUME NEW i \in 1..Len(KnockSeq), AgreeInv(i), NEW a \in Others, Private(i),
         OtherReads(a[1], a[2]) \/ \E v \in Values : OtherWrites(a[1], a[2], v)
  PROVE  AgreeInv(i)'
<1> DEFINE d == a[1]
           s == a[2]
<1>0. Len(KnockSeq) \in Nat \ {0}
  BY DeviceAssumption
<1>1. d \in Drives /\ s \in Sectors /\ ~(d = MacDrive /\ s = FileSector) /\ s # KnockSeq[i]
  <2>1. a \in Drives \X Sectors /\ a # <<MacDrive, FileSector>>
    BY HandshakeAssumption
  <2>2. d \in Drives /\ s \in Sectors /\ a = <<d, s>>
    BY <2>1
  <2> QED
    BY <2>1, <2>2 DEF Private
<1>2. PICK m \in {"read", "write"} :
        /\ \E b : Pico!Access(d, s, m, b)
        /\ m = "write" => \E v : DiskWrite(d, s, Pico!Data(v))
        /\ m = "read" => bufTag' = io'.tag /\ UNCHANGED disk
        /\ m = "write" => UNCHANGED bufTag
        /\ UNCHANGED macVars
  BY DEF OtherReads, OtherWrites, DiskRead, DiskWrite
<1> HIDE DEF d, s
<1>3. /\ knock' = Pico!NextKnock(s)
      /\ KnockHeard(d, s, m) \/ MagicTaken(d, s, m) \/ Confirmed(d, s, m) \/ Carried(d, s, m) \/ Passed(d, s, m)
  BY <1>1, <1>2, KindsOfAccess
<1>4. /\ knock' \in 0..(Len(KnockSeq) - 1) /\ (Pico!Knocked(s) => knock' = 0)
      /\ knock < i => knock' < i /\ ~Pico!Knocked(s)
  BY <1>1, <1>3, KnockCounts, KnockStopsShort DEF AgreeInv
<1>5. CallInv'
  <2>1. DOMAIN disk' = Drives \X Sectors /\ \A x \in Drives \X Sectors : ~IsReply(disk'[x])
    <3>1. CASE m = "read"
      BY <1>2, <3>1 DEF AgreeInv, CallInv
    <3>2. CASE m = "write"
      BY <1>1, <1>2, <3>2, DisksHoldNoReply, WrittenBlocks DEF AgreeInv
    <3> QED
      BY <3>1, <3>2
  <2> QED
    BY <1>2, <2>1 DEF AgreeInv, CallInv, macVars
<1>6. CASE state = "magicSector" /\ AtFile /\ knock < i
  <2>1. UNCHANGED <<state, drive, sector>> /\ (m = "read" => bufTag' = "none")
    BY <1>1, <1>2, <1>3, <1>4, <1>6 DEF KnockHeard, MagicTaken, Confirmed, Carried, Passed, AtFile
  <2> QED
    BY <1>2, <1>4, <1>5, <1>6, <2>1
    DEF AgreeInv, ReadyInv, ForgottenInv, ReplyInv, HalfWayInv, AtFile, Ready, macVars
<1>7. CASE ~(state = "magicSector" /\ AtFile /\ knock < i)
  <2>1. ~Ready /\ ~(pc = "reply" /\ IsReply(reply))
    BY <1>7 DEF AgreeInv, ReadyInv, ReplyInv
  <2>2. ~Ready' /\ ~(pc' = "reply" /\ IsReply(reply'))
    BY <1>2, <2>1 DEF Ready, macVars
  <2>3. (state' = "magicSector" /\ AtFile') =>
           (state = "magicSector" /\ AtFile /\ (m = "read" => bufTag' = "none"))
    BY <1>1, <1>2, <1>3 DEF KnockHeard, MagicTaken, Confirmed, Carried, Passed, AtFile
  <2>4. ForgottenInv'
    BY <1>2, <2>1, <2>2, <2>3 DEF AgreeInv, ForgottenInv, macVars, Ready
  <2>5. HalfWayInv(i)'
    BY <1>0, <1>2, <1>3, <1>4
    DEF AgreeInv, HalfWayInv, macVars, KnockHeard, MagicTaken, Confirmed, Carried, Passed
  <2> QED
    BY <1>4, <1>5, <2>2, <2>4, <2>5 DEF AgreeInv, ReadyInv, ReplyInv
<1> QED
  BY <1>6, <1>7


\* A restart of the Macintosh, which forgets all but the contents of its disks.
LEMMA RestartAgree ==
  ASSUME NEW i \in 1..Len(KnockSeq), AgreeInv(i), MacRestarts
  PROVE  AgreeInv(i)'
<1>1. Len(KnockSeq) \in Nat \ {0} /\ NoTarget # [drive |-> MacDrive, sector |-> FileSector]
  BY DeviceAssumption, HandshakeAssumption DEF NoTarget
<1>2. /\ UNCHANGED <<state, knock, drive, sector, disk>> /\ pc' = "idle" /\ knocks' = 0
      /\ fileOpen' = FALSE /\ target' = NoTarget /\ bufTag' = "none"
  BY DEF MacRestarts, GoTo, picoVars
<1> QED
  BY <1>1, <1>2
  DEF AgreeInv, CallInv, ReadyInv, ForgottenInv, ReplyInv, HalfWayInv, AtFile, Ready

\* Every step of anyone.
LEMMA StepAgree ==
  ASSUME NEW i \in 1..Len(KnockSeq), KnockSeq[Len(KnockSeq)] # FileSector, Private(i),
         AgreeInv(i), [Next]_vars
  PROVE  AgreeInv(i)'
<1>0. KnockSeq[i] # FileSector
  BY DEF Private
<1>1. CASE UNCHANGED vars
  BY <1>1 DEF vars, picoVars, macVars, AgreeInv, CallInv, ReadyInv, ForgottenInv, ReplyInv, HalfWayInv,
              AtFile, Ready
<1>2. CASE FujiOpen
  <2>1. FujiOpen => \/ Knock \/ MagicWrite \/ ReadBack
                    \/ NoAccess /\ (\/ FileBusy \/ OpenFile \/ CacheControl \/ KnockFails \/ CheckTag
                                    \/ MagicWriteFails \/ ReadBackFails \/ CheckReply \/ OpenDriver)
    BY DEF FujiOpen, FileBusy, OpenFile, CacheControl, KnockFails, CheckTag,
           MagicWriteFails, ReadBackFails, CheckReply, OpenDriver
  <2> QED
    BY <1>0, <1>2, <2>1, QuietAgree, KnockAgree, MagicWriteAgree, ReadBackAgree
<1>3. CASE ReadMessage \/ WriteMessage
  BY <1>0, <1>3, MessageAgree
<1>4. CASE MacRestarts
  BY <1>4, RestartAgree
<1>5. CASE \E a \in Others : OtherReads(a[1], a[2])
  BY <1>5, OthersAgree
<1>6. CASE \E a \in Others, v \in Values : OtherWrites(a[1], a[2], v)
  BY <1>6, OthersAgree
<1> QED
  BY <1>1, <1>2, <1>3, <1>4, <1>5, <1>6 DEF Next

\* At the beginning nobody has agreed on anything.
LEMMA InitAgree ==
  ASSUME NEW i \in 1..Len(KnockSeq), Init
  PROVE  AgreeInv(i)
<1>1. Len(KnockSeq) \in Nat \ {0}
  BY DeviceAssumption
<1>2. DOMAIN disk = Drives \X Sectors /\ \A a \in Drives \X Sectors : ~IsReply(disk[a])
  BY WrittenBlocks DEF Init
<1> QED
  BY <1>1, <1>2
  DEF Init, Pico!Init, AgreeInv, CallInv, ReadyInv, ForgottenInv, ReplyInv, HalfWayInv, AtFile, Ready

\* Once the driver has a sector for its messages, the Pico takes that sector of that
\* drive for messages, and it is the FujiNet file's, whatever other programs read and
\* write and however often a handshake was given up or the Macintosh restarted.
THEOREM BothSidesAgree ==
  ASSUME KnockIsOurs
  PROVE  Spec => []AgreeOnSector
<1>1. PICK i \in 1..Len(KnockSeq) : Private(i)
  BY DEF KnockIsOurs
<1>2. Init => AgreeInv(i)
  BY InitAgree
<1>3. AgreeInv(i) /\ [Next]_vars => AgreeInv(i)'
  BY <1>1, StepAgree DEF KnockIsOurs
<1>4. AgreeInv(i) => AgreeOnSector
  BY DEF AgreeInv, ReadyInv, AgreeOnSector, AtFile
<1> QED
  BY <1>2, <1>3, <1>4, PTL DEF Spec

-------------------------------------------------------------------------------
(* The disks of the others *)

\* Until something comes between a last knock and its magic write, or is both, the
\* Pico waits for no sector but the file's.
ForFile == state \in {"magicRead", "magicSector"} => AtFile

IntactInv == DOMAIN stored = Others /\ (~disturbed => ForFile) /\ OthersDataIntact

\* A read, whoever makes it.
LEMMA ReadIntact ==
  ASSUME IntactInv, NEW d \in Drives, NEW s \in Sectors, DiskRead(d, s), UNCHANGED stored,
         ~disturbed' => ~disturbed
  PROVE  IntactInv'
<1>1. /\ Pico!Access(d, s, "read", Pico!OnDisk) /\ UNCHANGED disk
  BY DEF DiskRead
<1>2. /\ io'.drive = d /\ io'.sector = s
      /\ KnockHeard(d, s, "read") \/ MagicTaken(d, s, "read") \/ Confirmed(d, s, "read")
           \/ Carried(d, s, "read") \/ Passed(d, s, "read")
  BY <1>1, KindsOfAccess
<1>3. ASSUME ~disturbed'
      PROVE  ForFile' /\ (<<io'.drive, io'.sector>> \in Others => ~io'.taken)
  <2>1. ~disturbed /\ ForFile
    BY <1>3 DEF IntactInv
  <2>2. ForFile'
    BY <1>2, <2>1 DEF KnockHeard, MagicTaken, Confirmed, Carried, Passed, ForFile, AtFile
  <2>3. io'.taken => d = MacDrive /\ s = FileSector
    BY <1>2, <2>1 DEF KnockHeard, MagicTaken, Confirmed, Carried, Passed, ForFile, AtFile
  <2> QED
    BY <1>2, <2>2, <2>3, HandshakeAssumption
<1> QED
  BY <1>1, <1>3 DEF IntactInv, OthersDataIntact

\* A write to the file, magic or a message.
LEMMA FileWriteIntact ==
  ASSUME IntactInv, KnockSeq[Len(KnockSeq)] # FileSector, DOMAIN disk = Drives \X Sectors,
         NEW b, DiskWrite(MacDrive, FileSector, b), UNCHANGED <<stored, disturbed>>
  PROVE  IntactInv'
<1>1. MacDrive \in Drives /\ FileSector \in Sectors /\ <<MacDrive, FileSector>> \notin Others
      /\ Others \subseteq Drives \X Sectors
  BY HandshakeAssumption
<1>2. /\ io'.mode = "write"
      /\ KnockHeard(MacDrive, FileSector, "write") \/ MagicTaken(MacDrive, FileSector, "write")
           \/ Confirmed(MacDrive, FileSector, "write") \/ Carried(MacDrive, FileSector, "write")
           \/ Passed(MacDrive, FileSector, "write")
  BY <1>1, KindsOfAccess DEF DiskWrite
<1>3. ~Pico!Knocked(FileSector)
  <2>1. Len(KnockSeq) \in Nat \ {0}
    BY DeviceAssumption
  <2> QED
    BY <2>1 DEF Pico!Knocked
<1>4. (~disturbed => ForFile) => (~disturbed' => ForFile')
  BY <1>2, <1>3 DEF KnockHeard, MagicTaken, Confirmed, Carried, Passed, ForFile, AtFile
<1>5. \A a \in Others : disk'[a] = disk[a]
  BY <1>1 DEF DiskWrite
<1> QED
  BY <1>2, <1>4, <1>5 DEF IntactInv, OthersDataIntact

\* A write of another program reaches its disk.
LEMMA OtherWriteIntact ==
  ASSUME IntactInv, DOMAIN disk = Drives \X Sectors,
         NEW a \in Others, NEW v \in Values, OtherWrites(a[1], a[2], v)
  PROVE  IntactInv'
<1> DEFINE d == a[1]
           s == a[2]
<1>1. /\ a = <<d, s>> /\ d \in Drives /\ s \in Sectors /\ a # <<MacDrive, FileSector>>
      /\ Others \subseteq Drives \X Sectors
  BY HandshakeAssumption
<1>2. /\ Pico!Access(d, s, "write", Pico!Data(v))
      /\ disk' = (IF io'.taken THEN disk ELSE [disk EXCEPT ![a] = Pico!Data(v)])
      /\ stored' = [stored EXCEPT ![a] = Pico!Data(v)]
      /\ disturbed' = (disturbed \/ state = "magicWrite" \/ Pico!Knocked(s))
  BY <1>1 DEF OtherWrites, DiskWrite
<1> HIDE DEF d, s
<1>3. /\ io'.mode = "write"
      /\ KnockHeard(d, s, "write") \/ MagicTaken(d, s, "write") \/ Confirmed(d, s, "write")
           \/ Carried(d, s, "write") \/ Passed(d, s, "write")
  BY <1>1, <1>2, KindsOfAccess
<1>5. ASSUME ~disturbed' PROVE ForFile' /\ ~io'.taken /\ ~disturbed
  <2>1. ~disturbed /\ state # "magicWrite" /\ ~Pico!Knocked(s) /\ ForFile
    BY <1>2, <1>5 DEF IntactInv
  <2>2. Passed(d, s, "write")
    BY <1>1, <1>3, <2>1 DEF KnockHeard, MagicTaken, Confirmed, Carried, ForFile, AtFile
  <2> QED
    BY <2>1, <2>2 DEF Passed, ForFile, AtFile
<1>6. DOMAIN stored' = Others
  BY <1>2 DEF IntactInv
<1>7. ASSUME ~disturbed', NEW x \in Others PROVE disk'[x] = stored'[x]
  BY <1>1, <1>2, <1>5, <1>7 DEF IntactInv, OthersDataIntact
<1> QED
  BY <1>3, <1>5, <1>6, <1>7 DEF IntactInv, OthersDataIntact

\* Every step of anyone.
LEMMA StepIntact ==
  ASSUME IntactInv, KnockSeq[Len(KnockSeq)] # FileSector,
         NEW i \in 1..Len(KnockSeq), AgreeInv(i), [Next]_vars
  PROVE  IntactInv'
<1>0. /\ KnockSeq[Len(KnockSeq)] # FileSector /\ DOMAIN disk = Drives \X Sectors
      /\ MacDrive \in Drives /\ FileSector \in Sectors /\ Others \subseteq Drives \X Sectors
  BY HandshakeAssumption DEF AgreeInv, CallInv
<1>1. ASSUME UNCHANGED <<picoVars, disk, stored>>, ~disturbed' => ~disturbed PROVE IntactInv'
  BY <1>1 DEF picoVars, IntactInv, OthersDataIntact, ForFile, AtFile
<1>2. CASE UNCHANGED vars \/ MacRestarts
  <2>1. CASE UNCHANGED vars
    BY <1>1, <2>1 DEF vars, histVars
  <2>2. CASE MacRestarts
    BY <1>1, <2>2 DEF MacRestarts, Disturbs
  <2> QED
    BY <1>2, <2>1, <2>2
<1>3. CASE FileBusy \/ OpenFile \/ CacheControl \/ KnockFails \/ CheckTag \/ MagicWriteFails
             \/ ReadBackFails \/ CheckReply \/ OpenDriver
  BY <1>1, <1>3 DEF FileBusy, OpenFile, CacheControl, KnockFails, CheckTag, MagicWriteFails,
                    ReadBackFails, CheckReply, OpenDriver, NoAccess, histVars, Disturbs
<1>4. CASE Knock
  <2>1. KnockSeq[knocks + 1] \in Sectors
    BY <1>4, DeviceAssumption DEF Knock, AgreeInv, CallInv
  <2> QED
    BY <1>0, <1>4, <2>1, ReadIntact DEF Knock, histVars
<1>5. CASE ReadBack
  BY <1>0, <1>5, ReadIntact DEF ReadBack, histVars
<1>6. CASE MagicWrite
  BY <1>0, <1>6, FileWriteIntact DEF MagicWrite, histVars
<1>7. CASE ReadMessage \/ WriteMessage
  <2>1. target.drive = MacDrive /\ target.sector = FileSector
    BY <1>7 DEF ReadMessage, WriteMessage, AgreeInv, ReadyInv
  <2> QED
    BY <1>0, <1>7, <2>1, ReadIntact, FileWriteIntact DEF ReadMessage, WriteMessage, histVars
<1>8. ASSUME NEW a \in Others, OtherReads(a[1], a[2]) PROVE IntactInv'
  BY <1>0, <1>8, ReadIntact DEF OtherReads, Disturbs
<1>9. ASSUME NEW a \in Others, NEW v \in Values, OtherWrites(a[1], a[2], v) PROVE IntactInv'
  BY <1>0, <1>9, OtherWriteIntact
<1> QED
  BY <1>2, <1>3, <1>4, <1>5, <1>6, <1>7, <1>8, <1>9 DEF Next, FujiOpen

\* The disks of other programs keep what those wrote, and no read of theirs is taken,
\* until something comes between a last knock and its magic write or a write of theirs
\* is the last knock itself.  They may use all sectors of the knock but one.
THEOREM OthersKeepTheirData ==
  ASSUME KnockIsOurs
  PROVE  Spec => []OthersDataIntact
<1>0. PICK i \in 1..Len(KnockSeq) : Private(i)
  BY DEF KnockIsOurs
<1>1. Init => AgreeInv(i) /\ IntactInv
  <2>1. ASSUME Init PROVE IntactInv
    <3>1. \A a \in Others : a \in Drives \X Sectors
      BY HandshakeAssumption
    <3> QED
      BY <2>1, <3>1
      DEF Init, Pico!Init, Pico!NoAccess, IntactInv, OthersDataIntact, ForFile, AtFile
  <2> QED
    BY <2>1, InitAgree
<1>2. AgreeInv(i) /\ IntactInv /\ [Next]_vars => AgreeInv(i)' /\ IntactInv'
  BY <1>0, StepAgree, StepIntact DEF KnockIsOurs
<1>3. IntactInv => OthersDataIntact
  BY DEF IntactInv
<1> QED
  BY <1>1, <1>2, <1>3, PTL DEF Spec

-------------------------------------------------------------------------------
(* Types *)

\* What is written to a disk by anyone, and what is there at the beginning.
Blocks == {Pico!Data(v) : v \in Values \cup {0}}
            \cup {Pico!Magic} \cup {Pico!Request(<<n>>) : n \in 1..MaxMessages}

\* The Pico's FIFO is a sequence, and no USB host sends anything here.
QueueInv == fifo \in Seq(Int) /\ usb = <<>>

\* A message carries a sequence of bytes.
LEMMA MessageBytes ==
  ASSUME NEW b \in Blocks
  PROVE  (CASE b.kind = "request" -> b.bytes [] b.kind = "magic" -> <<-1>> [] OTHER -> <<>>) \in Seq(Int)
<1>1. CASE b = Pico!Magic
  <2>1. b.kind = "magic" /\ <<-1>> \in Seq(Int)
    BY <1>1 DEF Pico!Magic
  <2> QED
    BY <2>1
<1>2. ASSUME NEW v, b = Pico!Data(v)
      PROVE  (CASE b.kind = "request" -> b.bytes [] b.kind = "magic" -> <<-1>> [] OTHER -> <<>>) \in Seq(Int)
  <2>1. b.kind = "data" /\ <<>> \in Seq(Int)
    BY <1>2 DEF Pico!Data
  <2> QED
    BY <2>1
<1>3. ASSUME NEW n \in 1..MaxMessages, b = Pico!Request(<<n>>)
      PROVE  (CASE b.kind = "request" -> b.bytes [] b.kind = "magic" -> <<-1>> [] OTHER -> <<>>) \in Seq(Int)
  <2>1. b.kind = "request" /\ b.bytes = <<n>> /\ <<n>> \in Seq(Int)
    BY <1>3, HandshakeAssumption DEF Pico!Request
  <2> QED
    BY <2>1
<1> QED
  BY <1>1, <1>2, <1>3 DEF Blocks

\* With nothing from USB the FIFO is what it was.
LEMMA NothingArrives ==
  ASSUME QueueInv, Len(fifo) <= FifoSize
  PROVE  Pico!Arriving = 0 /\ Pico!Filled = fifo /\ Pico!FifoRest(usb, Pico!Arriving) = <<>>
<1>1. Pico!Arriving = 0
  BY DeviceAssumption DEF Pico!Arriving, Pico!Min2, QueueInv
<1>2. SubSeq(<<>>, 1, 0) = <<>>
  OBVIOUS
<1>3. fifo \o <<>> = fifo
  BY ConcatProperties DEF QueueInv
<1> QED
  BY <1>1, <1>2, <1>3 DEF Pico!Filled, Pico!FifoRest, QueueInv

\* What a message, read or written, does to the queues, and the answer's types.
LEMMA MessageTypes ==
  ASSUME QueueInv, Len(fifo) <= FifoSize, NEW d, NEW s, NEW m \in {"read", "write"},
         NEW b, m = "write" => b \in Blocks, Pico!MagicSectorIO(d, s, m, b, "none")
  PROVE  /\ QueueInv' /\ Len(fifo') <= FifoSize /\ UNCHANGED usbSent
         /\ io'.drive = d /\ io'.sector = s /\ io'.mode = m /\ io'.taken \in BOOLEAN /\ io'.tag = "none"
<1>0. /\ Pico!Filled = fifo /\ Pico!FifoRest(usb, Pico!Arriving) = <<>>
      /\ PayloadSize \in Nat \ {0} /\ FifoSize \in Nat \ {0}
  BY NothingArrives, DeviceAssumption
<1>1. CASE m = "read" /\ Pico!MagicSectorRead(d, s, "none")
  <2> DEFINE n == Pico!Min2(PayloadSize, Len(fifo))
  <2>1. n \in 0..Len(fifo)
    BY <1>0 DEF Pico!Min2, QueueInv
  <2>2. usb' = <<>> /\ fifo' = SubSeq(fifo, n + 1, Len(fifo)) /\ UNCHANGED usbSent
    BY <1>0, <1>1 DEF Pico!MagicSectorRead, Pico!FifoRest
  <2>3. fifo' \in Seq(Int) /\ Len(fifo') <= Len(fifo)
    BY <2>1, <2>2, SubSeqProperties DEF QueueInv
  <2>4. io'.drive = d /\ io'.sector = s /\ io'.mode = m /\ io'.taken \in BOOLEAN /\ io'.tag = "none"
    BY <1>1 DEF Pico!MagicSectorRead
  <2>5. Len(fifo') <= FifoSize
    BY <1>0, <2>3 DEF QueueInv
  <2> QED
    BY <2>2, <2>3, <2>4, <2>5 DEF QueueInv
<1>2. CASE m = "write" /\ Pico!MagicSectorWrite(d, s, b, "none")
  <2>1. PICK bytes \in Seq(Int) : fifo' = IF Loopback THEN Pico!FifoPut(fifo, bytes) ELSE fifo
    BY <1>0, <1>2, MessageBytes DEF Pico!MagicSectorWrite
  <2>2. usb' = <<>> /\ UNCHANGED usbSent
    BY <1>0, <1>2 DEF Pico!MagicSectorWrite
  <2>3. fifo' \in Seq(Int) /\ Len(fifo') <= FifoSize
    BY <1>0, <2>1, ConcatProperties DEF Pico!FifoPut, QueueInv
  <2>4. io'.drive = d /\ io'.sector = s /\ io'.mode = m /\ io'.taken \in BOOLEAN /\ io'.tag = "none"
    BY <1>2 DEF Pico!MagicSectorWrite
  <2> QED
    BY <2>2, <2>3, <2>4 DEF QueueInv
<1> QED
  BY <1>1, <1>2 DEF Pico!MagicSectorIO

\* The Pico's globals, its queues and its answer have their types after any access.
LEMMA AccessTypes ==
  ASSUME Pico!TypeOK, QueueInv, NEW d \in Drives, NEW s \in Sectors, NEW m \in {"read", "write"},
         NEW b, m = "write" => b \in Blocks, Pico!Access(d, s, m, b)
  PROVE  Pico!TypeOK' /\ QueueInv' /\ io'.tag \in {"none", "FUJI"}
<1> DEFINE QueueTypes == QueueInv /\ Len(fifo) <= FifoSize /\ usbSent \in 0..MaxUsb
           DevTypes == /\ state \in {"knock", "magicWrite", "magicRead", "magicSector"}
                       /\ drive \in Drives \cup {0} /\ sector \in Sectors
           IOTypes == /\ io.drive = d /\ io.sector = s /\ io.mode = m
                      /\ io.taken \in BOOLEAN /\ io.tag \in {"none", "FUJI"}
<1>0. /\ DevTypes /\ QueueTypes /\ knock \in 0..(Len(KnockSeq) - 1) /\ heard \in Seq(Sectors)
      /\ Len(heard) <= Len(KnockSeq) /\ Len(KnockSeq) \in Nat \ {0} /\ 0 \in Sectors /\ s # NegativeLBA
  BY DeviceAssumption DEF Pico!TypeOK
<1>1. /\ knock' = Pico!NextKnock(s) /\ heard' = Pico!Heard(s)
      /\ \/ Pico!KnockAccess(d, s, m, b)
         \/ Pico!MagicWrite(d, s, m, b) \/ Pico!MagicRead(d, s, m)
         \/ Pico!MessageAccess(d, s, m, b) \/ Pico!OrdinaryAccess(d, s, m, b)
  BY <1>0 DEF Pico!Access
<1>2. knock' \in 0..(Len(KnockSeq) - 1)
  BY <1>0, <1>1 DEF Pico!NextKnock
<1>3. heard' \in Seq(Sectors) /\ Len(heard') <= Len(KnockSeq)
  BY <1>0, <1>1 DEF Pico!Heard
<1>4. ASSUME UNCHANGED Pico!fifoVars PROVE QueueTypes'
  BY <1>0, <1>4 DEF Pico!fifoVars, QueueInv
<1>5. ASSUME NEW t \in {"none", "FUJI"}, Pico!DiskIO(d, s, m, b, t) PROVE IOTypes' /\ QueueTypes'
  BY <1>4, <1>5 DEF Pico!DiskIO
<1>6. ASSUME NEW t \in {"none", "FUJI"}, NEW x,
             io' = [drive |-> d, sector |-> s, mode |-> m, taken |-> TRUE, tag |-> t, block |-> x]
      PROVE  IOTypes'
  BY <1>6
<1> HIDE DEF IOTypes, QueueTypes
<1>7. DevTypes' /\ IOTypes' /\ QueueTypes'
  <2>1. CASE Pico!KnockAccess(d, s, m, b) /\ m = "write"
    BY <1>0, <1>4, <1>6, <2>1 DEF Pico!KnockAccess
  <2>2. CASE Pico!KnockAccess(d, s, m, b) /\ m = "read"
    BY <1>0, <1>5, <2>2 DEF Pico!KnockAccess
  <2>3. CASE Pico!MagicWrite(d, s, m, b)
    BY <1>0, <1>4, <1>6, <2>3 DEF Pico!MagicWrite
  <2>4. CASE Pico!MagicRead(d, s, m)
    BY <1>0, <1>4, <1>6, <2>4 DEF Pico!MagicRead
  <2>5. CASE Pico!MessageAccess(d, s, m, b)
    <3>1. UNCHANGED <<state, drive, sector>> /\ Pico!MagicSectorIO(d, s, m, b, "none")
      BY <2>5 DEF Pico!MessageAccess
    <3>2. QueueInv /\ Len(fifo) <= FifoSize /\ usbSent \in 0..MaxUsb
      BY <1>0 DEF QueueTypes
    <3>3. /\ QueueInv' /\ Len(fifo') <= FifoSize /\ UNCHANGED usbSent
          /\ io'.drive = d /\ io'.sector = s /\ io'.mode = m /\ io'.taken \in BOOLEAN
          /\ io'.tag = "none"
      BY <3>1, <3>2, MessageTypes
    <3>4. IOTypes'
      BY <3>3 DEF IOTypes
    <3> QED
      BY <1>0, <3>1, <3>2, <3>3, <3>4 DEF QueueTypes
  <2>6. CASE Pico!OrdinaryAccess(d, s, m, b)
    BY <1>0, <1>5, <2>6 DEF Pico!OrdinaryAccess
  <2> QED
    BY <1>1, <2>1, <2>2, <2>3, <2>4, <2>5, <2>6
<1>8. usb' = <<>> /\ Len(usb') = 0 /\ usbSent' \in Nat
  BY <1>7 DEF QueueTypes, QueueInv
<1> QED
  BY <1>2, <1>3, <1>7, <1>8 DEF Pico!TypeOK, IOTypes, QueueTypes

\* The part of TypeOK that is about the disks and their tags.
DiskTypes == disk \in [Drives \X Sectors -> Blocks] /\ bufTag \in {"none", "FUJI"}

\* The Pico, its queues and the disks after anyone's read or write.
LEMMA ReadTypes ==
  ASSUME Pico!TypeOK, QueueInv, DiskTypes, NEW d \in Drives, NEW s \in Sectors, DiskRead(d, s)
  PROVE  Pico!TypeOK' /\ QueueInv' /\ DiskTypes'
<1>1. Pico!TypeOK' /\ QueueInv' /\ io'.tag \in {"none", "FUJI"}
  BY AccessTypes DEF DiskRead
<1> QED
  BY <1>1 DEF DiskRead, DiskTypes

LEMMA WriteTypes ==
  ASSUME Pico!TypeOK, QueueInv, DiskTypes, NEW d \in Drives, NEW s \in Sectors,
         NEW b \in Blocks, DiskWrite(d, s, b)
  PROVE  Pico!TypeOK' /\ QueueInv' /\ DiskTypes'
<1>1. Pico!TypeOK' /\ QueueInv'
  BY AccessTypes DEF DiskWrite
<1>2. disk' = disk \/ disk' = [disk EXCEPT ![<<d, s>>] = b]
  BY DEF DiskWrite
<1> QED
  BY <1>1, <1>2 DEF DiskWrite, DiskTypes

\* Every step of anyone.
LEMMA StepTypes ==
  ASSUME NEW i \in 1..Len(KnockSeq), AgreeInv(i), AgreeInv(i)', TypeOK, QueueInv, [Next]_vars
  PROVE  TypeOK' /\ QueueInv'
<1>0. /\ Pico!TypeOK /\ DiskTypes /\ MacDrive \in Drives /\ FileSector \in Sectors
      /\ Others \subseteq Drives \X Sectors /\ MaxMessages \in Nat
  BY HandshakeAssumption DEF TypeOK, DiskTypes, Blocks
<1>1. Pico!TypeOK' /\ QueueInv' /\ DiskTypes'
  <2>1. ASSUME UNCHANGED <<picoVars, disk>>, bufTag' \in {bufTag, "none"}
        PROVE  Pico!TypeOK' /\ QueueInv' /\ DiskTypes'
    BY <1>0, <2>1 DEF picoVars, Pico!TypeOK, QueueInv, DiskTypes
  <2>2. CASE UNCHANGED vars \/ MacRestarts
    <3>1. CASE UNCHANGED vars
      <4>1. UNCHANGED <<picoVars, disk>> /\ bufTag' \in {bufTag, "none"}
        BY <3>1 DEF vars
      <4> QED
        BY <2>1, <4>1
    <3>2. CASE MacRestarts
      BY <2>1, <3>2 DEF MacRestarts
    <3> QED
      BY <2>2, <3>1, <3>2
  <2>3. CASE FileBusy \/ OpenFile \/ CacheControl \/ KnockFails \/ CheckTag \/ MagicWriteFails
               \/ ReadBackFails \/ CheckReply \/ OpenDriver
    <3>1. UNCHANGED <<picoVars, disk>> /\ bufTag' \in {bufTag, "none"}
      BY <2>3 DEF NoAccess, FileBusy, OpenFile, CacheControl, KnockFails, CheckTag, MagicWriteFails,
                  ReadBackFails, CheckReply, OpenDriver
    <3> QED
      BY <2>1, <3>1
  <2>4. CASE Knock
    <3>1. KnockSeq[knocks + 1] \in Sectors
      BY <2>4, DeviceAssumption DEF Knock, AgreeInv, CallInv
    <3> QED
      BY <1>0, <2>4, <3>1, ReadTypes DEF Knock
  <2>5. CASE ReadBack
    BY <1>0, <2>5, ReadTypes DEF ReadBack
  <2>6. CASE MagicWrite
    BY <1>0, <2>6, WriteTypes DEF MagicWrite, Blocks
  <2>7. CASE ReadMessage \/ WriteMessage
    <3>1. target.drive = MacDrive /\ target.sector = FileSector
      BY <2>7 DEF ReadMessage, WriteMessage, AgreeInv, ReadyInv
    <3>2. WriteMessage => messages' \in 1..MaxMessages
      BY <1>0 DEF WriteMessage, TypeOK
    <3>3. WriteMessage => Pico!Request(<<messages'>>) \in Blocks
      BY <3>2 DEF Blocks
    <3> QED
      BY <1>0, <2>7, <3>1, <3>3, ReadTypes, WriteTypes DEF ReadMessage, WriteMessage
  <2>8. ASSUME NEW a \in Others, OtherReads(a[1], a[2]) PROVE Pico!TypeOK' /\ QueueInv' /\ DiskTypes'
    BY <1>0, <2>8, ReadTypes DEF OtherReads
  <2>9. ASSUME NEW a \in Others, NEW v \in Values, OtherWrites(a[1], a[2], v)
        PROVE  Pico!TypeOK' /\ QueueInv' /\ DiskTypes'
    BY <1>0, <2>9, WriteTypes DEF OtherWrites, Blocks
  <2> QED
    BY <2>2, <2>3, <2>4, <2>5, <2>6, <2>7, <2>8, <2>9 DEF Next, FujiOpen
<1>2. pc' \in {"idle", "cache", "knock", "check", "write", "readBack", "reply", "openDriver"}
  BY DEF TypeOK, Next, FujiOpen, FileBusy, OpenFile, CacheControl, Knock, KnockFails, CheckTag, MagicWrite,
     MagicWriteFails, ReadBack, ReadBackFails, CheckReply, OpenDriver, ReadMessage, WriteMessage,
     MacRestarts, OtherReads, OtherWrites, Fail, GoTo, macVars, vars
<1>3. fileOpen' \in BOOLEAN
  BY Zenon DEF TypeOK, Next, FujiOpen, FileBusy, OpenFile, CacheControl, Knock, KnockFails, CheckTag, MagicWrite,
     MagicWriteFails, ReadBack, ReadBackFails, CheckReply, OpenDriver, ReadMessage, WriteMessage,
     MacRestarts, OtherReads, OtherWrites, macVars, vars
<1>4. disturbed' \in BOOLEAN
  BY Zenon DEF TypeOK, Next, FujiOpen, FileBusy, OpenFile, CacheControl, Knock, KnockFails, CheckTag, MagicWrite,
     MagicWriteFails, ReadBack, ReadBackFails, CheckReply, OpenDriver, ReadMessage, WriteMessage,
     MacRestarts, OtherReads, OtherWrites, Disturbs, histVars, vars
<1>5. messages' \in 0..MaxMessages
  <2>1. WriteMessage => messages' = messages + 1 /\ messages < MaxMessages
    BY DEF WriteMessage
  <2>2. ~WriteMessage => UNCHANGED messages
    BY Zenon DEF Next, FujiOpen, FileBusy, OpenFile, CacheControl, Knock, KnockFails, CheckTag, MagicWrite,
       MagicWriteFails, ReadBack, ReadBackFails, CheckReply, OpenDriver, ReadMessage,
       MacRestarts, OtherReads, OtherWrites, macVars, vars
  <2> QED
    BY <1>0, <2>1, <2>2 DEF TypeOK
<1>6. target'.sector \in Nat /\ (pc' = "knock" => knocks' < Len(KnockSeq))
  <2>1. target' = NoTarget \/ target' = [drive |-> MacDrive, sector |-> FileSector]
    BY DEF AgreeInv, ReadyInv, Ready
  <2>2. target'.sector \in Nat
    BY <1>0, <2>1, DeviceAssumption DEF NoTarget
  <2>3. Len(KnockSeq) \in Nat
    BY DeviceAssumption
  <2> QED
    BY <2>2, <2>3 DEF AgreeInv, CallInv
<1> QED
  BY <1>1, <1>2, <1>3, <1>4, <1>5, <1>6 DEF TypeOK, DiskTypes, Blocks

\* The Pico's globals, the disks and what fujiOpen keeps have their types; the sector
\* of the messages is one, and no more is knocked than the sequence is long.
THEOREM HandshakeTypes ==
  ASSUME KnockIsOurs
  PROVE  Spec => []TypeOK
<1>1. PICK i \in 1..Len(KnockSeq) : Private(i)
  BY DEF KnockIsOurs
<1>2. Init => AgreeInv(i) /\ TypeOK /\ QueueInv
  <2> SUFFICES ASSUME Init PROVE TypeOK /\ QueueInv
    BY InitAgree
  <2>1. /\ fifo = <<>> /\ usb = <<>> /\ heard = <<>> /\ Len(KnockSeq) \in Nat \ {0} /\ 0 \in Sectors
        /\ FifoSize \in Nat /\ MaxUsb \in Nat /\ MaxMessages \in Nat
    BY DeviceAssumption, HandshakeAssumption DEF Init, Pico!Init
  <2>2. Pico!TypeOK
    BY <2>1 DEF Init, Pico!Init, Pico!TypeOK, Pico!NoAccess
  <2>3. QueueInv
    BY <2>1 DEF QueueInv
  <2>4. disk \in [Drives \X Sectors -> Blocks]
    BY DEF Init, Blocks
  <2>5. /\ bufTag = "none" /\ pc = "idle" /\ fileOpen = FALSE /\ disturbed = FALSE
        /\ target.sector = 0 /\ messages = 0
    BY DEF Init, NoTarget
  <2>6. /\ bufTag \in {"none", "FUJI"} /\ pc # "knock" /\ fileOpen \in BOOLEAN /\ disturbed \in BOOLEAN
        /\ pc \in {"idle", "cache", "knock", "check", "write", "readBack", "reply", "openDriver"}
        /\ target.sector \in Nat /\ messages \in 0..MaxMessages
    <3>1. messages \in 0..MaxMessages /\ target.sector \in Nat
      BY <2>1, <2>5
    <3>2. fileOpen \in BOOLEAN /\ disturbed \in BOOLEAN
      BY <2>5, Zenon
    <3>3. pc \in {"idle", "cache", "knock", "check", "write", "readBack", "reply", "openDriver"}
          /\ pc # "knock" /\ bufTag \in {"none", "FUJI"}
      BY <2>5
    <3> QED
      BY <3>1, <3>2, <3>3
  <2> QED
    BY <2>2, <2>3, <2>4, <2>6 DEF TypeOK, Blocks
<1>3. AgreeInv(i) /\ TypeOK /\ QueueInv /\ [Next]_vars => AgreeInv(i)' /\ TypeOK' /\ QueueInv'
  BY <1>1, StepAgree, StepTypes DEF KnockIsOurs
<1> QED
  BY <1>2, <1>3, PTL DEF Spec
===============================================================================
