------------------------------- MODULE MacNdev --------------------------------
(* The virtual network device in the Pico disk interface (mac_ndev.h) and the   *)
(* disk commands it is hooked into (command.c.patch).  A Macintosh reaches it   *)
(* with disk accesses only: a knock (reads of five sectors in a row), a sector  *)
(* of magic bytes that names the sector to be used, a read that confirms it,    *)
(* and then messages read from and written to that sector.  Every other access  *)
(* must reach the real disk, which is no part of this module: io says whether   *)
(* the device took the last access.  The program runs to completion per sector. *)
EXTENDS Integers, Sequences

CONSTANTS
  Drives,       \* disk identifiers
  Sectors,      \* ordinary sector numbers
  NegativeLBA,  \* the sector number that always means the device
  KnockSeq,     \* sectors of the knock (five in the code)
  PayloadSize,  \* bytes of a message (500 in the code)
  FifoSize,     \* capacity of the FIFO (2000 in the code)
  Loopback,     \* MAC_NDEV_LOOPBACK_TEST rather than MAC_NDEV_USB_SERIAL_TEST
  MaxUsb        \* bound: bytes the USB host sends in all

ASSUME SectorsAssumption ==
  /\ Sectors \subseteq Nat /\ 0 \in Sectors
  /\ NegativeLBA \in Nat \ Sectors
  /\ KnockSeq \in Seq(Sectors) /\ KnockSeq # <<>>
  /\ \A i, j \in 1..Len(KnockSeq) : KnockSeq[i] = KnockSeq[j] => i = j
ASSUME SizesAssumption ==
  /\ PayloadSize \in Nat \ {0} /\ FifoSize \in Nat \ {0} /\ MaxUsb \in Nat
  /\ Loopback \in BOOLEAN

\* Contents of a sector: ordinary data, magic bytes from end to end, or a message;
\* OnDisk stands for what the disk answers.
Data(v) == [kind |-> "data", value |-> v]
Magic == [kind |-> "magic"]
Request(bytes) == [kind |-> "request", bytes |-> bytes]
OnDisk == [kind |-> "disk"]

VARIABLES
  state,   \* mac_ndev_state
  knock,   \* mac_ndev_knock: how much of the knock was heard
  drive,   \* mac_ndev_drive
  sector,  \* mac_ndev_sector
  fifo,    \* bytes for the Macintosh
  usb,     \* bytes on their way from the USB host
  usbSent, \* how many bytes it has sent
  put,     \* bytes the last access put on USB
  io,      \* the last access and its answer
  heard,   \* history: the last sectors accessed, as many as the knock is long
  given    \* history: bytes the Macintosh was given

devVars  == <<state, knock, drive, sector>>
fifoVars == <<fifo, usb, usbSent, given>>
ndevVars == <<devVars, fifoVars, put, io, heard>>

NoAccess == [drive |-> 0, sector |-> 0, mode |-> "none", taken |-> FALSE, tag |-> "none",
             block |-> OnDisk]

Init ==
  /\ state = "knock" /\ knock = 0 /\ drive = 0 /\ sector = 0
  /\ fifo = <<>> /\ usb = <<>> /\ usbSent = 0 /\ put = <<>> /\ given = <<>>
  /\ io = NoAccess /\ heard = <<>>

-------------------------------------------------------------------------------
(* FIFO *)

Min2(a, b) == IF a < b THEN a ELSE b

\* fifoPutData: a message that does not fit is dropped.
FifoPut(q, bytes) == IF Len(q) + Len(bytes) <= FifoSize THEN q \o bytes ELSE q

\* mutant: the bytes stay in the queue.
FifoRestAll(q, n) == q
\* fifoGetData of n bytes leaves these.
FifoRest(q, n) == SubSeq(q, n + 1, Len(q))

\* mutant: no look at the room left.
ArrivingUnchecked == IF Loopback THEN 0 ELSE Len(usb)
\* What the USB host has sent so far is moved into the FIFO while there is room.
Arriving == IF Loopback THEN 0 ELSE Min2(FifoSize - Len(fifo), Len(usb))
Filled == fifo \o SubSeq(usb, 1, Arriving)

-------------------------------------------------------------------------------
(* mac_ndev_magic_sector_io *)

\* mutant: only what is returned is reported.
AvailReturned(count) == count
\* The header reports all that was available, also what did not fit.
Avail(count) == Len(Filled)

MagicSectorRead(d, s, tag) ==
  LET count == Min2(PayloadSize, Len(Filled))
      bytes == SubSeq(Filled, 1, count)
  IN /\ usb' = FifoRest(usb, Arriving) /\ fifo' = FifoRest(Filled, count)
     /\ given' = given \o bytes
     /\ io' = [drive |-> d, sector |-> s, mode |-> "read", taken |-> TRUE, tag |-> tag,
               block |-> [kind |-> "reply", avail |-> Avail(count), bytes |-> bytes]]
     /\ put' = <<>> /\ UNCHANGED usbSent

\* Anything that begins with the request tag is taken for a message: magic bytes
\* are, with a length that is cut to the maximum (stood for by one byte -1).  What
\* is no message goes to the disk, except with a negative LBA.
MagicSectorWrite(d, s, b, tag) ==
  LET taken == b.kind \in {"request", "magic"} \/ s = NegativeLBA
      bytes == CASE b.kind = "request" -> b.bytes [] b.kind = "magic" -> <<-1>> [] OTHER -> <<>>
  IN /\ usb' = FifoRest(usb, Arriving)
     /\ fifo' = (IF Loopback THEN FifoPut(fifo, bytes) ELSE Filled)
     /\ put' = (IF Loopback THEN <<>> ELSE bytes)
     /\ io' = [drive |-> d, sector |-> s, mode |-> "write", taken |-> taken, tag |-> tag, block |-> b]
     /\ UNCHANGED <<usbSent, given>>

MagicSectorIO(d, s, m, b, tag) ==
  \/ m = "read" /\ MagicSectorRead(d, s, tag)
  \/ m = "write" /\ MagicSectorWrite(d, s, b, tag)

-------------------------------------------------------------------------------
(* is_mac_ndev_io *)

\* mutant: a sector out of sequence does not start the knock anew.
NextKnockForgiving(s) ==
  IF s = KnockSeq[knock + 1] THEN (knock + 1) % Len(KnockSeq) ELSE knock
\* mac_ndev_detect_knock_sequence: how much was heard after an access to sector s.
NextKnock(s) == IF s = KnockSeq[knock + 1] THEN (knock + 1) % Len(KnockSeq) ELSE 0
Knocked(s) == s = KnockSeq[knock + 1] /\ knock + 1 = Len(KnockSeq)

Heard(s) ==
  LET h == Append(heard, s) IN IF Len(h) > Len(KnockSeq) THEN Tail(h) ELSE h

\* mutant: any drive will do.
IsMagicSectorAnyDrive(d, s) == s = sector
\* An access to the agreed sector of the agreed drive.
IsMagicSector(d, s) == d = drive /\ s = sector

\* mutant: any sector of the drive will do.
IsReadBackAnywhere(d, s) == d = drive
\* The sector that was written last is read back.
IsReadBack(d, s) == d = drive /\ s = sector

\* An access that is not special is left to the disk.
DiskIO(d, s, m, b, tag) ==
  /\ io' = [drive |-> d, sector |-> s, mode |-> m, taken |-> FALSE, tag |-> tag,
            block |-> IF m = "write" THEN b ELSE OnDisk]
  /\ put' = <<>> /\ UNCHANGED fifoVars

NegativeAccess(d, m, b) ==
  /\ MagicSectorIO(d, NegativeLBA, m, b, "none")
  /\ state' = (IF state = "magicSector" THEN state ELSE "knock")
  /\ UNCHANGED <<knock, drive, sector, heard>>

\* A fifth knock, and what follows in the same access: the answer in the sector's
\* tags, or the magic write already when the access happens to be a write (whose
\* response carries no tags).
KnockAccess(d, s, m, b) ==
  /\ Knocked(s)
  /\ drive' = d
  /\ IF m = "write"
     THEN /\ sector' = s /\ state' = "magicRead"
          /\ io' = [drive |-> d, sector |-> s, mode |-> m, taken |-> TRUE, tag |-> "none", block |-> b]
          /\ put' = <<>> /\ UNCHANGED fifoVars
     ELSE /\ sector' = 0 /\ state' = "magicWrite"
          /\ DiskIO(d, s, m, b, "FUJI")

\* The comparison with the magic bytes reports a difference and goes on: whatever
\* is written to the drive is taken for the magic sector.
MagicWrite(d, s, m, b) ==
  /\ state = "magicWrite" /\ m = "write" /\ d = drive
  /\ sector' = s /\ state' = "magicRead"
  /\ io' = [drive |-> d, sector |-> s, mode |-> m, taken |-> TRUE, tag |-> "none", block |-> b]
  /\ put' = <<>> /\ UNCHANGED <<drive, fifoVars>>

MagicRead(d, s, m) ==
  /\ state = "magicRead" /\ m = "read" /\ IsReadBack(d, s)
  /\ state' = "magicSector"
  /\ io' = [drive |-> d, sector |-> s, mode |-> m, taken |-> TRUE, tag |-> "FUJI",
            block |-> [kind |-> "sector", value |-> sector]]
  /\ put' = <<>> /\ UNCHANGED <<drive, sector, fifoVars>>

\* With the handshake done, the agreed sector carries messages.
MessageAccess(d, s, m, b) ==
  /\ state = "magicSector" /\ IsMagicSector(d, s)
  /\ MagicSectorIO(d, s, m, b, "none")
  /\ UNCHANGED <<state, drive, sector>>

OrdinaryAccess(d, s, m, b) ==
  /\ ~(state = "magicWrite" /\ m = "write" /\ d = drive)
  /\ ~(state = "magicRead" /\ m = "read" /\ IsReadBack(d, s))
  /\ ~(state = "magicSector" /\ IsMagicSector(d, s))
  /\ DiskIO(d, s, m, b, "none")
  /\ UNCHANGED <<state, drive, sector>>

\* An access of one sector; b is what a write writes.
Access(d, s, m, b) ==
  \/ s = NegativeLBA /\ NegativeAccess(d, m, b)
  \/ /\ s # NegativeLBA
     /\ knock' = NextKnock(s) /\ heard' = Heard(s)
     /\ \/ KnockAccess(d, s, m, b)
        \/ /\ ~Knocked(s)
           /\ \/ MagicWrite(d, s, m, b) \/ MagicRead(d, s, m)
              \/ MessageAccess(d, s, m, b) \/ OrdinaryAccess(d, s, m, b)

UsbSends ==
  /\ usbSent < MaxUsb /\ usbSent' = usbSent + 1 /\ usb' = Append(usb, usbSent + 1)
  /\ UNCHANGED <<devVars, fifo, given, put, io, heard>>

-------------------------------------------------------------------------------
(* Any Macintosh *)

CONSTANT Blocks    \* what it may write
ASSUME BlocksAssumption ==
  \A b \in Blocks : \/ b.kind \in {"data", "magic"}
                    \/ b.kind = "request" /\ b.bytes \in Seq(Int)

Next ==
  \/ \E d \in Drives, s \in Sectors \cup {NegativeLBA}, b \in Blocks : Access(d, s, "write", b)
  \/ \E d \in Drives, s \in Sectors \cup {NegativeLBA} : Access(d, s, "read", OnDisk)
  \/ UsbSends

Spec == Init /\ [][Next]_ndevVars

-------------------------------------------------------------------------------
(* Properties *)

\* The globals of mac_ndev.h have their types, and the FIFO never exceeds its array.
TypeOK ==
  /\ state \in {"knock", "magicWrite", "magicRead", "magicSector"}
  /\ knock \in 0..(Len(KnockSeq) - 1)
  /\ drive \in Drives \cup {0} /\ sector \in Sectors
  /\ Len(fifo) <= FifoSize /\ usbSent \in 0..MaxUsb /\ Len(usb) <= usbSent
  /\ io.drive \in Drives \cup {0} /\ io.sector \in Sectors \cup {NegativeLBA}
  /\ io.mode \in {"none", "read", "write"} /\ io.taken \in BOOLEAN /\ io.tag \in {"none", "FUJI"}
  /\ heard \in Seq(Sectors) /\ Len(heard) <= Len(KnockSeq)

\* However the accesses of all programs to all drives are mixed, the device begins
\* to take accesses only right after the knock, five sectors with no other between.
\* (mac_ndev_detect_knock_sequence.)
ArmedByKnockOnly ==
  [][ (state \in {"knock", "magicSector"} /\ state' \in {"magicWrite", "magicRead"})
      => heard' = KnockSeq ]_ndevVars

\* Bytes of the USB host reach the Macintosh once and in order, through the FIFO,
\* whatever is knocked, and however full the FIFO is.  (mac_ndev_magic_sector_io.)
UsbBytesInOrder == ~Loopback => given \o fifo \o usb = [i \in 1..usbSent |-> i]

\* The Macintosh computes from the header how many bytes are left to ask for: the
\* header tells exactly what the message carries and the FIFO still holds.
AvailIsTrue ==
  io.block.kind = "reply" =>
    /\ io.block.avail = Len(io.block.bytes) + Len(fifo)
    /\ Len(io.block.bytes) = Min2(PayloadSize, io.block.avail)

\* The knock "may be sent at any time": five sectors in a row are answered.
\* (Violated: a sector that breaks a knock is not looked at as the first of a new one.)
KnockIsHeardAnyTime ==
  (heard = KnockSeq /\ io.sector # NegativeLBA /\ io.mode = "read") => io.tag = "FUJI"

===============================================================================
