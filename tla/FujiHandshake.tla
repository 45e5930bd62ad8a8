----------------------------- MODULE FujiHandshake -----------------------------
(* How a Macintosh and the Pico agree on the sector that carries the messages:  *)
(* fujiOpen of FujiFloppyInit.c on one side, MacNdev on the other, the real     *)
(* disks behind it (command.c.patch), and other programs that use those disks   *)
(* at the same time.  The File Manager, which finds the file's sector, and the  *)
(* disk driver, which leaves the tags of the sector it read last in BufTgFNum,  *)
(* are external.                                                                *)
EXTENDS Integers, Sequences

CONSTANTS
  Drives, Sectors, NegativeLBA, KnockSeq, PayloadSize, FifoSize, Loopback, MaxUsb,
  MacDrive,     \* the drive with the FujiNet file
  FileSector,   \* where the file is
  Others,       \* drives and sectors that other programs use
  Values,       \* data they write
  MaxMessages   \* bound: messages the driver writes

ASSUME HandshakeAssumption ==
  /\ MacDrive \in Drives /\ FileSector \in Sectors \ {0}
  /\ Others \subseteq (Drives \X Sectors) \ {<<MacDrive, FileSector>>}
  /\ MaxMessages \in Nat
ASSUME DeviceAssumption ==
  /\ Sectors \subseteq Nat /\ 0 \in Sectors /\ NegativeLBA \in Nat \ Sectors
  /\ KnockSeq \in Seq(Sectors) /\ KnockSeq # <<>>
  /\ {PayloadSize, FifoSize} \subseteq Nat \ {0} /\ MaxUsb \in Nat

VARIABLES
  state, knock, drive, sector, fifo, usb, usbSent, put, io, heard, given,   \* MacNdev
  disk,      \* contents of the real disks
  bufTag,    \* BufTgFNum
  pc,        \* where fujiOpen is
  knocks,    \* knocks it has sent
  fileOpen,  \* the FujiNet file is open for writing
  reply,     \* the sector it read back
  target,    \* fuji->iopb: drive and sector of the messages
  err,       \* the last result of fujiOpen
  messages,  \* messages written
  stored,    \* history: what other programs wrote last
  disturbed  \* history: something came between a last knock and its magic write, or a
             \* write of another program was itself the last knock

Pico == INSTANCE MacNdev WITH Blocks <- {}

picoVars == <<state, knock, drive, sector, fifo, usb, usbSent, put, io, heard, given>>
macVars  == <<pc, knocks, fileOpen, reply, target, err, messages>>
histVars == <<stored, disturbed>>
vars     == <<picoVars, macVars, disk, bufTag, histVars>>

NoTarget == [drive |-> 0, sector |-> 0]

Init ==
  /\ Pico!Init
  /\ disk = [a \in Drives \X Sectors |-> Pico!Data(0)]
  /\ stored = [a \in Others |-> Pico!Data(0)] /\ disturbed = FALSE
  /\ bufTag = "none" /\ pc = "idle" /\ knocks = 0 /\ fileOpen = FALSE
  /\ reply = Pico!OnDisk /\ target = NoTarget /\ err = "none" /\ messages = 0

GoTo(l) == pc' = l

-------------------------------------------------------------------------------
(* The disk below: dcd_read and dcd_write ask the device first                  *)

DiskRead(d, s) ==
  /\ Pico!Access(d, s, "read", Pico!OnDisk)
  /\ bufTag' = io'.tag
  /\ UNCHANGED disk

DiskWrite(d, s, b) ==
  /\ Pico!Access(d, s, "write", b)
  /\ disk' = (IF io'.taken THEN disk ELSE [disk EXCEPT ![<<d, s>>] = b])
  /\ UNCHANGED bufTag

\* What a read brings.
Answer(d, s) == IF io'.taken THEN io'.block ELSE disk[<<d, s>>]

NoAccess == UNCHANGED <<picoVars, disk, bufTag>>

\* A step that is not the magic write the Pico waits for after a knock.
Disturbs == disturbed' = (disturbed \/ state = "magicWrite")

-------------------------------------------------------------------------------
(* fujiOpen.  No path closes the file.                                          *)

Fail(e) == GoTo("idle") /\ err' = e

\* The file cannot be opened for writing a second time.
FileBusy ==
  /\ pc = "idle" /\ fileOpen /\ Fail("opWrErr")
  /\ NoAccess /\ UNCHANGED <<knocks, fileOpen, reply, target, messages, histVars>>

OpenFile ==
  /\ pc = "idle" /\ ~fileOpen
  /\ fileOpen' = TRUE /\ knocks' = 0 /\ err' = "none" /\ GoTo("cache")
  /\ NoAccess /\ UNCHANGED <<reply, target, messages, histVars>>

\* When the cache cannot be turned off, there is no knocking, but the tag is checked.
CacheControl ==
  /\ pc = "cache"
  /\ GoTo("knock") \/ GoTo("check")
  /\ NoAccess /\ UNCHANGED <<knocks, fileOpen, reply, target, err, messages, histVars>>

\* mutant: one knock too many.
KnockOnceMore ==
  /\ pc = "knock" /\ DiskRead(MacDrive, KnockSeq[knocks + 1])
  /\ knocks' = knocks + 1
  /\ GoTo(IF knocks' > Len(KnockSeq) THEN "check" ELSE "knock")
  /\ UNCHANGED <<fileOpen, reply, target, err, messages, histVars>>

Knock ==
  /\ pc = "knock" /\ DiskRead(MacDrive, KnockSeq[knocks + 1])
  /\ knocks' = knocks + 1
  /\ GoTo(IF knocks' = Len(KnockSeq) THEN "check" ELSE "knock")
  /\ UNCHANGED <<fileOpen, reply, target, err, messages, histVars>>

KnockFails ==
  /\ pc = "knock" /\ Fail("ioErr")
  /\ NoAccess /\ UNCHANGED <<knocks, fileOpen, reply, target, messages, histVars>>

CheckTag ==
  /\ pc = "check"
  /\ IF bufTag = "FUJI" THEN GoTo("write") /\ UNCHANGED err ELSE Fail("noDevice")
  /\ NoAccess /\ UNCHANGED <<knocks, fileOpen, reply, target, messages, histVars>>

MagicWrite ==
  /\ pc = "write" /\ GoTo("readBack")
  /\ DiskWrite(MacDrive, FileSector, Pico!Magic)
  /\ UNCHANGED <<knocks, fileOpen, reply, target, err, messages, histVars>>

\* The disk is full or locked: the File Manager refuses, and nothing is written.
MagicWriteFails ==
  /\ pc = "write" /\ Fail("dskFulErr") /\ Disturbs
  /\ NoAccess /\ UNCHANGED <<knocks, fileOpen, reply, target, messages, stored>>

ReadBack ==
  /\ pc = "readBack" /\ GoTo("reply")
  /\ DiskRead(MacDrive, FileSector)
  /\ reply' = Answer(MacDrive, FileSector)
  /\ UNCHANGED <<knocks, fileOpen, target, err, messages, histVars>>

ReadBackFails ==
  /\ pc = "readBack" /\ Fail("ioErr")
  /\ NoAccess /\ UNCHANGED <<knocks, fileOpen, reply, target, messages, histVars>>

\* The number in a block that begins with the reply tag: in the reply to the
\* handshake the sector, in a message the bytes available.
SectorAddr == IF reply.kind = "sector" THEN reply.value ELSE reply.avail

CheckReply ==
  /\ pc = "reply"
  /\ IF reply.kind \in {"sector", "reply"}
     THEN /\ target' = [drive |-> MacDrive, sector |-> SectorAddr]
          /\ GoTo("openDriver") /\ UNCHANGED err
     ELSE Fail("noDevice") /\ UNCHANGED target
  /\ NoAccess /\ UNCHANGED <<knocks, fileOpen, reply, messages, histVars>>

\* The target stays also when the driver does not open.
OpenDriver ==
  /\ pc = "openDriver" /\ (Fail("noErr") \/ Fail("openErr"))
  /\ NoAccess /\ UNCHANGED <<knocks, fileOpen, reply, target, messages, histVars>>

FujiOpen ==
  \/ FileBusy \/ OpenFile \/ CacheControl \/ Knock \/ KnockFails \/ CheckTag
  \/ MagicWrite \/ MagicWriteFails \/ ReadBack \/ ReadBackFails \/ CheckReply \/ OpenDriver

-------------------------------------------------------------------------------
(* Afterwards, and meanwhile                                                    *)

\* fujiReady
Ready == target # NoTarget

ReadMessage ==
  /\ Ready /\ DiskRead(target.drive, target.sector)
  /\ UNCHANGED <<macVars, histVars>>

WriteMessage ==
  /\ Ready /\ messages < MaxMessages /\ messages' = messages + 1
  /\ DiskWrite(target.drive, target.sector, Pico!Request(<<messages'>>))
  /\ UNCHANGED <<pc, knocks, fileOpen, reply, target, err, histVars>>

OtherReads(d, s) ==
  /\ Disturbs /\ DiskRead(d, s)
  /\ UNCHANGED <<macVars, stored>>

\* A write that completes the knock is taken at once, by the step that waits for the
\* magic write.
OtherWrites(d, s, v) ==
  /\ disturbed' = (disturbed \/ state = "magicWrite" \/ Pico!Knocked(s))
  /\ DiskWrite(d, s, Pico!Data(v))
  /\ stored' = [stored EXCEPT ![<<d, s>>] = Pico!Data(v)]
  /\ UNCHANGED macVars

\* The Macintosh restarts; the Pico, with its own power, knows nothing of it.
MacRestarts ==
  /\ Disturbs
  /\ GoTo("idle") /\ knocks' = 0 /\ fileOpen' = FALSE /\ reply' = Pico!OnDisk
  /\ target' = NoTarget /\ err' = "none" /\ bufTag' = "none"
  /\ UNCHANGED <<picoVars, disk, messages, stored>>

Next ==
  \/ FujiOpen \/ ReadMessage \/ WriteMessage \/ MacRestarts
  \/ \E a \in Others : OtherReads(a[1], a[2])
  \/ \E a \in Others, v \in Values : OtherWrites(a[1], a[2], v)

Spec == Init /\ [][Next]_vars

-------------------------------------------------------------------------------
(* Properties *)

\* Types; and fujiOpen never knocks on a sector past the end of its sequence.
TypeOK ==
  /\ Pico!TypeOK
  /\ disk \in [Drives \X Sectors -> {Pico!Data(v) : v \in Values \cup {0}}
                 \cup {Pico!Magic} \cup {Pico!Request(<<n>>) : n \in 1..MaxMessages}]
  /\ bufTag \in {"none", "FUJI"}
  /\ pc \in {"idle", "cache", "knock", "check", "write", "readBack", "reply", "openDriver"}
  /\ pc = "knock" => knocks < Len(KnockSeq)
  /\ fileOpen \in BOOLEAN /\ disturbed \in BOOLEAN /\ target.sector \in Nat /\ messages \in 0..MaxMessages

\* Once the driver has a sector to send its messages to, the Pico takes that sector
\* of that drive for messages, and it is the FujiNet file's: whatever other programs
\* read and write at any moment, as long as they leave one sector of the knock alone,
\* however often a handshake was begun and given up or the Macintosh restarted.
\* (The end of fujiOpen, and MAC_NDEV_WAIT_MAGIC_SECTOR.)
AgreeOnSector ==
  Ready => /\ state = "magicSector" /\ target = [drive |-> drive, sector |-> sector]
           /\ target = [drive |-> MacDrive, sector |-> FileSector]

\* The disks of other programs keep what those wrote, also on another drive with a
\* sector of the same number, and in whatever state the handshake is.  Two events
\* are excepted: something came between a last knock and its magic write
\* (OnlyMagicIsTaken), and a write of theirs was itself the last knock, which takes
\* it for the magic one.  (not_mac_ndev_read and not_mac_ndev_write in dcd_read and
\* dcd_write; step 1 of is_mac_ndev_io goes on to step 2 in the same access.)
OthersDataIntact ==
  ~disturbed =>
    /\ \A a \in Others : disk[a] = stored[a]
    /\ (io.mode = "read" /\ <<io.drive, io.sector>> \in Others) => ~io.taken

\* A write is taken for the magic one only when "the whole sector consists of
\* repetitions of the magic value".  (is_mac_ndev_io, step 2.  Violated: the
\* comparison ends with the first difference, and the sector is taken all the same.)
OnlyMagicIsTaken ==
  [][ (state = "magicWrite" /\ state' = "magicRead") => io'.block = Pico!Magic ]_vars

===============================================================================
