# FujiNet for the 68k Macintosh: TLA+ specifications

This directory specifies the drivers of this repository in TLA+. TLC checks the
specifications on small instances, and TLAPS proves theorems about them for every
value of the constants. `PROJECT.json` lists the components, the runs, the source lines
behind every definition, the hazards and the theorems.

    tlc -config async_core.cfg MCFujiSerialAsync.tla     # any run of the table below
    tlapm FujiSerialAsync_proofs.tla                     # any module ..._proofs, _requests, _refinement

## 1. The system

A Macintosh without a network talks through its floppy port to a Pico, which poses as a
disk. Disk accesses to one agreed sector carry messages of up to 500 bytes; the Pico
passes them to an ESP32, to a USB host, or back (loopback). On the Macintosh a serial
driver, `.Fuji`, makes byte streams of these messages, and stubs put it in the place of
`.AIn`, `.AOut`, `.BIn`, `.BOut` and `.IPP`.

    programs --read/write--> .Fuji and stubs --messages--> disk driver --sectors--> Pico --> network
                 (Device Manager queues)                                 (and other programs' disk I/O)

### Inventory

| Component | State | Operations | Interacts through |
|---|---|---|---|
| Async driver, `FujiSerial/FujiSerialAsync.c` | `FujiSerData`: read and write buffer with counters, `drvrInfo` (a suspended request per driver), `inWakeUp`, statistics; VBL task; mutex bit | open, prime, control, status, close, KillIO; VBL task; two completion routines; wake up | parameter blocks and `IODone` with the Device Manager; `conn.iopb` with the disk driver |
| Stubs, `FujiSerial/FujiSerialStub.c` | handle of the main driver | jump to its routines | shares `FujiSerData` |
| Basic driver, `FujiSerial/FujiSerialBasic.c` | an older layout of `FujiSerData` | the same calls, blocking | as above |
| Installation, `FujiCommon/FujiSerialInit.c` | unit table, DCEs | install, redirect, open, queries | system tables |
| Handshake, `FujiCommon/FujiFloppyInit.c` | `conn.iopb`, the FujiNet file | `fujiInit`, `fujiReady`, `fujiOpen` | File Manager, disk driver, `BufTgFNum`, the Pico |
| Pico device, `pico/mac_ndev.h` | state, knock counter, drive, sector, FIFO | every sector read or written on any drive | disk commands, USB or UART |
| Disk hook, `pico/command.c.patch` | none of its own | `dcd_read`, `dcd_write` | asks the device, else the real disk |
| Desk accessory, `FujiDeskAcc/FujiDeskAcc.c` | window, buttons | open, events, periodic run | installation calls |
| Loopback server, `linux/mac_ndev_loopback.cpp` | none | echo | USB serial |
| Indicators, macros, headers | none | drawing | - |
| Test application, `FujiTests/` | none | calls all of the above | - |

### What is hard, and what makes each component correct

* **Async driver.** Prime runs at main level, from completion routines and from interrupt
  handlers; the VBL task runs at every retrace; completions of transfers run when the disk
  is done. One bit, the VBL mutex, is taken in one routine and released in another. A
  request that cannot be served is parked in a table and woken later. Correct means: the
  mutex excludes; no request is lost, served twice or completed in another's name; no
  counter leaves its buffer; bytes go once and in order; every request ends; an error ends
  requests instead of hanging them.
* **Pico device.** It sees the accesses of all programs to all drives, mixed, and must
  tell messages from disk I/O. Correct means: only the knock arms it, only the magic
  write and the read back select a sector, no other sector is ever taken, and bytes come
  through its FIFO in order with a true count.
* **Handshake.** Several steps with other programs' accesses in between, each of which may
  fail, and restarts of one side only. Correct means: both sides agree on one sector, and
  it belongs to the FujiNet file.
* **Its other calls.** A port is opened, asked for its status or killed while interrupts use
  the same buffers. Correct means: the connection is not used twice, nothing is moved twice,
  the answer of SerGetBuf is true, and a killed request is left alone. The last does not hold,
  and the answer is off by a buffer when it is asked at the wrong moment.
* **Installation.** A sequence of steps that may fail half way, on a table that others use
  and that grows, asked for again and again from two places. Correct means: one driver per
  name, stubs that lead to the main driver, no port silently half redirected, room left
  in the table of drivers, and a desk accessory that shows what is true.
* **Basic driver, loopback.** The same streams without interrupts, in blocks of another size.
  Correct means: what the benchmark writes comes back once and in order, nothing is lost without
  a reason, and the benchmark ends.

## 2. Modules

| Module | What it is |
|---|---|
| `SerialPort` | Abstract: two bounded byte pipes to one device, a line of requests per driver, an error that ends everything |
| `FujiSerialAsync` | The async driver between an open and the next: prime, VBL task, completions, wake up; Device Manager queues |
| `FujiSerialAsync_proofs` | Proofs: types, mutex, counters |
| `FujiSerialAsync_requests` | Proofs: where every request is, and the statistics (extends the former) |
| `FujiSerialAsync_refinement` | Proof: it implements `SerialPort` (extends the former) |
| `FujiSerialControl` | The same driver (`EXTENDS FujiSerialAsync`) with open, SerGetBuf and KillIO going on at the same time |
| `FujiSerialControl_proofs` | Proofs: all its invariants (extends `FujiSerialAsync_requests`) |
| `MacNdev`, `MacNdev_proofs` | The Pico's device: one action per sector access |
| `FujiHandshake`, `FujiHandshake_proofs` | `fujiOpen`, the Pico (`INSTANCE MacNdev`), the disks, and other programs |
| `FujiLoopback`, `FujiLoopback_proofs` | The throughput benchmark over either driver, the Pico (`INSTANCE MacNdev`) in either configuration, and the echo program on a USB host |
| `FujiUnitTable`, `FujiUnitTable_proofs` | The unit table, installation and redirection, and their callers: the desk accessory and the test application |
| `MC...` | Values for the constants |

### FujiSerialAsync

*Threads.* `pc["main"]` is the program's call into the driver, `pc["intr"]` interrupt
level. Interrupt level starts between any two steps of the main program and runs to its
end first (`CanRun`). Interrupts are not nested.

*Steps of prime.* `Enter` tests and sets the mutex (one `bset`). `Copy` is the whole
critical section including the release: nothing else that touches the buffers can run in
between, so that one step stands for it. What follows is not protected, and there every
store has a step of its own: `Find` and `Claim` (getDriverInfo reads, then writes),
`ParkDce`, `ParkPb`, `Result` (`pb->ioResult = err`), and `IODone`.

*Mutex.* `VBLFlush` and `VBLFill` take it and leave it taken; `WriteDone`, `ReadDone` and
`TransferFails` go on into the wake up (`StartWakeUp`, `ScanSkip`, `ScanPrime`), and
`ScanEnd` releases it. A wake up calls prime with `inWakeUp` set, so prime neither takes
nor releases.

*Device Manager* (external). A read or write is queued and started when its unit was idle.
`IODone` takes the head of the queue, whatever it is, stores the result, lets the
completion routine make one more request, and then starts the next in the queue. The
Device Manager clears `ioActCount`. A synchronous caller spins on `ioResult`.

*Data.* An outgoing byte is the pair of its request and its position in it, an incoming
byte its position in the stream, so loss, duplication and reordering are visible. The
histories `sent` and `delivered` are what the device and the programs received. A transfer
that fails may have reached the device: a message has then been sent, and the bytes of a reply
are gone, because the Pico takes them from its FIFO (`mac_ndev.h:255`) before the reply is on
its way.

### FujiSerialControl

All variables and actions of `FujiSerialAsync` are kept; `Interrupts` and `Program` say
which of them go on while the main program is inside `doOpen` or `doStatus`. `doOpen` has
a step for every assignment that changes something: `ioResult`, the read buffer's
`ioReqCount` and `ioActCount`, the write buffer's `ioActCount`. It does not take the
mutex, so anything may come between two steps. `doStatus` reads three counters in three
steps. `KillIO` is the Device Manager's part only, because `doControl` does nothing; the
killed requests end with `abortErr`. `doClose` does nothing and has no action. `killed`,
`raced` and `replyLost` are histories. After an `IODone` on an empty queue (which takes a KillIO)
nothing is modelled, hence `CHECK_DEADLOCK FALSE`.

### MacNdev and FujiHandshake

`Access(d, s, m, b)` is `is_mac_ndev_io` for one sector: negative LBA, the knock, then
the four states. `io` is the last access and whether the device took it, `heard` a history
of the last sectors. Sector contents are one of a few kinds: ordinary data, magic bytes,
a message. Two details follow the code closely. Any write after a knock is taken for the
magic one, because the comparison only ends its own loop. And magic bytes written to the
magic sector are a message, because they begin with the request tag; its 500 bytes of
nonsense are the single byte -1.

`FujiHandshake` adds `dcd_read` and `dcd_write` (`DiskRead`, `DiskWrite`), one action per
step of `fujiOpen`, failures where the code tests for them, and the driver's messages
once there is a target. The File Manager (external) refuses to open the file for writing
twice, and no path of `fujiOpen` closes it: hence `FileBusy`. `stored` is a history
of what other programs wrote, and `disturbed` of whether anything came between a last
knock and its magic write, or a write of another program was itself the last knock: the step that
hears the knock goes on to the next in the same access (`mac_ndev.h:348-395`), so such a
write is taken at once.

### FujiLoopback

The handshake is done (`Init` puts the device into `magicSector`). One request is made at
a time, as in the benchmark, so that the asynchronous driver needs no threads here: its
actions are whole transfers and copies (`Flush`, `Fill`, `Accept`, `Take`), and `refill` is
the mutex tenure from a write to the read that follows it. `doStatus` takes no mutex, so it
reads its three counters in three steps (`AskAvail`, `AskActCount`, `AsyncGetBuf`), and a fetch
may come between them (`torn`). The Basic driver's prime is a loop of `BasicSend`, or of `BasicFetch` and
`BasicMove`, which copies to the start of the caller's buffer each time. The byte
numbered n is the n-th one written, in the place of the benchmark's pseudo-random
sequence. `msg` is the one buffer for writing and reading, which keeps its contents
(`BENCH_CLEAR_MESSAGES` is 0).

*Failures.* A transfer may fail at any moment, also one of the background while the program
is elsewhere. A message that failed may have reached the Pico (`FlushFails`,
`BasicSendFails`), and a reply that failed or has the wrong tag may have taken its bytes
from the FIFO (`LosesReply`). An error stops the asynchronous driver for good (`broken`, which is
`conn.iopb.ioResult`), and the program hears of it at its next read or write only. With the Basic
driver it ends the request, but SerGetBuf ignores it (`GetBufFails`, history `missed`). The
echo program only prints a message when its own write is short, and drops the rest (`HostEchoes`).
`losses` counts how often bytes went astray in one of these ways, up to the bound `MaxLosses`;
failures that lose nothing are not bounded, and a failed write of the Basic driver ends the
benchmark and needs no bound.

`RoomAssumption` states of the sizes what the program's have: twice the longest message (768
bytes), or that and a payload (500), fit the FIFO (2000), and the benchmark's buffer holds what the
FIFO does. The twenty seconds are a choice in each round (`timeUp`).

### FujiUnitTable

Everything here runs at main level and to its end, so each call of a caller is one action.
A routine is an operator from the system's state to the set of its outcomes (the new
state, the error, a result); `Then` and `OnError` chain them as the code's `goto error`
does, and every allocation adds an outcome that fails. `sys.table` holds what the code
reads of a unit: the name in its driver's header, the handles of the driver and its
data, and for a stub the handle it forwards to. `sys.live` is the set of handles not
disposed of. `DisposeStub` is the error path of `installStubDriver` with its uninitialized
`stubHndl`: it disposes of nothing, or of any handle, and then the run ends
(`sys.wild`), hence `CHECK_DEADLOCK FALSE`. Other programs install and remove their drivers
in the same table.

## 3. Runs

| Run | Bounds | Shows |
|---|---|---|
| `async_core` | 3 drivers, 4 table entries, buffers of 2 bytes, requests of 2, 3 and 1 bytes, 3 incoming bytes, transfers may fail; 813 000 states | Mutual exclusion, no lost or doubled request, right completions, exact statistics, sane counters, refinement of `SerialPort` |
| `async_live` | the same with two competing reads, 2 incoming bytes; 258 000 states | Every request ends |
| `async_late_result` | one write | Finding 1 |
| `async_first_use` | two drivers, one used at interrupt level | Finding 2 |
| `control` | 2 drivers, 2 reads of one byte at one of them, a write of two at the other, buffers of 1 byte, 2 incoming bytes, one more open (`MaxOpens`), transfers may fail; 3 890 000 states | The mutex survives an open; counters stay sane and nothing is moved twice but for a named race; what SerGetBuf answers can be read, give or take a buffer when a counter changes under it; only KillIO mixes requests |
| `control_kill` | the same, no open, no failures | Finding 3 |
| `pico` | 2 drives, a knock of 3 sectors and one ordinary sector, FIFO of 2 bytes, replies of 1, 3 bytes from USB; 468 000 states | Armed only by the knock; bytes in order; a true count |
| `pico_knock` | one drive, the real knock | Finding 4 |
| `handshake` | 2 drives, one message (`MaxMessages`) in loopback with a FIFO of one byte, other programs on three sectors: the last of the knock, the second of it on the other drive, and the number of the FujiNet file's on the other drive; 642 000 states | If the Macintosh gets a sector, both sides mean the same one, the file's; other programs' data is intact unless something came between a last knock and its magic write, or was both |
| `handshake_abandoned` | as `handshake`, two messages | Finding 5 |
| `loopback` | messages of 1 and 3 bytes, payload 2, blocks 2, FIFO 8, at most 3 writes (`MaxWrites`), bytes go astray at most once (`MaxLosses`); both drivers, both configurations, with and without SerGetBuf; 753 000 states | Nothing repeated or overtaken, whatever fails; nothing lost, no comparison failed and no overflow but for named reasons; what SerGetBuf answers is there; the benchmark ends, but for named cases |
| `unit_table` | one port with two names and one with one, 3 entries, two of which may be ROM's drivers, growing by 2 up to 5, 6 handles, another program's driver; 1 014 000 states | One driver per name, stubs forward, ports are whole, `drvrInfo` has room, the desk accessory is right, other drivers stay |

*Why these bounds.* A buffer of two bytes can be empty, partly full and full; a write of
three bytes needs two messages, so it is suspended, woken and completed in another
thread; incoming bytes exceed one message. Three drivers give two that enter themselves
into the table while a third is there. A knock of three sectors has a first, a middle and a last
sector, which is all that the matcher tells apart. Four entries leave the end mark that
the scan needs, as the seven of the code do for six drivers. In `control` a buffer of one
byte is enough for a read that finds it used up, half reset or refilled, and a write of two
bytes needs two messages; two reads at one driver give a request that can be completed in
another's place. In `loopback` a message of three bytes spans two blocks, and three writes of
three overfill the FIFO of eight if nobody reads. In `unit_table` the first
installation fills the table, so the first stub makes it grow, and memory runs out at each place.

*What the passing runs assume.* In `async_core` and `async_live` only one of the two
threads uses a driver for the first time (finding 2 is about the other case): the request
at interrupt level is made to `.Fuji`, which is entered at installation; in `control` both
drivers are entered. In `handshake` other programs read and write three sectors only, and
leave the first sector of the knock alone; that they leave one of them alone is what
`BothSidesAgree` needs (section 4), since a program that knocks in full arms the device again.
`loopback` begins after the handshake and has no other programs, and bytes go astray once at most.
Where a property holds only up to an event, a history variable says whether it has happened and
the property names it: `disturbed` in `handshake` (finding 5), `killed` (finding 3), `raced`,
`replyLost` and `status.torn` in `control`, `sys.wild` and `failed` in
`unit_table`, `dropped`, `losses`, `missed`, `torn` and `spanned` in `loopback`. All of
these events are reached. What they stand for is real and worth knowing:

* `raced`: a read is served between the two stores of `doOpen` that reset the read buffer,
  finds `srcLeft` below zero and moves the counters backwards (the request's count becomes
  negative, and it is never served again), or takes a byte that is delivered a second time; or a
  message that failed is sent again because `doOpen` clears the error before the buffer.
* `replyLost`: the Pico had taken the bytes of a reply from its FIFO when the transfer failed.
  `doOpen` clears the error but not what the reply before it announced (`readExtraAvail`), so
  SerGetBuf counts bytes that are gone until the next good reply.
* `sys.wild`: the inner `stubHndl` (`FujiSerialInit.c:228`) hides the outer one (216), which
  is uninitialized when the error path disposes of it.
* `spanned`: the Basic driver copies every block to the start of the caller's buffer.
* `missed`: SerGetBuf of the Basic driver ignores that its fetch failed and answers from what
  it knew, so the benchmark goes on writing while bytes wait, and the FIFO may overflow
  (`dropped`); and the bytes of a reply that was lost are missing from what it reads next.
* `torn`: the three reads of SerGetBuf (`FujiSerialAsync.c:601`) belong to different buffers. If an
  empty reply comes between the first two, bytes that were read before are answered once more:
  the answer is too large by up to one buffer, and the benchmark then waits in PBRead for bytes
  nobody sends. If other requests read meanwhile, the sum may also be too small by as much; below
  zero, `csParam[1]` keeps its low 16 bits, and the program sees nearly 65536 bytes.

*Fairness* (`async_live`). Interrupt level runs to its end (weak fairness): nothing
preempts it. Transfers end: the disk driver always calls the completion routine. The VBL
task runs: `vblCount` is rearmed at every call. The main program gets on although it is
preempted again and again, hence strong fairness for it. The device says
all it has to say, else a read may rightly wait. No fairness is asked of programs
making requests.

*Fairness* (`loopback`). As above for the VBL task and the transfers; a failed driver
tells the next request so; the benchmark and the echo program go on. A copy to or from the
buffers (`Accept`, `Take`) may find them busy again and again, hence strong fairness for it, and
for a SerGetBuf whose fetch does not fail: without it the benchmark waits for ever, which is what
an endless error means. No fairness is asked of failures. `BenchmarkEnds` names the cases in
which the benchmark waits for ever although all of this holds: bytes went astray or the FIFO
overflowed; a background transfer has failed, the time is up and SerGetBuf, which never reports
an error, answers 0 again and again (`AsksForEver`); or a read of a torn answer.

### Findings

1. `FujiSerialAsync.c:728`. Prime parks the request and then stores `ioInProgress` into
   its result. A wake up in between completes the request; the late store hides that from
   a synchronous caller for ever.
2. `FujiSerialAsync.c:303`. `getDriverInfo` is not protected at main level: two drivers
   used for the first time at once share an entry, and one request is lost.
3. `FujiSerialAsync.c:448`. KillIO leaves the suspended request in `pendingPb`: the next wake
   up serves a request that its owner has back, and completes another one with it.
4. `mac_ndev.h:184`. A sector that breaks a knock is not taken as the first of the next.
5. `mac_ndev.h:387`. The comparison of the magic sector has no effect: the write of any
   program that follows a knock is swallowed.

## 4. Proofs

All theorems hold for every value of the constants that satisfies the named assumptions of
the module: `RequestsAssumption`, `SentinelsAssumption`, `BoundsAssumption`, `TableAssumption`
(more entries than drivers) of `FujiSerialAsync`, `OpensAssumption`, `SectorsAssumption`,
`SizesAssumption` and `BlocksAssumption` of `MacNdev`, `HandshakeAssumption` and
`DeviceAssumption`, `NamesAssumption` and `SizesAssumption` of `FujiUnitTable`,
`LoopbackAssumption` and `RoomAssumption` of `FujiLoopback` (of the eight theorems about it only
`OnlyFailedFetchesOverflow` uses the second). TLC evaluates them in every run. A theorem that
needs more states it as a hypothesis; the tables name it, and it is explained below.

### Async driver

| Theorem | States | Hypothesis |
|---|---|---|
| `TypeCorrect` | `Spec => []TypeOK` | |
| `MutexIsExclusive` | `Spec => []VblMutexExcludes` | |
| `CountersStaySane` | `Spec => []SaneCounters` | |
| `ServedIsCompleted` | `Spec => []CompletesWhatItServed` | `FirstUseAtMain` |
| `NoLostWakeUp` | `Spec => []OldestIsKeptOnce` | `FirstUseAtMain` |
| `PortIsImplemented` | `Spec => ImplementsSerialPort` | `FirstUseAtMain` |
| `StatisticsAreExact` | `Spec => []StatsExact` | `FirstUseAtMain`, finitely many requests |

*Mutex and counters.* The inductive invariant is `IInv == TypeOK /\ LockInv /\ SaneCounters
/\ ArgsInv`. `OwnerInv`, in `LockInv`, adds to the exclusion what it rests on: only the
interrupt thread scans, and a wake up keeps interrupt level busy until its end. The rest of
`LockInv` is that `connResult` says in progress exactly while a transfer is. `ArgsInv`
says that a thread inside prime has a request and a driver, and so has every parked entry.
`SaneCounters` needs the exclusion (no copy while a message is in flight) and lemmas on how
much `bufferCopy` moves (`CopyCountBounds`, `CopyBounds`). `WorkInv` is the part of it that
says nothing of the buffers; it is kept apart because doOpen breaks the rest.

*Requests.* `OldestIsKeptOnce` alone is far from inductive: to know that the thread which
parks a request has it alone, one must know where all the others are. `KInv` says so:
`QueueInv` (a queue has requests of its driver, each once), `TableInv` (used entries come
first, a parked request is in its driver's entry), `FoundInv` (the entry that getDriverInfo
found stays the right one while prime fills it in), `EnteredInv` (interrupt level works only on
drivers in the table), `ServeInv` (a thread serves a request for the driver it was made to)
and `KeptOnce` (exactly the oldest requests are held, each by one thread, one entry or one
list of requests yet to start). The table's room comes from counting: entries in use have
different drivers, of which there are fewer than entries.

`FirstUseAtMain` says that whatever is requested at interrupt level goes to drivers which
are in the table from the start. Without it the theorems are false: two threads may
claim one entry (finding 2). Programs that use a port at main level first satisfy it, and so do
the values in `async_core` and `control`.

*Refinement.* `PortIsImplemented` takes the steps one by one: `Copy` of a read or a write,
`WriteDone`, `ReadDone`, `TransferFails`, `Feed`, issuing and `IODone` are steps of
`SerialPort`, and all others leave its variables alone. It needs two more invariants.
`ResultInv`: what prime returns is noErr only after all bytes were moved, and ioErr only after
a transfer has failed. `FillInv`: a reply is on its way only to an empty buffer.

*Statistics.* `StatsExact` fails if a request that was moved in full is primed once more, since
the totals grow whenever a copy completes its request. `FullInv` excludes that: such a request has
left its queue, or a thread is about to return noErr for it; with `KeptOnce` no other thread can
have it. The totals themselves are a recursive function of a set of requests, and what it computes
needs induction over finite sets. `SubsetInduction` gives it without the library's induction
theorems: were a subset not in a given *set* of subsets, one of them would have the fewest
members (`WFMin` on the naturals). With it the sum exists (`SumsExist`), does not depend on which
member is taken first (`SumOfAny`), and changes as a copy changes it (`TotalGrows`).

### Open, SerGetBuf and KillIO

| Theorem | States | Hypothesis |
|---|---|---|
| `ControlTypes` | `ControlSpec => []ControlTypeOK` | |
| `MutexSurvivesOpen` | `ControlSpec => []OpenKeepsMutex` | |
| `CountersSaneUnlessRaced` | `ControlSpec => []SaneUnlessRaced` | |
| `NoByteMovesTwice` | `ControlSpec => []BytesMoveAtMostOnce` | |
| `StatusTellsTruth` | `ControlSpec => []AnswerIsTrue` | |
| `OnlyKillIOMixes` | `ControlSpec => []OnlyKillIOMixesRequests` | `FirstUseAtMain` |

`OwnerInv` is still inductive here, because doOpen does not touch the mutex; that `connResult`
is in progress during a transfer is not, and nothing but doOpen's caller relies on it.
`OnlyKillIOMixes` carries `WorkInv /\ KInv` over doOpen and doStatus as long as `killed` is
empty. The other four rest on `MovesInv`, with these parts:

* `HeldInv`, `CallInv`: the types, and where doOpen and doStatus are (never in both);
* `BufferInv`, with `WriteSane`: the write buffer's counter stays in its buffer whatever is
  raced, because a message on its way carries what was counted or the counter is back at 0;
* `ReadInv`, until a race: the read buffer's counters are in their buffer except between
  doOpen's two resets, what is left in the buffer comes after all that was delivered, and
  what was delivered and is left is no more than was fetched;
* `WriteInv`, until a race: bytes of one request are in order in the buffer and in what was
  sent, and what counts in the buffer comes after what was sent of the same request. This is
  not true of the bytes of a message that failed (it may have arrived), which is why it is asked
  only while no error is pending and doOpen is not getting over one;
* `SumInv`, `SumBound`: doStatus's sum is what it would be now unless a counter changed; after a
  change it is, until a race, still put together from counters that were in the buffer;
* `LostInv`: what the last good reply announced beyond its own bytes is still in the device,
  unless a reply was lost since.

`StatusTellsTruth` bounds the answer by what can be read at that moment, the rest of the buffer and
what the device has not given away (`CanBeRead`), so bytes that `doOpen` discarded or that a failed
reply took with it do not count. When a counter changed between two of doStatus's reads, the sum
may miss that bound, or zero, by one buffer and no more. A race of `doOpen` and a lost reply are
excepted, each by its history.

TLC checked `MovesInv` on the 3 891 771 states of `control`.

### Pico, handshake and unit table

| Theorem | States | Hypothesis |
|---|---|---|
| `NdevTypeCorrect` | `Spec => [](TypeOK /\ FifoInv)` | |
| `UsbBytesStayInOrder` | `Spec => []UsbBytesInOrder` | |
| `AvailStaysTrue` | `Spec => []AvailIsTrue` | |
| `OnlyTheKnockArms` | `Spec => ArmedByKnockOnly` (an action property) | |
| `BothSidesAgree` | `Spec => []AgreeOnSector` | `KnockIsOurs` |
| `HandshakeTypes` | `Spec => []TypeOK` of `FujiHandshake` | `KnockIsOurs` |
| `OthersKeepTheirData` | `Spec => []OthersDataIntact` | `KnockIsOurs` |
| `TableTypeCorrect` | `Spec => []TypeOK` of `FujiUnitTable` | |
| `OneDriverOfAName` | `Spec => []NamesAreUnique` | |
| `StubsLeadToFuji` | `Spec => []StubsForward` | |
| `PortsStayWhole` | `Spec => []PortsAreWhole` | |
| `EndMarkStays` | `Spec => []DrvrInfoHasEndMark` | |
| `WhatIsShownStaysTrue` | `Spec => []WhatIsShownIsTrue` | |
| `OthersStay` | `Spec => OthersKeepUnits` (an action property) | |

*Pico.* `FifoInv` types the queues; `HeardInv` ties `mac_ndev_knock` to the accesses: its
value k means that the last k sectors were the first k of the knock. `KindsOfStep` reduces an
access to its effect on the queues (none, a message read, a message written).

*Handshake.* `AgreeInv(i)` is about a sector of the knock, the i-th, that only `fujiOpen`
accesses. While the Macintosh has a target, the Pico is in `magicSector` for that sector and has
heard less than i of a knock (`ReadyInv`); an answer was read only from a Pico that has just
agreed (`ReplyInv`); halfway through no knock is heard that others could complete
(`HalfWayInv`); and what the Pico agreed on for a Macintosh that forgot it cannot be taken
for a new answer (`ForgottenInv`). `KnockIsOurs` says that there is such a sector and that the
file does not begin at the last sector of the knock. Both are needed: programs that together
read all sectors of the knock (0, 70, 85, 74, 73) in a row arm the device again under the
driver, and if the file began at sector 73 the last knock would read the message sector. TLC
checked `AgreeInv` on the 642 373 states of `handshake`, and on 613 745 with the second of
the knock's sectors as the file's; with the last one it finds a violation of `AgreeOnSector`.
`IntactInv` says that what other programs wrote is on the disk while `disturbed` is false, and
that until then the Pico takes no sector but the file's for a message (`ForFile`). Other
programs may use the last sector of the knock, too: a read of it that arms the device is
harmless, and a write of it that does is one of the two events `disturbed` stands for. `HandshakeTypes` rests on the agreement, because the sector for the messages is read
from a block on the disk: if both sides had not agreed, it could be the byte count that begins a
message.

*Unit table.* `Good` is the conjunction of the types (`Systems`), `Unique`, `Clean` (only our
drivers have FujiNet data), `Forward` (each of them shares the data of a `.Fuji` in memory and
leads to its code) and `InfoInv` (`drvrInfo` names different drivers of ours). Each routine
has a lemma: whatever outcome it has, a good system is good again, and `Kept` what was
redirected, except after the error path with the uninitialized handle (`sys.wild`), where the
behaviour ends. The end mark follows by counting: different drivers with names of ours are
fewer than `InfoEntries`. `ShownInv` and `WholeInv` add what the desk accessory and the
callers remember.

### Loopback

| Theorem | States |
|---|---|
| `WayInvariant` | `Spec => []WayInv`, the invariant below |
| `WayTypes` | `Spec => []TypeOK` of `FujiLoopback` |
| `AnswerIsThere` | `Spec => []SerGetBufIsTrue` |
| `LineInvariant` | `Spec => [](OrderInv /\ LineInv)`, below |
| `NoByteOvertakes` | `Spec => []OnceAndInOrder` |
| `NoByteIsLost` | `Spec => []NothingLost` |
| `MismatchIsExplained` | `Spec => []MismatchExplained` |
| `OnlyFailedFetchesOverflow` | `Spec => []OverflowsOnFailedFetchOnly` |

All of them are about runs in which transfers fail at any moment and any number of times, replies
are lost with their bytes, and the echo program writes less than it read.

*Types and counts.* None of the types is inductive alone: a buffer stays within its array because
of what its neighbours hold. `WayInv` has four parts. `DeviceInv`: the buffers; the bytes that the
driver believes to be left in the Pico (`extra`) fit its FIFO, and they are there until bytes go
astray. `AskInv`: what doStatus has added up so far, which is what the driver holds unless a fetch
came between; after one it is too large by at most a buffer. `RequestInv`: how far the request in
hand has come, and that after a SerGetBuf the bytes it answered are in the driver's block, the FIFO
or USB, but for that buffer; this is `SerGetBufIsTrue`. `CountInv`: no more bytes are on their way
than the driver has accepted, and no fewer until some are lost. An access of the Pico is reduced to
its effect on the queues once for both configurations (`Popped`, `Sent`), since the handshake is
over and only the agreed sector is accessed (`Wired`). Each action has a lemma (`FlushKeeps`,
`FetchFailsKeeps`, ...) with one conclusion, `Kept`: the parts of `WayInv`, and how the line of
queues has changed.

*Order.* Written one after the other from the benchmark's back to the driver's outgoing buffer, the
queues are a line (`Way`). Every step takes a part out of it, which may be none, and adds the next
numbers at its end (`Passes`, `Counted`). A part may go anywhere in the middle: the bytes of a lost
reply, of a short write of the echo, or of a block that did not fit the FIFO. So the line stays
increasing (`OrderInv`, hence `NoByteOvertakes`); and it is 1, 2, 3 and so on without a gap as long
as nothing was lost (`LineInv`, hence `NoByteIsLost`). After an error the write buffer does not
belong to the line of `OrderInv` (`Sending`): the Pico may have its bytes already, and they are
never sent again.

*Comparison.* `ReadInv` adds what the benchmark's buffer holds: as far as it is filled, the bytes that
follow those checked, unless bytes were lost or the Basic driver served the request from two blocks.

*Room.* With blocking reads the benchmark waits for each message (`BlockingInv`), so what is on its
way is one message. With SerGetBuf it goes on writing while there is nothing to read, and nothing
in the code counts what it has written. Two invariants say why the FIFO has room nevertheless.
`AsyncRoom`: between requests (`IdleRoom`), while the driver knows of bytes to tell of, what it does not
know of is at most what the last write added (`Due`), and when it knows of none, the FIFO holds at
most a message; a read leaves at most one behind (`ReadRoom`). `BasicRoom`: a fetch makes the Basic
driver know of all, so what it does not know of is what was written since; this holds until a
fetch of its doStatus fails (`missed`), which is the one exception of the theorem. `FailInv` ties
the losses to the failures: where the Pico loops the bytes back, they go astray only with an error
that stops the asynchronous driver, ends the benchmark or was ignored by doStatus. TLC checked all
of these invariants on the states of `loopback`. `RoomAssumption` is tight: without it, with a FIFO
of 8, TLC finds an overflow for messages of 5.

### What stays model-checked

Liveness (`EveryRequestEnds`, `BenchmarkEnds`), since the provers do not reason about fairness or
ENABLED. Every invariant and every other property of a passing run is stated by a theorem.

## 5. Scope

Modelled, in this order: the asynchronous driver, the Pico, the handshake, installation and
redirection, the loopback from end to end with the Basic driver, and open, status and
KillIO of the asynchronous driver. Proved, in this order: the driver's mutex and counters, its
requests, its refinement of `SerialPort`, the Pico, the handshake, the unit table, the
driver with its other entry points, the loopback, and the statistics. Two extensions would be worth
having: an abstract pipe that may lose but not reorder, which `FujiLoopback` implements with `Way`
as the refinement mapping; and `FirstUseAtMain` weakened to what its theorems need, that no two
threads are in `getDriverInfo` for a first use at once.

### Not modelled

* Immediate reads and writes, and interrupts nested in interrupts: no program here uses the
  first, and nothing says which interrupts may use the drivers for the second.
* A change of the VBL interval (`setVBLFrequency`), and the drawing of indicators, dialogs
  and debug output.
* The Pico's disk protocol below `dcd_read` and `dcd_write`, and its UART configuration, whose
  blocking reads either return or hang.
* Moving a unit's queue when its driver is replaced by a stub while in use.
* `flushSerialInput` at the start of the benchmark: the FIFO is taken to be empty there. The
  remaining tests of the test application (`testSerialDriver`, the floppy tests, `TCPTests.c`)
  make single calls and print what they get.
* The MacTCP headers, which are third-party declarations.
