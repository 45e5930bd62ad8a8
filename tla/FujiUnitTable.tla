----------------------------- MODULE FujiUnitTable -----------------------------
(* Installation of the drivers in the system's unit table (FujiSerialInit.c),   *)
(* and those who ask for it: the desk accessory (FujiDeskAcc.c) and the test    *)
(* application (FujiTests.c), on a table that other programs use too.  Every    *)
(* allocation may fail.  A routine is an operator from the state of the system  *)
(* to the set of its outcomes; its callers run at main level, one at a time, so *)
(* that one action stands for a whole call.                                     *)
EXTENDS Integers, Sequences, FiniteSets, FiniteSetsExt

CONSTANTS
  Ports,        \* names of stubs, one sequence per port, in the order of installation
  TestPorts,    \* those the test application can redirect
  RomDrivers,   \* names of the drivers in ROM, by unit number
  OtherNames,   \* names of the drivers of other programs
  FirstFree,    \* lowest unit number to be used (48 in the code)
  FirstEntries, \* UnitNtryCnt at startup
  GrowBy,       \* entries added to a full table (4 in the code)
  MaxEntries,   \* bound: no memory for a larger table
  MaxHandles,   \* bound: no memory for more drivers and data
  InfoEntries   \* length of drvrInfo (7 in the code)

Fuji == ".Fuji"
PortNames(p) == Range(Ports[p])
FujiNames == {Fuji} \cup UNION {PortNames(p) : p \in DOMAIN Ports}

\* A port is an output driver and perhaps an input driver, and no other port's; ROM has
\* no .Fuji and no name twice.
ASSUME NamesAssumption ==
  /\ \A p \in DOMAIN Ports : Ports[p] \in Seq(STRING) /\ Len(Ports[p]) \in {1, 2}
  /\ \A p \in DOMAIN Ports : Fuji \notin PortNames(p)
  /\ \A p, q \in DOMAIN Ports : p # q => PortNames(p) \cap PortNames(q) = {}
  /\ \A u \in DOMAIN RomDrivers : RomDrivers[u] \in (FujiNames \ {Fuji}) \cup OtherNames
  /\ \A u, v \in DOMAIN RomDrivers : RomDrivers[u] = RomDrivers[v] => u = v
  /\ TestPorts \subseteq DOMAIN Ports
  /\ OtherNames \cap FujiNames = {} /\ "none" \notin OtherNames \cup FujiNames
\* drvrInfo is longer than the list of our names: seven entries for six.
ASSUME SizesAssumption ==
  /\ GrowBy \in Nat \ {0} /\ MaxEntries \in Nat /\ MaxHandles \in Nat
  /\ FirstEntries \in 1..MaxEntries /\ FirstFree \in 0..FirstEntries /\ DOMAIN RomDrivers \subseteq 0..(FirstFree - 1)
  /\ IsFiniteSet(FujiNames) /\ InfoEntries \in Nat /\ InfoEntries > Cardinality(FujiNames)

VARIABLES
  sys,     \* the system: see Init
  window,  \* the desk accessory is open
  button,  \* its buttons that are checked; HiliteControl disables those
  shown,   \* it says "Connected"
  failed   \* history: ports whose redirection returned an error

vars == <<sys, window, button, shown, failed>>

-------------------------------------------------------------------------------
(* The unit table.  driver, storage and forwards are handles, 0 for none of     *)
(* ours; forwards is what a stub keeps at drvrHndl.                             *)

Driver(name, h, storage, forwards) ==
  [name |-> name, driver |-> h, storage |-> storage, forwards |-> forwards]
Foreign(name) == Driver(name, 0, 0, 0)
Empty == Foreign("none")

NoUnit == -1

\* mutant: the last entry is not looked at.
FindUnitButLast(s, name) ==
  LET us == {u \in DOMAIN s.table : u # Max(DOMAIN s.table) /\ s.table[u].name = name}
  IN IF us = {} THEN NoUnit ELSE Min(us)
\* findUnitNumberByName
FindUnit(s, name) ==
  LET us == {u \in DOMAIN s.table : s.table[u].name = name}
  IN IF us = {} THEN NoUnit ELSE Min(us)

\* getSerialDataHndl finds data with the id 'FUJI'.
Redirected(s, name) == FindUnit(s, name) # NoUnit /\ s.table[FindUnit(s, name)].storage # 0
Installed(s) == Redirected(s, Fuji)
\* fujiReady
Connected(s) == Installed(s) /\ s.connected

-------------------------------------------------------------------------------
(* Outcomes: the system, an error or "noErr", and a handle or unit number       *)

Out(s, err, val) == [sys |-> s, err |-> err, val |-> val]
Ok(s) == Out(s, "noErr", 0)

\* Go on with F unless there was an error; handle an error with E.
Then(outs, F(_)) == UNION {IF o.err = "noErr" THEN F(o) ELSE {o} : o \in outs}
OnError(outs, E(_)) == UNION {IF o.err = "noErr" THEN {o} ELSE E(o) : o \in outs}

\* LoadDriverResource, and NewHandleSysClear of newFujiSerialDataHandle.
Allocate(s) ==
  LET free == (1..MaxHandles) \ s.live
  IN {Out(s, "memFullErr", 0)} \cup
     IF free = {} THEN {} ELSE {Out([s EXCEPT !.live = @ \cup {Min(free)}], "noErr", Min(free))}

\* mutant: the last of the old entries is not copied.
GrownButLast(s) ==
  [u \in 0..(Cardinality(DOMAIN s.table) + GrowBy - 1) |->
     IF u + 1 \in DOMAIN s.table THEN s.table[u] ELSE Empty]
\* The old table copied into a larger one.
Grown(s) ==
  [u \in 0..(Cardinality(DOMAIN s.table) + GrowBy - 1) |->
     IF u \in DOMAIN s.table THEN s.table[u] ELSE Empty]

\* findSpaceInUnitTable: the highest free entry, else the last of a larger table.
FindSpace(s) ==
  LET free == {u \in DOMAIN s.table : u >= FirstFree /\ s.table[u] = Empty}
      last == Max(DOMAIN Grown(s))
  IN IF free # {} THEN {Out(s, "noErr", Max(free))}
     ELSE {Out(s, "openErr", 0)} \cup
          IF last < MaxEntries THEN {Out([s EXCEPT !.table = Grown(s)], "noErr", last)} ELSE {}

\* installDCE: only a new DCE can fail.
InstallDCE(s, u, d) ==
  {Ok([s EXCEPT !.table[u] = d])} \cup
  IF s.table[u] = Empty THEN {Out(s, "memFullErr", 0)} ELSE {}

\* The error path of installStubDriver.  Its stubHndl is not the one that was
\* loaded but an uninitialized variable of the enclosing block: nothing is disposed
\* of, or any handle is.
DisposeStub(o) ==
  {o} \cup {[o EXCEPT !.sys.live = @ \ {h}, !.sys.wild = TRUE] : h \in o.sys.live}

\* installStubDriver: a driver of that name is replaced, whoever uses it.
InstallStub(s, name) ==
  LET main == s.table[FindUnit(s, Fuji)]
      install(stub) ==
        Then(IF FindUnit(s, name) # NoUnit THEN {Out(stub.sys, "noErr", FindUnit(s, name))}
                                           ELSE FindSpace(stub.sys),
             LAMBDA o : InstallDCE(o.sys, o.val, Driver(name, stub.val, main.storage, main.driver)))
  IN IF FindUnit(s, Fuji) = NoUnit THEN {Out(s, "notFound", 0)}
     ELSE OnError(Then(Allocate(s), install), DisposeStub)

\* mutant: the result of the second installation is not returned.
InstallStubsUnchecked(s, names) ==
  Then(InstallStub(s, names[1]),
       LAMBDA o : IF Len(names) = 1 THEN {o}
                  ELSE {Ok(r.sys) : r \in InstallStub(o.sys, names[2])})
\* installStubDrivers: the output driver and, if there is one, the input driver.
InstallStubs(s, names) ==
  Then(InstallStub(s, names[1]),
       LAMBDA o : IF Len(names) = 1 THEN {o} ELSE InstallStub(o.sys, names[2]))

\* mutant: it is not asked whether the driver is installed already.
InstallAgain(s) ==
  Then(Allocate(s), LAMBDA drvr : Then(Allocate(drvr.sys), LAMBDA data :
    Then(FindSpace(data.sys), LAMBDA o : InstallDCE(o.sys, o.val, Driver(Fuji, drvr.val, data.val, 0)))))
\* fujiSerialInstall.  Its error path disposes of the driver and the data.
Install(s) ==
  LET place(drvr, data) ==
        Then(FindSpace(data.sys), LAMBDA o :
          {Out([r.sys EXCEPT !.info = IF r.err = "noErr" THEN <<o.val>> ELSE @], r.err, r.val) :
             r \in InstallDCE(o.sys, o.val, Driver(Fuji, drvr.val, data.val, 0))})
      withData(drvr) == Then(Allocate(drvr.sys), LAMBDA data : place(drvr, data))
  IN IF Installed(s) THEN {Ok(s)}
     ELSE OnError(Then(Allocate(s), withData), LAMBDA o : {[o EXCEPT !.sys.live = s.live]})

\* fujiOpen (FujiHandshake): there is no device, or there is one, and OpenDriver
\* succeeds or fails.
FujiOpen(s) ==
  LET found == [s EXCEPT !.connected = TRUE]
  IN {Out(s, "noDevice", 0), Out(found, "openErr", 0), Ok(found)}

\* fujiSerialOpen
SerialOpen(s) == Then(Install(s), LAMBDA o : FujiOpen(o.sys))

-------------------------------------------------------------------------------
(* The desk accessory *)

Init ==
  /\ \E rom \in SUBSET DOMAIN RomDrivers :
       sys = [table |-> [u \in 0..(FirstEntries - 1) |->
                           IF u \in rom THEN Foreign(RomDrivers[u]) ELSE Empty],
              live |-> {},          \* handles in use
              wild |-> FALSE,       \* one was disposed of that nobody named
              connected |-> FALSE,  \* conn.iopb has a driver
              info |-> <<>>]        \* unit numbers in drvrInfo
  /\ window = FALSE /\ button = {} /\ shown = FALSE /\ failed = {}

\* mutant: a button stays checked because it was clicked.
ButtonsClicked(s, p) ==
  {q \in DOMAIN Ports : q = p \/ Redirected(s, Ports[q][1])}
\* updateButtonState, which looks at the output driver only.
Buttons(s, p) == {q \in DOMAIN Ports : Redirected(s, Ports[q][1])}

\* doOpen, also when it is open already: the result of fujiSerialOpen is ignored.
DAOpen ==
  /\ \E o \in SerialOpen(sys) : sys' = o.sys
  /\ window' = TRUE /\ button' = Buttons(sys', 0)
  /\ UNCHANGED <<shown, failed>>

Redirect(p) ==
  \E o \in InstallStubs(sys, Ports[p]) :
    /\ sys' = o.sys
    /\ failed' = (IF o.err = "noErr" THEN failed ELSE failed \cup {p})

\* doEvent: a button that is not disabled is clicked.
DAClick(p) ==
  /\ window /\ p \notin button
  /\ Redirect(p) /\ button' = Buttons(sys', p)
  /\ UNCHANGED <<window, shown>>

\* doRun
DARun ==
  /\ window
  /\ shown' = Connected(sys)
  /\ UNCHANGED <<sys, window, button, failed>>

\* doClose.  (When doOpen gets no window, it closes too, and nothing changes.)
DAClose ==
  /\ window /\ window' = FALSE
  /\ UNCHANGED <<sys, button, shown, failed>>

-------------------------------------------------------------------------------
(* The test application, other programs *)

\* The desk accessory does not look.
Quietly == UNCHANGED <<window, button, shown, failed>>

TestOpen ==
  /\ \E o \in SerialOpen(sys) : sys' = o.sys
  /\ Quietly

\* drvrChoice does not ask whether the port is redirected already.
TestRedirect(p) == Redirect(p) /\ UNCHANGED <<window, button, shown>>

\* mutant: the reference number, the complement of the unit number, is entered.
PrimeByRefNum(u) ==
  /\ sys.table[u].storage # 0 /\ u \notin Range(sys.info)
  /\ sys' = [sys EXCEPT !.info = Append(@, -u - 1)]
  /\ Quietly
\* getDriverInfo: a driver's first request enters its number in the table.
Prime(u) ==
  /\ sys.table[u].storage # 0 /\ u \notin Range(sys.info)
  /\ sys' = [sys EXCEPT !.info = Append(@, u)]
  /\ Quietly

\* Another program installs its driver where it finds space, or takes it out.
OtherInstalls(name) ==
  /\ FindUnit(sys, name) = NoUnit
  /\ \E o \in FindSpace(sys) :
       /\ o.err = "noErr"
       /\ sys' = [o.sys EXCEPT !.table[o.val] = Foreign(name)]
  /\ Quietly

OtherRemoves(name) ==
  /\ FindUnit(sys, name) # NoUnit
  /\ sys' = [sys EXCEPT !.table[FindUnit(sys, name)] = Empty]
  /\ Quietly

\* After a wild DisposHandle nothing can be said any more.
Next ==
  /\ ~sys.wild
  /\ \/ DAOpen \/ DARun \/ DAClose \/ TestOpen
     \/ \E p \in DOMAIN Ports : DAClick(p)
     \/ \E p \in TestPorts : TestRedirect(p)
     \/ \E u \in DOMAIN sys.table : Prime(u)
     \/ \E n \in OtherNames : OtherInstalls(n) \/ OtherRemoves(n)

Spec == Init /\ [][Next]_vars

-------------------------------------------------------------------------------
(* Properties *)

\* Types.  The table is one block of entries, and drvrInfo names units in it.
TypeOK ==
  /\ DOMAIN sys.table = 0..(Cardinality(DOMAIN sys.table) - 1)
  /\ Cardinality(DOMAIN sys.table) \in FirstEntries..MaxEntries
  /\ \A u \in DOMAIN sys.table :
       /\ sys.table[u].name \in FujiNames \cup OtherNames \cup {"none"}
       /\ {sys.table[u].driver, sys.table[u].storage, sys.table[u].forwards} \subseteq 0..MaxHandles
  /\ sys.live \subseteq 1..MaxHandles /\ Range(sys.info) \subseteq DOMAIN sys.table
  /\ window \in BOOLEAN /\ button \subseteq DOMAIN Ports /\ failed \subseteq DOMAIN Ports

\* No name is in the table twice, however often a port is redirected, also after the
\* table has grown: the name a program opens leads to one driver.
\* (findUnitNumberByName before findSpaceInUnitTable.)
NamesAreUnique ==
  \A u, v \in DOMAIN sys.table : sys.table[u].name = sys.table[v].name => u = v \/ sys.table[u] = Empty

\* "a stub driver that forwards requests to the main FujiNet driver": every driver
\* with FujiNet data is in memory, has the data of .Fuji and leads to .Fuji's code,
\* whatever failed before; until an error path has disposed of a handle at random.
\* (installStubDriver, fujiSerialInstall.)
StubsForward ==
  ~sys.wild => \A u \in DOMAIN sys.table :
    sys.table[u].storage # 0 =>
      LET main == sys.table[FindUnit(sys, Fuji)]
      IN /\ FindUnit(sys, Fuji) # NoUnit
         /\ {sys.table[u].driver, main.driver, main.storage} \subseteq sys.live
         /\ sys.table[u].storage = main.storage
         /\ sys.table[u].name # Fuji => sys.table[u].forwards = main.driver

\* A port whose output driver is redirected, which is all that isFujiModemRedirected
\* and its like look at, has its input driver redirected too, unless an error was
\* returned.  (installStubDrivers.)
PortsAreWhole ==
  \A p \in DOMAIN Ports :
    Redirected(sys, Ports[p][1]) /\ p \notin failed => \A n \in PortNames(p) : Redirected(sys, n)

\* drvrInfo keeps an entry free, which ends the walks of getDriverInfo and of the
\* wake up, however often ports are redirected and whoever uses the drivers.  (The
\* assumption of FujiSerialAsync on its table.)
DrvrInfoHasEndMark == Len(sys.info) < InfoEntries

\* What the desk accessory shows stays true though others install and redirect
\* meanwhile: a checked button is a redirected port, "Connected" a connection.
\* (updateButtonState, doRun.)
WhatIsShownIsTrue ==
  window => /\ \A p \in button : Redirected(sys, Ports[p][1])
            /\ shown => Connected(sys)

\* The entries of other programs stay where they are and as they are until their
\* owner removes them, though the table moves.  (findSpaceInUnitTable, installDCE.)
OthersKeepUnits ==
  [][ \A u \in DOMAIN sys.table :
        sys.table[u].name \in OtherNames =>
          \/ u \in DOMAIN sys'.table /\ sys'.table[u] = sys.table[u]
          \/ OtherRemoves(sys.table[u].name) ]_vars

===============================================================================
