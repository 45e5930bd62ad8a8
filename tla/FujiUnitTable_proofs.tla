-------------------------- MODULE FujiUnitTable_proofs --------------------------
(* Proofs about the installation of the drivers for any ports, any table and any *)
(* amount of memory: whatever allocation fails, in whatever order the desk       *)
(* accessory and the test application install and redirect, and whatever other   *)
(* programs do with the table meanwhile.                                         *)
EXTENDS FujiUnitTable, FiniteSetTheorems, FunctionTheorems, WellFoundedInduction, TLAPS

Names   == FujiNames \cup OtherNames \cup {"none"}
Handles == 1..MaxHandles
Entries == [name : Names, driver : 0..MaxHandles, storage : 0..MaxHandles, forwards : 0..MaxHandles]
Tables  == UNION {[0..(n - 1) -> Entries] : n \in FirstEntries..MaxEntries}
Systems == [table : Tables, live : SUBSET Handles, wild : BOOLEAN, connected : BOOLEAN,
            info : Seq(0..(MaxEntries - 1))]

-------------------------------------------------------------------------------
(* Sets of numbers *)

\* A set of natural numbers has a least one.
LEMMA LeastOf ==
  ASSUME NEW S \in SUBSET Nat, S # {}
  PROVE  \E x \in S : \A y \in S : x =< y
<1>1. ASSUME NEW R, IsWellFoundedOn(R, Nat), \A x, y \in Nat : y < x => <<y, x>> \in R
      PROVE  \E x \in S : \A y \in S : x =< y
  <2>1. PICK x \in S : \A y \in S : ~(<<y, x>> \in R)
    BY <1>1, WFMin
  <2>2. ASSUME NEW y \in S PROVE x =< y
    <3>1. x \in Nat /\ y \in Nat /\ ~(<<y, x>> \in R)
      BY <2>1
    <3>2. ~(y < x)
      BY <1>1, <3>1
    <3> QED
      BY <3>1, <3>2
  <2> QED
    BY <2>2
<1>2. \A x, y \in Nat : y < x => <<y, x>> \in OpToRel(<, Nat)
  BY DEF OpToRel
<1> QED
  BY <1>1, <1>2, NatLessThanWellFounded

LEMMA MinIsIn ==
  ASSUME NEW S \in SUBSET Nat, S # {}
  PROVE  Min(S) \in S
BY LeastOf DEF Min

\* A bounded one has a greatest.
LEMMA MaxIsIn ==
  ASSUME NEW n \in Nat, NEW S \in SUBSET (0..n), S # {}
  PROVE  Max(S) \in S /\ \A y \in S : Max(S) >= y
<1> DEFINE T == {x \in 0..n : n - x \in S}
<1>1. \A y \in S : n - y \in T
  <2> SUFFICES ASSUME NEW y \in S PROVE n - y \in T
    OBVIOUS
  <2>1. y \in 0..n /\ n - y \in 0..n /\ n - (n - y) = y
    OBVIOUS
  <2> QED
    BY <2>1
<1>2. PICK m \in T : \A y \in T : m =< y
  <2>1. T \subseteq Nat
    OBVIOUS
  <2>2. T # {}
    <3>1. PICK y \in S : TRUE
      OBVIOUS
    <3>2. n - y \in T
      BY <1>1
    <3> QED
      BY <3>2
  <2> HIDE DEF T
  <2> QED
    BY <2>1, <2>2, LeastOf
<1>3. n - m \in S /\ \A y \in S : n - m >= y
  BY <1>1, <1>2
<1> QED
  BY <1>3 DEF Max

-------------------------------------------------------------------------------
(* Tables *)

\* The table is one block of entries.
LEMMA TableIs ==
  ASSUME NEW t \in Tables
  PROVE  \E n \in FirstEntries..MaxEntries :
           t \in [0..(n - 1) -> Entries] /\ Cardinality(DOMAIN t) = n /\ n \in Nat \ {0}
<1>1. PICK n \in FirstEntries..MaxEntries : t \in [0..(n - 1) -> Entries]
  BY DEF Tables
<1>2. n \in Nat \ {0} /\ n - 1 \in Int
  BY SizesAssumption
<1>3. Cardinality(0..(n - 1)) = n
  BY <1>2, FS_Interval
<1> QED
  BY <1>1, <1>2, <1>3

\* A unit that is found has the name that was looked for; else there is none.
LEMMA FindUnitIs ==
  ASSUME NEW s, s.table \in Tables, NEW name
  PROVE  /\ FindUnit(s, name) # NoUnit =>
              FindUnit(s, name) \in DOMAIN s.table /\ s.table[FindUnit(s, name)].name = name
         /\ FindUnit(s, name) = NoUnit => \A u \in DOMAIN s.table : s.table[u].name # name
<1> DEFINE us == {u \in DOMAIN s.table : s.table[u].name = name}
<1>1. us \in SUBSET Nat
  BY TableIs
<1>2. FindUnit(s, name) = IF us = {} THEN NoUnit ELSE Min(us)
  BY DEF FindUnit
<1>3. us # {} => Min(us) \in us
  <2> HIDE DEF us
  <2> QED
    BY <1>1, MinIsIn
<1>4. -1 \notin us
  BY <1>1
<1> QED
  BY <1>2, <1>3, <1>4 DEF NoUnit

\* A table g is t with free entries added, or t itself.
Larger(t, g) ==
  /\ g \in Tables /\ DOMAIN t \subseteq DOMAIN g
  /\ \A u \in DOMAIN g : g[u] = IF u \in DOMAIN t THEN t[u] ELSE Empty

\* It is t or a larger one with the driver d at u, where a driver of the same name was
\* or, when there was none, nothing.
Places(t, g, u, d) ==
  \E x \in Tables :
    /\ Larger(t, x) /\ u \in DOMAIN x /\ g = [x EXCEPT ![u] = d]
    /\ \/ x[u].name = d.name
       \/ x[u] = Empty /\ \A v \in DOMAIN x : x[v].name # d.name

LEMMA NamesAre ==
  /\ Fuji \in FujiNames /\ Fuji # "none" /\ "none" \notin FujiNames /\ "none" \notin OtherNames
  /\ \A n \in OtherNames : n \notin FujiNames
<1>1. Fuji \in FujiNames
  BY DEF FujiNames
<1> QED
  BY <1>1, NamesAssumption

LEMMA EmptyIs == Empty \in Entries /\ Empty.name = "none" /\ Empty.storage = 0
BY SizesAssumption DEF Empty, Foreign, Driver, Entries, Names

\* The table grows by free entries at its end, and none of the old ones is lost.
LEMMA GrownIs ==
  ASSUME NEW s, s.table \in Tables, Max(DOMAIN Grown(s)) < MaxEntries
  PROVE  /\ Larger(s.table, Grown(s)) /\ Max(DOMAIN Grown(s)) \in DOMAIN Grown(s)
         /\ Grown(s)[Max(DOMAIN Grown(s))] = Empty
<1>1. PICK n \in FirstEntries..MaxEntries :
        s.table \in [0..(n - 1) -> Entries] /\ Cardinality(DOMAIN s.table) = n /\ n \in Nat \ {0}
  BY TableIs
<1>2. /\ Grown(s) = [u \in 0..(n + GrowBy - 1) |-> IF u \in 0..(n - 1) THEN s.table[u] ELSE Empty]
      /\ DOMAIN Grown(s) = 0..(n + GrowBy - 1)
  BY <1>1 DEF Grown
<1>3. n + GrowBy - 1 \in Nat /\ GrowBy \in Nat \ {0} /\ MaxEntries \in Nat /\ FirstEntries \in Nat
  BY <1>1, SizesAssumption
<1> DEFINE l == n + GrowBy - 1
<1>4. Max(0..l) \in 0..l /\ Max(0..l) >= l
  <2>1. l \in 0..l /\ l \in Nat
    BY <1>3
  <2> HIDE DEF l
  <2> QED
    BY <2>1, MaxIsIn, 0..l \subseteq 0..l, 0..l # {}
<1>5. Max(DOMAIN Grown(s)) = l /\ l < MaxEntries
  BY <1>2, <1>3, <1>4
<1>6. Grown(s) \in [0..l -> Entries]
  BY <1>1, <1>2, EmptyIs
<1>7. n + GrowBy \in FirstEntries..MaxEntries /\ (n + GrowBy) - 1 = l
  BY <1>1, <1>3, <1>5
<1>8. Grown(s) \in Tables
  BY <1>6, <1>7 DEF Tables
<1> QED
  BY <1>1, <1>2, <1>3, <1>5, <1>8 DEF Larger

\* A free entry is found at the end of nothing but free ones, or in a larger table.
LEMMA FindSpaceIs ==
  ASSUME NEW s \in Systems, NEW o \in FindSpace(s)
  PROVE  \/ o = Out(s, "openErr", 0)
         \/ \E x \in Tables, u \in Nat :
              /\ Larger(s.table, x) /\ u \in DOMAIN x /\ x[u] = Empty
              /\ o = Out([s EXCEPT !.table = x], "noErr", u)
<1> DEFINE free == {u \in DOMAIN s.table : u >= FirstFree /\ s.table[u] = Empty}
<1> DEFINE last == Max(DOMAIN Grown(s))
<1>1. PICK n \in FirstEntries..MaxEntries :
        s.table \in [0..(n - 1) -> Entries] /\ Cardinality(DOMAIN s.table) = n /\ n \in Nat \ {0}
  BY TableIs DEF Systems
<1>2. s.table \in Tables /\ s = [s EXCEPT !.table = s.table] /\ Larger(s.table, s.table)
  BY <1>1 DEF Systems, Tables, Larger
<1>3. CASE free # {}
  <2>1. free \subseteq 0..(n - 1) /\ n - 1 \in Nat
    BY <1>1
  <2>2. PICK m \in free : m = Max(free)
    <3> HIDE DEF free
    <3> QED
      BY <1>3, <2>1, MaxIsIn
  <2>3. o = Out(s, "noErr", m)
    BY <1>3, <2>2 DEF FindSpace
  <2>4. o = Out([s EXCEPT !.table = s.table], "noErr", m)
    BY <1>2, <2>3
  <2>5. m \in Nat /\ m \in DOMAIN s.table /\ s.table[m] = Empty
    BY <2>1, <2>2
  <2> HIDE DEF free
  <2> QED
    BY <1>2, <2>4, <2>5
<1>4. CASE free = {} /\ last < MaxEntries /\ o = Out([s EXCEPT !.table = Grown(s)], "noErr", last)
  <2>1. Larger(s.table, Grown(s)) /\ last \in DOMAIN Grown(s) /\ Grown(s)[last] = Empty
    BY <1>2, <1>4, GrownIs
  <2>2. Grown(s) \in Tables /\ last \in Nat
    BY <2>1, TableIs DEF Larger
  <2> QED
    BY <1>4, <2>1, <2>2
<1> QED
  BY <1>3, <1>4 DEF FindSpace

\* A handle that was not in use, or no memory.
LEMMA AllocateIs ==
  ASSUME NEW s \in Systems, NEW o \in Allocate(s)
  PROVE  \/ o = Out(s, "memFullErr", 0)
         \/ \E h \in Handles \ s.live : o = Out([s EXCEPT !.live = @ \cup {h}], "noErr", h)
<1> DEFINE free == (1..MaxHandles) \ s.live
<1>1. CASE free # {}
  <2>1. free \in SUBSET Nat
    OBVIOUS
  <2>2. Min(free) \in free
    <3> HIDE DEF free
    <3> QED
      BY <1>1, <2>1, MinIsIn
  <2> QED
    BY <1>1, <2>2 DEF Allocate, Handles
<1> QED
  BY <1>1 DEF Allocate

-------------------------------------------------------------------------------
(* What every routine keeps true of the system                                  *)

Unique(s) ==
  \A u, v \in DOMAIN s.table : s.table[u].name = s.table[v].name => u = v \/ s.table[u] = Empty

\* Only drivers of ours have FujiNet data, and .Fuji always has it.
Clean(s) ==
  \A u \in DOMAIN s.table :
    /\ s.table[u].name = "none" => s.table[u] = Empty
    /\ s.table[u].storage # 0 => s.table[u].name \in FujiNames
    /\ s.table[u].name = Fuji => s.table[u].storage # 0

\* The driver d is in memory, shares the data of main and leads to its code.
LeadsTo(s, d, main) ==
  /\ main.name = Fuji
  /\ {d.driver, main.driver, main.storage} \subseteq s.live
  /\ d.storage = main.storage
  /\ d.name # Fuji => d.forwards = main.driver

Forward(s) ==
  ~s.wild => \A u \in DOMAIN s.table :
    s.table[u].storage # 0 => \E m \in DOMAIN s.table : LeadsTo(s, s.table[u], s.table[m])

\* drvrInfo names different units, and drivers with FujiNet data.
InfoInv(s) ==
  /\ \A i \in 1..Len(s.info) : s.info[i] \in DOMAIN s.table /\ s.table[s.info[i]].storage # 0
  /\ \A i, j \in 1..Len(s.info) : s.info[i] = s.info[j] => i = j

Good(s) == s \in Systems /\ Unique(s) /\ Clean(s) /\ Forward(s) /\ InfoInv(s)

\* From s to t: nobody who has FujiNet data loses it, those named in ns may get it,
\* and a connection stays.
Kept(s, t, ns) ==
  /\ DOMAIN s.table \subseteq DOMAIN t.table
  /\ \A u \in DOMAIN s.table : s.table[u].storage # 0 =>
       t.table[u].storage # 0 /\ t.table[u].name = s.table[u].name
  /\ \A u \in DOMAIN t.table : t.table[u].storage # 0 =>
       \/ t.table[u].name \in ns
       \/ u \in DOMAIN s.table /\ s.table[u].storage # 0 /\ s.table[u].name = t.table[u].name
  /\ s.connected => t.connected

\* The entries of other programs are not touched.
Spared(s, t) ==
  \A u \in DOMAIN s.table : s.table[u].name \in OtherNames =>
    u \in DOMAIN t.table /\ t.table[u] = s.table[u]

LEMMA KeptTransitive ==
  ASSUME NEW s, NEW t, NEW r, NEW ns, NEW ms, Kept(s, t, ns), Kept(t, r, ms),
         Spared(s, t), Spared(t, r)
  PROVE  Kept(s, r, ns \cup ms) /\ Spared(s, r)
BY DEF Kept, Spared

\* A name is redirected when a driver of that name has FujiNet data.
LEMMA RedirectedIs ==
  ASSUME NEW s, Good(s), NEW name \in FujiNames
  PROVE  Redirected(s, name) <=>
           \E u \in DOMAIN s.table : s.table[u].name = name /\ s.table[u].storage # 0
<1>1. s.table \in Tables /\ Unique(s)
  BY DEF Good, Systems
<1>2. Empty.name = "none" /\ name # "none"
  BY EmptyIs, NamesAssumption
<1> QED
  BY <1>1, <1>2, FindUnitIs DEF Redirected, Unique

\* So it stays redirected, and a name that was not asked for is not.
LEMMA StaysRedirected ==
  ASSUME NEW s, NEW t, NEW ns, Good(s), Good(t), Kept(s, t, ns), NEW name \in FujiNames
  PROVE  /\ Redirected(s, name) => Redirected(t, name)
         /\ name \notin ns => (Redirected(t, name) => Redirected(s, name))
<1>1. Redirected(s, name) <=> \E u \in DOMAIN s.table : s.table[u].name = name /\ s.table[u].storage # 0
  BY RedirectedIs
<1>2. Redirected(t, name) <=> \E u \in DOMAIN t.table : t.table[u].name = name /\ t.table[u].storage # 0
  BY RedirectedIs
<1> QED
  BY <1>1, <1>2 DEF Kept

\* The units of drivers with FujiNet data are found by their names.
LEMMA FoundByName ==
  ASSUME NEW s, s.table \in Tables, Unique(s), NEW name, name # "none",
         NEW u \in DOMAIN s.table, s.table[u].name = name
  PROVE  FindUnit(s, name) = u
<1>1. Empty.name = "none"
  BY EmptyIs
<1> QED
  BY <1>1, FindUnitIs DEF Unique

-------------------------------------------------------------------------------
(* A step that only gets memory, and one that puts a driver in the table          *)

Grew(s, t) ==
  /\ t \in Systems /\ Larger(s.table, t.table) /\ t.info = s.info
  /\ s.connected => t.connected
  /\ ~t.wild => s.live \subseteq t.live

\* A table with free entries only has room for more, and nothing else changes.
LEMMA GrewIsGood ==
  ASSUME NEW s, NEW t, Good(s), ~s.wild, Grew(s, t)
  PROVE  Good(t) /\ Kept(s, t, {}) /\ Spared(s, t)
<1>1. /\ Empty.name = "none" /\ Empty.storage = 0 /\ Fuji # "none" /\ "none" \notin OtherNames
      /\ "none" \notin FujiNames
  BY EmptyIs, NamesAre
<1>2. /\ DOMAIN s.table \subseteq DOMAIN t.table
      /\ \A u \in DOMAIN t.table : t.table[u] = IF u \in DOMAIN s.table THEN s.table[u] ELSE Empty
  BY DEF Grew, Larger
<1>3. Unique(t)
  BY <1>1, <1>2 DEF Good, Unique, Clean
<1>4. Clean(t)
  BY <1>1, <1>2 DEF Good, Clean
<1>5. Forward(t)
  <2> SUFFICES ASSUME ~t.wild, NEW u \in DOMAIN t.table, t.table[u].storage # 0
               PROVE  \E m \in DOMAIN t.table : LeadsTo(t, t.table[u], t.table[m])
    BY DEF Forward
  <2>1. u \in DOMAIN s.table /\ t.table[u] = s.table[u]
    BY <1>1, <1>2
  <2>2. PICK m \in DOMAIN s.table : LeadsTo(s, s.table[u], s.table[m])
    BY <2>1 DEF Good, Forward
  <2> QED
    BY <1>2, <2>1, <2>2 DEF Grew, LeadsTo
<1>6. InfoInv(t)
  BY <1>2 DEF Good, InfoInv, Grew
<1>7. Kept(s, t, {}) /\ Spared(s, t)
  BY <1>1, <1>2 DEF Grew, Kept, Spared
<1> QED
  BY <1>3, <1>4, <1>5, <1>6, <1>7 DEF Good, Grew

Puts(s, t, u, d) ==
  /\ t \in Systems /\ t.wild = s.wild /\ s.live \subseteq t.live
  /\ s.connected => t.connected
  /\ \E x \in Tables :
       /\ Larger(s.table, x) /\ u \in DOMAIN x /\ t.table = [x EXCEPT ![u] = d]
       /\ \/ x[u].name = d.name
          \/ x[u] = Empty /\ \A v \in DOMAIN s.table : s.table[v].name # d.name

\* What is in the table then, entry by entry.
LEMMA PutsIs ==
  ASSUME NEW s, NEW t, NEW u, NEW d, Good(s), Puts(s, t, u, d), d.name # "none"
  PROVE  /\ u \in DOMAIN t.table /\ t.table[u] = d /\ DOMAIN s.table \subseteq DOMAIN t.table
         /\ \A v \in DOMAIN t.table : v # u =>
              t.table[v] = IF v \in DOMAIN s.table THEN s.table[v] ELSE Empty
         /\ \A v \in DOMAIN s.table : s.table[v].name = d.name => v = u
         /\ u \in DOMAIN s.table => s.table[u].name \in {d.name, "none"} /\ 
              (s.table[u].name = "none" => s.table[u] = Empty)
<1>1. PICK x \in Tables :
        /\ Larger(s.table, x) /\ u \in DOMAIN x /\ t.table = [x EXCEPT ![u] = d]
        /\ \/ x[u].name = d.name
           \/ x[u] = Empty /\ \A v \in DOMAIN s.table : s.table[v].name # d.name
  BY DEF Puts
<1>2. /\ DOMAIN s.table \subseteq DOMAIN x /\ DOMAIN t.table = DOMAIN x
      /\ \A v \in DOMAIN x : x[v] = IF v \in DOMAIN s.table THEN s.table[v] ELSE Empty
      /\ t.table[u] = d /\ \A v \in DOMAIN x : v # u => t.table[v] = x[v]
  <2>1. PICK n \in FirstEntries..MaxEntries : x \in [0..(n - 1) -> Entries]
    BY DEF Tables
  <2> QED
    BY <1>1, <2>1 DEF Larger
<1>3. Empty.name = "none"
  BY EmptyIs
<1> QED
  BY <1>1, <1>2, <1>3 DEF Good, Unique, Clean

\* The names stay unique, and nobody else's entry is touched.
LEMMA PutsIsGood ==
  ASSUME NEW s, NEW t, NEW u, NEW d, Good(s), Puts(s, t, u, d),
         d.name \in FujiNames, d.storage # 0
  PROVE  Unique(t) /\ Clean(t) /\ Kept(s, t, {d.name}) /\ Spared(s, t)
<1>1. /\ d.name # "none" /\ d.name \notin OtherNames /\ Empty.name = "none" /\ Empty.storage = 0
      /\ "none" \notin OtherNames /\ Fuji # "none"
  BY NamesAre, EmptyIs
<1>2. /\ u \in DOMAIN t.table /\ t.table[u] = d /\ DOMAIN s.table \subseteq DOMAIN t.table
      /\ \A v \in DOMAIN t.table : v # u =>
           t.table[v] = IF v \in DOMAIN s.table THEN s.table[v] ELSE Empty
      /\ \A v \in DOMAIN s.table : s.table[v].name = d.name => v = u
      /\ u \in DOMAIN s.table => s.table[u].name \in {d.name, "none"} /\ 
           (s.table[u].name = "none" => s.table[u] = Empty)
  BY <1>1, PutsIs
<1>3. Unique(t)
  BY <1>1, <1>2 DEF Good, Unique, Clean
<1>4. Clean(t)
  BY <1>1, <1>2 DEF Good, Clean
<1>5. Kept(s, t, {d.name}) /\ Spared(s, t)
  BY <1>1, <1>2 DEF Puts, Kept, Spared
<1> QED
  BY <1>3, <1>4, <1>5

\* A stub of .Fuji's.
LEMMA StubIsGood ==
  ASSUME NEW s, NEW t, NEW u, NEW h \in Handles, NEW m \in DOMAIN s.table, NEW name \in FujiNames \ {Fuji},
         Good(s), ~s.wild, s.table[m].name = Fuji, h \in t.live, t.info = s.info,
         Puts(s, t, u, Driver(name, h, s.table[m].storage, s.table[m].driver))
  PROVE  Good(t) /\ Kept(s, t, {name}) /\ Spared(s, t) /\ Redirected(t, name)
<1> DEFINE main == s.table[m]
<1> DEFINE d == Driver(name, h, main.storage, main.driver)
<1> HIDE DEF d
<1>0. Puts(s, t, u, d)
  BY DEF d
<1>1. d.name = name /\ d.driver = h /\ d.storage = main.storage /\ d.forwards = main.driver
  BY DEF Driver, d
<1>2. main.storage # 0
  BY DEF Good, Clean
<1>3. PICK m2 \in DOMAIN s.table : LeadsTo(s, main, s.table[m2])
  BY <1>2 DEF Good, Forward
<1>4. m2 = m
  BY <1>3, NamesAre, EmptyIs DEF Good, Unique, LeadsTo
<1>5. Unique(t) /\ Clean(t) /\ Kept(s, t, {name}) /\ Spared(s, t)
  BY <1>0, <1>1, <1>2, PutsIsGood
<1>6. /\ u \in DOMAIN t.table /\ t.table[u] = d /\ DOMAIN s.table \subseteq DOMAIN t.table
      /\ \A v \in DOMAIN t.table : v # u =>
           t.table[v] = IF v \in DOMAIN s.table THEN s.table[v] ELSE Empty
      /\ u \in DOMAIN s.table => s.table[u].name \in {name, "none"}
  BY <1>0, <1>1, PutsIs, NamesAre
<1>7. m \in DOMAIN t.table /\ t.table[m] = main /\ s.live \subseteq t.live
  BY <1>6, NamesAre DEF Puts
<1>8. Forward(t)
  <2> SUFFICES ASSUME NEW v \in DOMAIN t.table, t.table[v].storage # 0
               PROVE  \E k \in DOMAIN t.table : LeadsTo(t, t.table[v], t.table[k])
    BY DEF Forward
  <2>1. CASE v = u
    <3>1. LeadsTo(t, d, main)
      BY <1>1, <1>3, <1>4, <1>7 DEF LeadsTo
    <3> QED
      BY <1>6, <1>7, <2>1, <3>1
  <2>2. CASE v # u
    <3>1. v \in DOMAIN s.table /\ t.table[v] = s.table[v]
      BY <1>6, <2>2, EmptyIs
    <3>2. PICK k \in DOMAIN s.table : LeadsTo(s, s.table[v], s.table[k])
      BY <3>1 DEF Good, Forward
    <3>3. k = m
      BY <3>2, NamesAre, EmptyIs DEF Good, Unique, LeadsTo
    <3> QED
      BY <1>7, <3>1, <3>2, <3>3 DEF LeadsTo
  <2> QED
    BY <2>1, <2>2
<1>9. InfoInv(t)
  BY <1>1, <1>2, <1>6 DEF Good, InfoInv
<1>10. Good(t)
  BY <1>5, <1>8, <1>9 DEF Good, Puts
<1>11. Redirected(t, name)
  BY <1>1, <1>2, <1>6, <1>10, RedirectedIs
<1> QED
  BY <1>5, <1>10, <1>11

\* .Fuji itself, which is not there yet: then nobody has FujiNet data.
LEMMA MainIsGood ==
  ASSUME NEW s, NEW t, NEW u, NEW h \in Handles, NEW k \in Handles,
         Good(s), ~s.wild, ~Installed(s), {h, k} \subseteq t.live, t.info = <<u>>,
         Puts(s, t, u, Driver(Fuji, h, k, 0))
  PROVE  Good(t) /\ Kept(s, t, {Fuji}) /\ Spared(s, t)
<1> DEFINE d == Driver(Fuji, h, k, 0)
<1> HIDE DEF d
<1>0. Puts(s, t, u, d)
  BY DEF d
<1>1. d.name = Fuji /\ d.driver = h /\ d.storage = k /\ k # 0
  BY DEF Driver, Handles, d
<1>2. \A v \in DOMAIN s.table : s.table[v].storage = 0
  <2>1. \A v \in DOMAIN s.table : ~(s.table[v].name = Fuji /\ s.table[v].storage # 0)
    BY RedirectedIs, NamesAre DEF Installed
  <2> QED
    BY <2>1 DEF Good, Clean, Forward, LeadsTo
<1>3. Unique(t) /\ Clean(t) /\ Kept(s, t, {Fuji}) /\ Spared(s, t)
  BY <1>0, <1>1, PutsIsGood, NamesAre
<1>4. /\ u \in DOMAIN t.table /\ t.table[u] = d
      /\ \A v \in DOMAIN t.table : v # u =>
           t.table[v] = IF v \in DOMAIN s.table THEN s.table[v] ELSE Empty
  BY <1>0, <1>1, PutsIs, NamesAre
<1>5. \A v \in DOMAIN t.table : t.table[v].storage # 0 => v = u
  BY <1>2, <1>4, EmptyIs
<1>6. Forward(t)
  BY <1>1, <1>4, <1>5 DEF Forward, LeadsTo
<1>7. InfoInv(t)
  BY <1>1, <1>4 DEF InfoInv
<1> QED
  BY <1>3, <1>6, <1>7 DEF Good, Puts

-------------------------------------------------------------------------------
(* The outcomes of the routines                                                  *)

LEMMA NothingGrew == ASSUME NEW s, Good(s) PROVE Grew(s, s)
BY DEF Good, Systems, Grew, Larger

\* Whatever handle the error path disposes of, the table is not changed.
LEMMA DisposeStubIs ==
  ASSUME NEW s, NEW t, NEW err, NEW val, Grew(s, t), NEW o \in DisposeStub(Out(t, err, val))
  PROVE  Grew(s, o.sys) /\ o.err = err
<1> DEFINE i == Out(t, err, val)
<1>1. t \in Systems /\ i.sys = t /\ i.err = err
  BY DEF Grew, Out
<1>2. CASE o = i
  BY <1>1, <1>2
<1>3. ASSUME NEW h \in t.live, o = [i EXCEPT !.sys.live = @ \ {h}, !.sys.wild = TRUE]
      PROVE  Grew(s, o.sys) /\ o.err = err
  <2>1. o.err = err /\ o.sys = [t EXCEPT !.live = @ \ {h}, !.wild = TRUE]
    BY <1>1, <1>3 DEF Out
  <2> QED
    BY <1>1, <2>1 DEF Grew, Systems
<1> QED
  BY <1>1, <1>2, <1>3 DEF DisposeStub

\* A stub is installed, or nothing but memory is spent; after an error a handle that
\* nobody named may be gone.
LEMMA InstallStubIs ==
  ASSUME NEW s, Good(s), ~s.wild, NEW name \in FujiNames \ {Fuji}, NEW o \in InstallStub(s, name)
  PROVE  /\ Good(o.sys) /\ Kept(s, o.sys, {name}) /\ Spared(s, o.sys)
         /\ o.err = "noErr" => ~o.sys.wild /\ Redirected(o.sys, name)
<1> DEFINE m == FindUnit(s, Fuji)
<1> DEFINE main == s.table[m]
<1> DEFINE install(stub) ==
      Then(IF FindUnit(s, name) # NoUnit THEN {Out(stub.sys, "noErr", FindUnit(s, name))}
                                         ELSE FindSpace(stub.sys),
           LAMBDA r : InstallDCE(r.sys, r.val, Driver(name, stub.val, main.storage, main.driver)))
<1>0. s \in Systems /\ s.table \in Tables /\ s.wild = FALSE
  BY DEF Good, Systems
<1>1. ASSUME Grew(s, o.sys), o.err # "noErr"
      PROVE  /\ Good(o.sys) /\ Kept(s, o.sys, {name}) /\ Spared(s, o.sys)
             /\ o.err = "noErr" => ~o.sys.wild /\ Redirected(o.sys, name)
  <2>1. Good(o.sys) /\ Kept(s, o.sys, {}) /\ Spared(s, o.sys)
    BY <1>1, GrewIsGood
  <2> QED
    BY <1>1, <2>1 DEF Kept
<1>2. CASE m = NoUnit
  <2>1. o = Out(s, "notFound", 0)
    BY <1>2 DEF InstallStub
  <2>2. Grew(s, o.sys) /\ o.err # "noErr"
    BY <2>1, NothingGrew DEF Out
  <2> QED
    BY <1>1, <2>2
<1>3. CASE m # NoUnit
  <2>0. m \in DOMAIN s.table /\ main.name = Fuji
    BY <1>0, <1>3, FindUnitIs
  <2>1. PICK i \in Then(Allocate(s), install) :
          IF i.err = "noErr" THEN o = i ELSE o \in DisposeStub(i)
    BY <1>3 DEF InstallStub, OnError
  <2>2. PICK a \in Allocate(s) : IF a.err = "noErr" THEN i \in install(a) ELSE i = a
    BY <2>1 DEF Then
  <2>3. ASSUME NEW t, NEW err, NEW val, i = Out(t, err, val), Grew(s, t), err # "noErr"
        PROVE  Grew(s, o.sys) /\ o.err # "noErr"
    <3>1. i.err # "noErr"
      BY <2>3 DEF Out
    <3> QED
      BY <2>1, <2>3, <3>1, DisposeStubIs
  <2>4. CASE a = Out(s, "memFullErr", 0)
    <3>1. i = Out(s, "memFullErr", 0)
      BY <2>2, <2>4 DEF Out
    <3> QED
      BY <1>1, <2>3, <3>1, NothingGrew
  <2>5. ASSUME NEW h \in Handles \ s.live, a = Out([s EXCEPT !.live = @ \cup {h}], "noErr", h)
        PROVE  /\ Good(o.sys) /\ Kept(s, o.sys, {name}) /\ Spared(s, o.sys)
               /\ o.err = "noErr" => ~o.sys.wild /\ Redirected(o.sys, name)
    <3> DEFINE s1 == [s EXCEPT !.live = @ \cup {h}]
    <3> DEFINE d == Driver(name, h, main.storage, main.driver)
    <3>1. a.sys = s1 /\ a.err = "noErr" /\ a.val = h
      BY <2>5 DEF Out
    <3>2. /\ s1 \in Systems /\ s1.table = s.table /\ s1.info = s.info /\ s1.wild = FALSE
          /\ s1.connected = s.connected /\ s1.live = s.live \cup {h} /\ ~s1.wild
      BY <1>0 DEF Systems
    <3>3. PICK f \in (IF FindUnit(s, name) # NoUnit THEN {Out(s1, "noErr", FindUnit(s, name))}
                                                    ELSE FindSpace(s1)) :
            IF f.err = "noErr" THEN i \in InstallDCE(f.sys, f.val, d) ELSE i = f
      BY <2>2, <3>1 DEF Then
    <3>4. CASE f = Out(s1, "openErr", 0)
      <4>1. i = Out(s1, "openErr", 0)
        BY <3>3, <3>4 DEF Out
      <4>2. Grew(s, s1)
        BY <1>0, <3>2 DEF Grew, Larger
      <4> QED
        BY <1>1, <2>3, <4>1, <4>2
    <3>5. ASSUME NEW x \in Tables, NEW u \in Nat, Larger(s.table, x), u \in DOMAIN x,
                 f = Out([s1 EXCEPT !.table = x], "noErr", u),
                 \/ x[u].name = name
                 \/ x[u] = Empty /\ \A v \in DOMAIN s.table : s.table[v].name # name
          PROVE  /\ Good(o.sys) /\ Kept(s, o.sys, {name}) /\ Spared(s, o.sys)
                 /\ o.err = "noErr" => ~o.sys.wild /\ Redirected(o.sys, name)
      <4> DEFINE s2 == [s1 EXCEPT !.table = x]
      <4>1. f.sys = s2 /\ f.err = "noErr" /\ f.val = u
        BY <3>5 DEF Out
      <4>2. /\ s2 \in Systems /\ s2.table = x /\ s2.info = s.info /\ s2.wild = FALSE
            /\ s2.connected = s.connected /\ s2.live = s.live \cup {h}
        BY <3>2, <3>5 DEF Systems
      <4> HIDE DEF s1, s2
      <4>3. i \in InstallDCE(s2, u, d)
        BY <3>3, <4>1
      <4>4. CASE i = Out(s2, "memFullErr", 0)
        <5>1. Grew(s, s2)
          BY <3>5, <4>2 DEF Grew
        <5> QED
          BY <1>1, <2>3, <4>4, <5>1
      <4>5. CASE i = Ok([s2 EXCEPT !.table[u] = d])
        <5> DEFINE t == [s2 EXCEPT !.table[u] = d]
        <5>1. o = i /\ o.sys = t /\ o.err = "noErr"
          BY <2>1, <4>5 DEF Ok, Out
        <5>2. d \in Entries /\ d.name = name
          <6>1. main \in Entries
            BY <2>0, <1>0, TableIs
          <6>2. main.storage \in 0..MaxHandles /\ main.driver \in 0..MaxHandles
            BY <6>1 DEF Entries
          <6>3. h \in 0..MaxHandles /\ name \in Names
            BY SizesAssumption DEF Handles, Names
          <6> QED
            BY <6>2, <6>3 DEF Driver, Entries
        <5>3. [x EXCEPT ![u] = d] \in Tables
          BY <3>5, <5>2 DEF Tables
        <5>4. /\ t \in Systems /\ t.table = [x EXCEPT ![u] = d] /\ t.info = s.info /\ t.wild = s.wild
              /\ t.connected = s.connected /\ t.live = s.live \cup {h}
          <6>1. t = [s2 EXCEPT !.table = [x EXCEPT ![u] = d]]
            BY <4>2
          <6> HIDE DEF t, d
          <6> QED
            BY <1>0, <4>2, <5>3, <6>1 DEF Systems
        <5>5. Puts(s, t, u, d)
          BY <3>5, <5>2, <5>4 DEF Puts
        <5>6. Good(t) /\ Kept(s, t, {name}) /\ Spared(s, t) /\ Redirected(t, name)
          <6> HIDE DEF t
          <6>1. h \in t.live /\ h \in Handles /\ t.info = s.info
            BY <5>4
          <6> QED
            BY <2>0, <5>5, <6>1, StubIsGood
        <5> QED
          BY <5>1, <5>4, <5>6
      <4> QED
        BY <4>3, <4>4, <4>5 DEF InstallDCE
    <3>6. CASE FindUnit(s, name) # NoUnit
      <4>1. FindUnit(s, name) \in DOMAIN s.table /\ s.table[FindUnit(s, name)].name = name
        BY <1>0, <3>6, FindUnitIs
      <4>2. f = Out([s1 EXCEPT !.table = s.table], "noErr", FindUnit(s, name))
        BY <3>2, <3>3, <3>6 DEF Systems
      <4>3. FindUnit(s, name) \in Nat /\ Larger(s.table, s.table)
        BY <1>0, <4>1, TableIs DEF Larger
      <4> QED
        BY <1>0, <3>5, <4>1, <4>2, <4>3
    <3>7. CASE FindUnit(s, name) = NoUnit
      <4>1. \A v \in DOMAIN s.table : s.table[v].name # name
        BY <1>0, <3>7, FindUnitIs
      <4>2. f \in FindSpace(s1)
        BY <3>3, <3>7
      <4>3. \/ f = Out(s1, "openErr", 0)
            \/ \E x \in Tables, u \in Nat :
                 /\ Larger(s.table, x) /\ u \in DOMAIN x /\ x[u] = Empty
                 /\ f = Out([s1 EXCEPT !.table = x], "noErr", u)
        <5> HIDE DEF s1
        <5> QED
          BY <3>2, <4>2, FindSpaceIs, SMTT(30)
      <4> QED
        BY <3>4, <3>5, <4>1, <4>3
    <3> QED
      BY <3>6, <3>7
  <2> QED
    BY <1>0, <2>4, <2>5, AllocateIs
<1> QED
  BY <1>2, <1>3

LEMMA PortIs ==
  ASSUME NEW p \in DOMAIN Ports
  PROVE  /\ PortNames(p) \subseteq FujiNames \ {Fuji} /\ Ports[p][1] \in PortNames(p)
         /\ Len(Ports[p]) = 1 => PortNames(p) = {Ports[p][1]}
         /\ Len(Ports[p]) # 1 => PortNames(p) = {Ports[p][1], Ports[p][2]}
<1>1. Ports[p] \in Seq(STRING) /\ Len(Ports[p]) \in {1, 2} /\ Fuji \notin PortNames(p)
  BY NamesAssumption
<1>2. PortNames(p) \subseteq FujiNames
  BY DEF FujiNames
<1>3. PortNames(p) = {Ports[p][i] : i \in 1..Len(Ports[p])}
  BY <1>1 DEF PortNames, Range
<1> QED
  BY <1>1, <1>2, <1>3

\* Without an error all stubs of the port are installed.
LEMMA InstallStubsIs ==
  ASSUME NEW s, Good(s), ~s.wild, NEW p \in DOMAIN Ports, NEW o \in InstallStubs(s, Ports[p])
  PROVE  /\ Good(o.sys) /\ Kept(s, o.sys, PortNames(p)) /\ Spared(s, o.sys)
         /\ o.err = "noErr" => \A n \in PortNames(p) : Redirected(o.sys, n)
<1> DEFINE names == Ports[p]
<1>1. PICK a \in InstallStub(s, names[1]) :
        IF a.err = "noErr" THEN o \in IF Len(names) = 1 THEN {a} ELSE InstallStub(a.sys, names[2])
                           ELSE o = a
  BY DEF InstallStubs, Then
<1>2. /\ names[1] \in FujiNames \ {Fuji} /\ names[1] \in PortNames(p)
      /\ Len(names) = 1 => PortNames(p) = {names[1]}
      /\ Len(names) # 1 => PortNames(p) = {names[1], names[2]} /\ names[2] \in FujiNames \ {Fuji}
  BY PortIs
<1> HIDE DEF names
<1>3. /\ Good(a.sys) /\ Kept(s, a.sys, {names[1]}) /\ Spared(s, a.sys)
      /\ a.err = "noErr" => ~a.sys.wild /\ Redirected(a.sys, names[1])
  BY <1>1, <1>2, InstallStubIs
<1>4. CASE o = a /\ (a.err # "noErr" \/ Len(names) = 1)
  <2>1. Kept(s, a.sys, PortNames(p))
    BY <1>2, <1>3 DEF Kept
  <2> QED
    BY <1>2, <1>3, <1>4, <2>1
<1>5. CASE a.err = "noErr" /\ Len(names) # 1
  <2>1. /\ Good(o.sys) /\ Kept(a.sys, o.sys, {names[2]}) /\ Spared(a.sys, o.sys)
        /\ o.err = "noErr" => Redirected(o.sys, names[2])
    BY <1>1, <1>2, <1>3, <1>5, InstallStubIs
  <2>2. Kept(s, o.sys, {names[1]} \cup {names[2]}) /\ Spared(s, o.sys)
    BY <1>3, <2>1, KeptTransitive
  <2>3. Redirected(o.sys, names[1])
    BY <1>2, <1>3, <1>5, <2>1, StaysRedirected
  <2>4. PortNames(p) = {names[1]} \cup {names[2]}
    BY <1>2, <1>5
  <2> QED
    BY <2>1, <2>2, <2>3, <2>4
<1> QED
  BY <1>1, <1>4, <1>5

\* .Fuji is installed, or was, or nothing but memory for the table is spent.
LEMMA InstallIs ==
  ASSUME NEW s, Good(s), ~s.wild, NEW o \in Install(s)
  PROVE  Good(o.sys) /\ Kept(s, o.sys, {Fuji}) /\ Spared(s, o.sys)
<1> DEFINE place(drvr, data) ==
      Then(FindSpace(data.sys), LAMBDA f :
        {Out([r.sys EXCEPT !.info = IF r.err = "noErr" THEN <<f.val>> ELSE @], r.err, r.val) :
           r \in InstallDCE(f.sys, f.val, Driver(Fuji, drvr.val, data.val, 0))})
<1> DEFINE withData(drvr) == Then(Allocate(drvr.sys), LAMBDA data : place(drvr, data))
<1>0. s \in Systems /\ s.table \in Tables /\ s.wild = FALSE
  BY DEF Good, Systems
<1>1. ASSUME Grew(s, o.sys)
      PROVE  Good(o.sys) /\ Kept(s, o.sys, {Fuji}) /\ Spared(s, o.sys)
  <2>1. Good(o.sys) /\ Kept(s, o.sys, {}) /\ Spared(s, o.sys)
    BY <1>1, GrewIsGood
  <2> QED
    BY <2>1 DEF Kept
<1>2. CASE Installed(s)
  <2>1. o = Ok(s)
    BY <1>2 DEF Install
  <2>2. o.sys = s
    BY <2>1 DEF Ok, Out
  <2> QED
    BY <1>1, <2>2, NothingGrew
<1>3. CASE ~Installed(s)
  <2>1. PICK i \in Then(Allocate(s), withData) :
          IF i.err = "noErr" THEN o = i ELSE o = [i EXCEPT !.sys.live = s.live]
    BY <1>3 DEF Install, OnError
  <2>2. PICK a \in Allocate(s) : IF a.err = "noErr" THEN i \in withData(a) ELSE i = a
    BY <2>1 DEF Then
  <2>3. ASSUME NEW t, NEW err, NEW val, i = Out(t, err, val), Grew(s, t), err # "noErr"
        PROVE  Grew(s, o.sys)
    <3>1. o.sys = [t EXCEPT !.live = s.live]
      BY <2>1, <2>3 DEF Out
    <3>2. t \in Systems
      BY <2>3 DEF Grew
    <3> QED
      BY <1>0, <2>3, <3>1, <3>2 DEF Grew, Systems
  <2>4. CASE a = Out(s, "memFullErr", 0)
    <3>1. i = Out(s, "memFullErr", 0)
      BY <2>2, <2>4 DEF Out
    <3> QED
      BY <1>1, <2>3, <3>1, NothingGrew
  <2>5. ASSUME NEW h \in Handles \ s.live, a = Out([s EXCEPT !.live = @ \cup {h}], "noErr", h)
        PROVE  Good(o.sys) /\ Kept(s, o.sys, {Fuji}) /\ Spared(s, o.sys)
    <3> DEFINE s1 == [s EXCEPT !.live = @ \cup {h}]
    <3>1. a.sys = s1 /\ a.err = "noErr" /\ a.val = h
      BY <2>5 DEF Out
    <3>2. /\ s1 \in Systems /\ s1.table = s.table /\ s1.info = s.info /\ s1.wild = FALSE
          /\ s1.connected = s.connected /\ s1.live = s.live \cup {h}
      BY <1>0 DEF Systems
    <3> HIDE DEF s1, place
    <3>3. Grew(s, s1)
      BY <1>0, <3>2 DEF Grew, Larger
    <3>4. PICK b \in Allocate(s1) : IF b.err = "noErr" THEN i \in place(a, b) ELSE i = b
      <4>1. i \in Then(Allocate(s1), LAMBDA data : place(a, data))
        BY <2>2, <3>1
      <4> QED
        BY <4>1 DEF Then
    <3>5. CASE b = Out(s1, "memFullErr", 0)
      <4>1. i = Out(s1, "memFullErr", 0)
        BY <3>4, <3>5 DEF Out
      <4> QED
        BY <1>1, <2>3, <3>3, <4>1
    <3>6. ASSUME NEW k \in Handles \ s1.live, b = Out([s1 EXCEPT !.live = @ \cup {k}], "noErr", k)
          PROVE  Good(o.sys) /\ Kept(s, o.sys, {Fuji}) /\ Spared(s, o.sys)
      <4> DEFINE s2 == [s1 EXCEPT !.live = @ \cup {k}]
      <4> DEFINE d == Driver(Fuji, h, k, 0)
      <4>1. b.sys = s2 /\ b.err = "noErr" /\ b.val = k
        BY <3>6 DEF Out
      <4>2. /\ s2 \in Systems /\ s2.table = s.table /\ s2.info = s.info /\ s2.wild = FALSE
            /\ s2.connected = s.connected /\ s2.live = s.live \cup {h, k}
        BY <3>2 DEF Systems
      <4> HIDE DEF s2, d
      <4>3. Grew(s, s2)
        BY <1>0, <4>2 DEF Grew, Larger
      <4>4. PICK f \in FindSpace(s2) :
              IF f.err = "noErr"
              THEN i \in {Out([r.sys EXCEPT !.info = IF r.err = "noErr" THEN <<f.val>> ELSE @], r.err, r.val) :
                            r \in InstallDCE(f.sys, f.val, d)}
              ELSE i = f
        <5>1. i \in place(a, b)
          BY <3>4, <4>1
        <5> QED
          BY <3>1, <4>1, <5>1 DEF place, Then, d
      <4>5. CASE f = Out(s2, "openErr", 0)
        <5>1. i = Out(s2, "openErr", 0)
          BY <4>4, <4>5 DEF Out
        <5> QED
          BY <1>1, <2>3, <4>3, <5>1
      <4>6. ASSUME NEW x \in Tables, NEW u \in Nat, Larger(s.table, x), u \in DOMAIN x, x[u] = Empty,
                   f = Out([s2 EXCEPT !.table = x], "noErr", u)
            PROVE  Good(o.sys) /\ Kept(s, o.sys, {Fuji}) /\ Spared(s, o.sys)
        <5> DEFINE s3 == [s2 EXCEPT !.table = x]
        <5>1. f.sys = s3 /\ f.err = "noErr" /\ f.val = u
          BY <4>6 DEF Out
        <5>2. /\ s3 \in Systems /\ s3.table = x /\ s3.info = s.info /\ s3.wild = FALSE
              /\ s3.connected = s.connected /\ s3.live = s.live \cup {h, k}
          BY <4>2, <4>6 DEF Systems
        <5> HIDE DEF s3
        <5>3. PICK r \in InstallDCE(s3, u, d) :
                i = Out([r.sys EXCEPT !.info = IF r.err = "noErr" THEN <<u>> ELSE @], r.err, r.val)
          BY <4>4, <5>1
        <5>4. CASE r = Out(s3, "memFullErr", 0)
          <6>1. i = Out(s3, "memFullErr", 0)
            BY <5>2, <5>3, <5>4 DEF Out, Systems
          <6>2. Grew(s, s3)
            BY <4>6, <5>2 DEF Grew
          <6> QED
            BY <1>1, <2>3, <6>1, <6>2
        <5>5. CASE r = Ok([s3 EXCEPT !.table[u] = d])
          <6> DEFINE t == [s3 EXCEPT !.table = [x EXCEPT ![u] = d], !.info = <<u>>]
          <6>1. i = Out(t, "noErr", 0)
            BY <5>2, <5>3, <5>5 DEF Ok, Out, Systems
          <6>2. o.sys = t
            <7> HIDE DEF t
            <7> QED
              BY <2>1, <6>1 DEF Out
          <6>3. d \in Entries /\ d.name = Fuji
            <7>1. h \in 0..MaxHandles /\ k \in 0..MaxHandles /\ 0 \in 0..MaxHandles /\ Fuji \in Names
              BY SizesAssumption, NamesAre DEF Names, Handles
            <7> QED
              BY <7>1 DEF d, Driver, Entries
          <6>4. [x EXCEPT ![u] = d] \in Tables
            BY <4>6, <6>3 DEF Tables
          <6>5. <<u>> \in Seq(0..(MaxEntries - 1))
            <7>1. PICK n \in FirstEntries..MaxEntries : x \in [0..(n - 1) -> Entries]
              BY <4>6 DEF Tables
            <7>2. u \in 0..(MaxEntries - 1)
              BY <4>6, <7>1, SizesAssumption
            <7> QED
              BY <7>2
          <6>6. /\ t \in Systems /\ t.table = [x EXCEPT ![u] = d] /\ t.info = <<u>> /\ t.wild = s.wild
                /\ t.connected = s.connected /\ t.live = s.live \cup {h, k}
            BY <1>0, <5>2, <6>4, <6>5 DEF Systems
          <6> HIDE DEF t
          <6>7. Puts(s, t, u, d)
            <7>1. \A v \in DOMAIN s.table : s.table[v].name # Fuji
              <8>1. \A v \in DOMAIN s.table : ~(s.table[v].name = Fuji /\ s.table[v].storage # 0)
                BY <1>3, RedirectedIs, NamesAre DEF Installed
              <8> QED
                BY <8>1 DEF Good, Clean
            <7> QED
              BY <4>6, <6>3, <6>6, <7>1 DEF Puts
          <6> QED
            BY <1>3, <6>2, <6>6, <6>7, MainIsGood DEF d
        <5> QED
          BY <5>3, <5>4, <5>5 DEF InstallDCE
      <4> QED
        BY <4>2, <4>5, <4>6, FindSpaceIs
    <3> QED
      BY <3>2, <3>5, <3>6, AllocateIs
  <2> QED
    BY <1>0, <2>4, <2>5, AllocateIs
<1> QED
  BY <1>2, <1>3

LEMMA SerialOpenIs ==
  ASSUME NEW s, Good(s), ~s.wild, NEW o \in SerialOpen(s)
  PROVE  Good(o.sys) /\ Kept(s, o.sys, {Fuji}) /\ Spared(s, o.sys)
<1>1. PICK a \in Install(s) : IF a.err = "noErr" THEN o \in FujiOpen(a.sys) ELSE o = a
  BY DEF SerialOpen, Then
<1>2. Good(a.sys) /\ Kept(s, a.sys, {Fuji}) /\ Spared(s, a.sys)
  BY <1>1, InstallIs
<1>3. CASE o.sys = a.sys
  BY <1>2, <1>3
<1>4. CASE o.sys = [a.sys EXCEPT !.connected = TRUE]
  <2>1. a.sys \in Systems
    BY <1>2 DEF Good
  <2>2. /\ o.sys \in Systems /\ o.sys.table = a.sys.table /\ o.sys.info = a.sys.info
        /\ o.sys.wild = a.sys.wild /\ o.sys.live = a.sys.live /\ o.sys.connected
    BY <1>4, <2>1 DEF Systems
  <2>3. Good(o.sys)
    <3>1. Unique(o.sys) /\ Clean(o.sys)
      BY <1>2, <2>2 DEF Good, Unique, Clean
    <3>2. Forward(o.sys)
      BY <1>2, <2>2 DEF Good, Forward, LeadsTo
    <3>3. InfoInv(o.sys)
      BY <1>2, <2>2 DEF Good, InfoInv
    <3> QED
      BY <2>2, <3>1, <3>2, <3>3 DEF Good
  <2> QED
    BY <1>2, <2>2, <2>3 DEF Kept, Spared
<1> DEFINE found == [a.sys EXCEPT !.connected = TRUE]
<1>5. \/ o = a
      \/ o = Out(a.sys, "noDevice", 0)
      \/ o = Out(found, "openErr", 0)
      \/ o = Out(found, "noErr", 0)
  BY <1>1 DEF FujiOpen, Ok
<1>6. o.sys = a.sys \/ o.sys = found
  <2>1. \A t, err, val : Out(t, err, val).sys = t
    BY DEF Out
  <2> HIDE DEF found
  <2> QED
    BY <1>5, <2>1
<1> QED
  BY <1>3, <1>4, <1>6

-------------------------------------------------------------------------------
(* Every step                                                                    *)

\* At startup there are only drivers in ROM, none of them .Fuji.
LEMMA InitGood == Init => Good(sys)
<1> SUFFICES ASSUME Init PROVE Good(sys)
  OBVIOUS
<1>1. PICK rom \in SUBSET DOMAIN RomDrivers :
        sys = [table |-> [u \in 0..(FirstEntries - 1) |->
                            IF u \in rom THEN Foreign(RomDrivers[u]) ELSE Empty],
               live |-> {}, wild |-> FALSE, connected |-> FALSE, info |-> <<>>]
  BY DEF Init
<1>2. \A u \in rom : /\ Foreign(RomDrivers[u]) \in Entries /\ Foreign(RomDrivers[u]).name = RomDrivers[u]
                     /\ Foreign(RomDrivers[u]).storage = 0
                     /\ RomDrivers[u] \in (FujiNames \ {Fuji}) \cup OtherNames
  BY <1>1, NamesAssumption, SizesAssumption DEF Foreign, Driver, Entries, Names
<1>3. /\ \A u, v \in rom : RomDrivers[u] = RomDrivers[v] => u = v
      /\ Empty \in Entries /\ Empty.name = "none" /\ Empty.storage = 0
  BY <1>1, NamesAssumption, EmptyIs
<1>4. /\ DOMAIN sys.table = 0..(FirstEntries - 1)
      /\ \A u \in DOMAIN sys.table : sys.table[u] = IF u \in rom THEN Foreign(RomDrivers[u]) ELSE Empty
      /\ sys.info = <<>>
  BY <1>1
<1>5. sys \in Systems
  <2>1. sys.table \in [0..(FirstEntries - 1) -> Entries]
    BY <1>1, <1>2, <1>3
  <2>2. sys.table \in Tables
    BY <2>1, SizesAssumption DEF Tables
  <2>3. <<>> \in Seq(0..(MaxEntries - 1))
    OBVIOUS
  <2> QED
    BY <1>1, <2>2, <2>3 DEF Systems
<1>6. Unique(sys)
  BY <1>2, <1>3, <1>4, NamesAre DEF Unique
<1>7. Clean(sys)
  BY <1>2, <1>3, <1>4, NamesAre DEF Clean
<1>8. Forward(sys)
  BY <1>2, <1>3, <1>4 DEF Forward
<1>9. InfoInv(sys)
  BY <1>4 DEF InfoInv
<1> QED
  BY <1>5, <1>6, <1>7, <1>8, <1>9 DEF Good

\* A driver's first request enters a unit that is not in drvrInfo yet.
LEMMA PrimeIsGood ==
  ASSUME Good(sys), NEW u \in DOMAIN sys.table, Prime(u)
  PROVE  Good(sys') /\ Kept(sys, sys', {}) /\ Spared(sys, sys')
<1>1. /\ sys.table[u].storage # 0 /\ u \notin Range(sys.info)
      /\ sys' = [sys EXCEPT !.info = Append(@, u)]
  BY DEF Prime
<1>2. sys \in Systems /\ sys.info \in Seq(0..(MaxEntries - 1)) /\ sys.table \in Tables
  BY DEF Good, Systems
<1>3. u \in 0..(MaxEntries - 1)
  <2>1. PICK n \in FirstEntries..MaxEntries : sys.table \in [0..(n - 1) -> Entries]
    BY <1>2 DEF Tables
  <2> QED
    BY <2>1, SizesAssumption
<1>4. /\ sys' \in Systems /\ sys'.table = sys.table /\ sys'.live = sys.live /\ sys'.wild = sys.wild
      /\ sys'.connected = sys.connected /\ sys'.info = Append(sys.info, u)
  <2>1. Append(sys.info, u) \in Seq(0..(MaxEntries - 1))
    BY <1>2, <1>3
  <2> QED
    BY <1>1, <1>2, <2>1 DEF Systems
<1>5. InfoInv(sys')
  <2>1. \A i \in 1..Len(sys.info) : sys.info[i] # u
    BY <1>1, <1>2 DEF Range
  <2>2. /\ Len(sys'.info) = Len(sys.info) + 1 /\ sys'.info[Len(sys.info) + 1] = u
        /\ \A i \in 1..Len(sys.info) : sys'.info[i] = sys.info[i]
        /\ Len(sys.info) \in Nat
    BY <1>2, <1>3, <1>4
  <2> QED
    BY <1>1, <1>4, <2>1, <2>2 DEF Good, InfoInv
<1> QED
  BY <1>4, <1>5 DEF Good, Unique, Clean, Forward, LeadsTo, Kept, Spared

\* Another program's driver in a free entry.
LEMMA OtherInstallsIsGood ==
  ASSUME Good(sys), NEW name \in OtherNames, OtherInstalls(name)
  PROVE  Good(sys') /\ Kept(sys, sys', {}) /\ Spared(sys, sys')
<1> DEFINE d == Foreign(name)
<1>0. sys \in Systems /\ sys.table \in Tables
  BY DEF Good, Systems
<1>1. PICK o \in FindSpace(sys) :
        o.err = "noErr" /\ sys' = [o.sys EXCEPT !.table[o.val] = d]
  BY DEF OtherInstalls
<1>2. PICK x \in Tables, u \in Nat :
        /\ Larger(sys.table, x) /\ u \in DOMAIN x /\ x[u] = Empty
        /\ o = Out([sys EXCEPT !.table = x], "noErr", u)
  <2>1. o # Out(sys, "openErr", 0)
    BY <1>1 DEF Out
  <2> QED
    BY <1>0, <2>1, FindSpaceIs
<1>3. /\ d \in Entries /\ d.name = name /\ d.storage = 0 /\ name # "none" /\ name \notin FujiNames
      /\ name # Fuji /\ Fuji # "none" /\ "none" \notin OtherNames /\ Empty.name = "none" /\ Empty.storage = 0
  BY NamesAre, EmptyIs, SizesAssumption DEF Foreign, Driver, Entries, Names
<1> HIDE DEF d
<1>4. /\ sys' \in Systems /\ sys'.table = [x EXCEPT ![u] = d] /\ sys'.live = sys.live
      /\ sys'.wild = sys.wild /\ sys'.connected = sys.connected /\ sys'.info = sys.info
  <2>1. o.sys = [sys EXCEPT !.table = x] /\ o.val = u
    BY <1>2 DEF Out
  <2>2. sys' = [sys EXCEPT !.table = [x EXCEPT ![u] = d]]
    BY <1>0, <1>1, <2>1 DEF Systems
  <2>3. [x EXCEPT ![u] = d] \in Tables
    BY <1>2, <1>3 DEF Tables
  <2> QED
    BY <1>0, <2>2, <2>3 DEF Systems
<1>5. Puts(sys, sys', u, d)
  <2>1. \A v \in DOMAIN sys.table : sys.table[v].name # name
    BY <1>0, FindUnitIs DEF OtherInstalls
  <2> QED
    BY <1>2, <1>3, <1>4, <2>1 DEF Puts
<1>6. /\ u \in DOMAIN sys'.table /\ sys'.table[u] = d /\ DOMAIN sys.table \subseteq DOMAIN sys'.table
      /\ \A v \in DOMAIN sys'.table : v # u =>
           sys'.table[v] = IF v \in DOMAIN sys.table THEN sys.table[v] ELSE Empty
      /\ \A v \in DOMAIN sys.table : sys.table[v].name = name => v = u
      /\ u \in DOMAIN sys.table => sys.table[u] = Empty
  BY <1>2, <1>3, <1>5, PutsIs DEF Larger
<1>7. Unique(sys')
  BY <1>3, <1>6 DEF Good, Unique, Clean
<1>8. Clean(sys')
  BY <1>3, <1>6 DEF Good, Clean
<1>9. \A v \in DOMAIN sys'.table : sys'.table[v].storage # 0 =>
        v \in DOMAIN sys.table /\ sys'.table[v] = sys.table[v]
  BY <1>3, <1>6
<1>10. \A v \in DOMAIN sys.table : sys.table[v].storage # 0 \/ sys.table[v].name \in OtherNames =>
         v \in DOMAIN sys'.table /\ sys'.table[v] = sys.table[v]
  BY <1>3, <1>6
<1>11. Forward(sys')
  <2> SUFFICES ASSUME ~sys'.wild, NEW v \in DOMAIN sys'.table, sys'.table[v].storage # 0
               PROVE  \E k \in DOMAIN sys'.table : LeadsTo(sys', sys'.table[v], sys'.table[k])
    BY DEF Forward
  <2>1. v \in DOMAIN sys.table /\ sys'.table[v] = sys.table[v]
    BY <1>9
  <2>2. PICK k \in DOMAIN sys.table : LeadsTo(sys, sys.table[v], sys.table[k])
    BY <1>4, <2>1 DEF Good, Forward
  <2>3. sys.table[k].storage # 0
    BY <2>2 DEF LeadsTo, Good, Clean
  <2> QED
    BY <1>4, <1>10, <2>1, <2>2, <2>3 DEF LeadsTo
<1>12. InfoInv(sys')
  BY <1>4, <1>10 DEF Good, InfoInv
<1> QED
  BY <1>4, <1>6, <1>7, <1>8, <1>9, <1>10, <1>11, <1>12 DEF Good, Kept, Spared

\* It takes its own driver out, and its entry is free.
LEMMA OtherRemovesIsGood ==
  ASSUME Good(sys), NEW name \in OtherNames, OtherRemoves(name)
  PROVE  /\ Good(sys') /\ Kept(sys, sys', {})
         /\ \A v \in DOMAIN sys.table : sys.table[v].name # name =>
              v \in DOMAIN sys'.table /\ sys'.table[v] = sys.table[v]
<1> DEFINE u == FindUnit(sys, name)
<1>0. sys \in Systems /\ sys.table \in Tables
  BY DEF Good, Systems
<1>1. u # NoUnit /\ sys' = [sys EXCEPT !.table[u] = Empty]
  BY DEF OtherRemoves
<1>2. u \in DOMAIN sys.table /\ sys.table[u].name = name
  BY <1>0, <1>1, FindUnitIs
<1> HIDE DEF u
<1>3. Empty \in Entries /\ Empty.name = "none" /\ Empty.storage = 0 /\ name \notin FujiNames /\ Fuji # "none"
  BY EmptyIs, NamesAre
<1>4. /\ sys' \in Systems /\ sys'.table = [sys.table EXCEPT ![u] = Empty] /\ sys'.live = sys.live
      /\ sys'.wild = sys.wild /\ sys'.connected = sys.connected /\ sys'.info = sys.info
  <2>1. sys' = [sys EXCEPT !.table = [sys.table EXCEPT ![u] = Empty]]
    BY <1>1
  <2>2. [sys.table EXCEPT ![u] = Empty] \in Tables
    BY <1>0, <1>2, <1>3 DEF Tables
  <2> QED
    BY <1>0, <2>1, <2>2 DEF Systems
<1>5. /\ DOMAIN sys'.table = DOMAIN sys.table /\ sys'.table[u] = Empty
      /\ \A v \in DOMAIN sys.table : v # u => sys'.table[v] = sys.table[v]
  BY <1>0, <1>2, <1>4, TableIs
<1>6. sys.table[u].storage = 0
  BY <1>2, <1>3 DEF Good, Clean
<1>7. Unique(sys') /\ Clean(sys')
  BY <1>3, <1>5 DEF Good, Unique, Clean
<1>8. Forward(sys')
  <2> SUFFICES ASSUME ~sys'.wild, NEW v \in DOMAIN sys'.table, sys'.table[v].storage # 0
               PROVE  \E k \in DOMAIN sys'.table : LeadsTo(sys', sys'.table[v], sys'.table[k])
    BY DEF Forward
  <2>1. v \in DOMAIN sys.table /\ sys'.table[v] = sys.table[v]
    BY <1>3, <1>5
  <2>2. PICK k \in DOMAIN sys.table : LeadsTo(sys, sys.table[v], sys.table[k])
    BY <1>4, <2>1 DEF Good, Forward
  <2>3. k # u
    BY <1>6, <2>2 DEF LeadsTo, Good, Clean
  <2> QED
    BY <1>4, <1>5, <2>1, <2>2, <2>3 DEF LeadsTo
<1>9. InfoInv(sys')
  BY <1>4, <1>5, <1>6 DEF Good, InfoInv
<1> QED
  BY <1>2, <1>3, <1>4, <1>5, <1>6, <1>7, <1>8, <1>9 DEF Good, Kept

\* What a redirection of p does, and what the callers keep of its error.
RedirectOk(s, t, p, fs) ==
  /\ Good(t) /\ Kept(s, t, PortNames(p)) /\ Spared(s, t)
  /\ p \in fs \/ \A n \in PortNames(p) : Redirected(t, n)

LEMMA RedirectIsGood ==
  ASSUME Good(sys), ~sys.wild, NEW p \in DOMAIN Ports, Redirect(p)
  PROVE  RedirectOk(sys, sys', p, failed') /\ failed \subseteq failed' /\ failed' \subseteq failed \cup {p}
<1>1. PICK o \in InstallStubs(sys, Ports[p]) :
        /\ sys' = o.sys
        /\ failed' = (IF o.err = "noErr" THEN failed ELSE failed \cup {p})
  BY DEF Redirect
<1>2. /\ Good(o.sys) /\ Kept(sys, o.sys, PortNames(p)) /\ Spared(sys, o.sys)
      /\ o.err = "noErr" => \A n \in PortNames(p) : Redirected(o.sys, n)
  BY InstallStubsIs
<1> QED
  BY <1>1, <1>2 DEF RedirectOk

\* A step of Next: .Fuji is installed or not, a port is redirected or not, or nobody
\* gets FujiNet data; and only its owner takes another program's driver out.
LEMMA StepIsGood ==
  ASSUME Good(sys), Next
  PROVE  /\ Good(sys')
         /\ \/ Kept(sys, sys', {Fuji}) /\ failed' = failed
            \/ \E p \in DOMAIN Ports :
                 RedirectOk(sys, sys', p, failed') /\ failed \subseteq failed' /\ failed' \subseteq failed \cup {p}
         /\ Spared(sys, sys') \/ \E n \in OtherNames : OtherRemoves(n)
<1> USE DEF Quietly
<1>0. ~sys.wild
  BY DEF Next
<1>1. ASSUME Good(sys'), Kept(sys, sys', {})
      PROVE  Kept(sys, sys', {Fuji})
  BY <1>1 DEF Kept
<1>2. Kept(sys, sys, {}) /\ Spared(sys, sys)
  BY DEF Kept, Spared
<1>3. CASE DAOpen \/ TestOpen
  <2>1. PICK o \in SerialOpen(sys) : sys' = o.sys
    BY <1>3 DEF DAOpen, TestOpen
  <2> QED
    BY <1>0, <1>3, <2>1, SerialOpenIs DEF DAOpen, TestOpen
<1>4. CASE DARun \/ DAClose
  <2>1. sys' = sys /\ failed' = failed
    BY <1>4 DEF DARun, DAClose
  <2> QED
    BY <1>1, <1>2, <2>1
<1>5. ASSUME NEW p \in DOMAIN Ports, Redirect(p)
      PROVE  /\ RedirectOk(sys, sys', p, failed') /\ failed \subseteq failed' /\ failed' \subseteq failed \cup {p}
             /\ Good(sys') /\ Spared(sys, sys')
  BY <1>0, <1>5, RedirectIsGood DEF RedirectOk
<1>6. ASSUME NEW p \in DOMAIN Ports, DAClick(p) PROVE Redirect(p)
  BY <1>6 DEF DAClick
<1>7. ASSUME NEW p \in TestPorts, TestRedirect(p) PROVE p \in DOMAIN Ports /\ Redirect(p)
  BY <1>7, NamesAssumption DEF TestRedirect
<1>8. ASSUME NEW u \in DOMAIN sys.table, Prime(u)
      PROVE  Good(sys') /\ Kept(sys, sys', {Fuji}) /\ failed' = failed /\ Spared(sys, sys')
  BY <1>1, <1>8, PrimeIsGood DEF Prime
<1>9. ASSUME NEW n \in OtherNames, OtherInstalls(n)
      PROVE  Good(sys') /\ Kept(sys, sys', {Fuji}) /\ failed' = failed /\ Spared(sys, sys')
  BY <1>1, <1>9, OtherInstallsIsGood DEF OtherInstalls
<1>10. ASSUME NEW n \in OtherNames, OtherRemoves(n)
       PROVE  Good(sys') /\ Kept(sys, sys', {Fuji}) /\ failed' = failed
  BY <1>1, <1>10, OtherRemovesIsGood DEF OtherRemoves
<1> QED
  BY <1>3, <1>4, <1>5, <1>6, <1>7, <1>8, <1>9, <1>10 DEF Next

SysInv == Good(sys)

LEMMA SysInvariant == Spec => []SysInv
<1>1. Init => SysInv
  BY InitGood DEF SysInv
<1>2. SysInv /\ [Next]_vars => SysInv'
  <2>1. ASSUME Good(sys), Next PROVE Good(sys')
    BY <2>1, StepIsGood
  <2>2. ASSUME Good(sys), UNCHANGED vars PROVE Good(sys')
    BY <2>2 DEF vars
  <2> QED
    BY <2>1, <2>2 DEF SysInv
<1> QED
  BY <1>1, <1>2, PTL DEF Spec

-------------------------------------------------------------------------------
(* The properties that the runs check                                            *)

\* No name is in the table twice, so the name a program opens leads to one driver,
\* however often a port is redirected, and also after the table has moved.
\* (findUnitNumberByName before findSpaceInUnitTable.)
THEOREM OneDriverOfAName == Spec => []NamesAreUnique
<1>1. SysInv => NamesAreUnique
  BY DEF SysInv, Good, Unique, NamesAreUnique
<1> QED
  BY SysInvariant, <1>1, PTL

\* Every driver with FujiNet data is in memory, has the data of .Fuji and leads to its
\* code, whichever allocation failed before, until an error path has disposed of a
\* handle at random.  (installStubDriver, fujiSerialInstall.)
THEOREM StubsLeadToFuji == Spec => []StubsForward
<1>1. SysInv => StubsForward
  <2> SUFFICES ASSUME Good(sys), ~sys.wild, NEW u \in DOMAIN sys.table, sys.table[u].storage # 0
               PROVE  LET main == sys.table[FindUnit(sys, Fuji)]
                      IN /\ FindUnit(sys, Fuji) # NoUnit
                         /\ {sys.table[u].driver, main.driver, main.storage} \subseteq sys.live
                         /\ sys.table[u].storage = main.storage
                         /\ sys.table[u].name # Fuji => sys.table[u].forwards = main.driver
    BY DEF StubsForward, SysInv
  <2>1. PICK m \in DOMAIN sys.table : LeadsTo(sys, sys.table[u], sys.table[m])
    BY DEF Good, Forward
  <2>2. FindUnit(sys, Fuji) = m
    BY <2>1, FoundByName, NamesAre DEF Good, Systems, LeadsTo
  <2>3. m # NoUnit
    BY <2>1, TableIs DEF Good, Systems, NoUnit
  <2> QED
    BY <2>1, <2>2, <2>3 DEF LeadsTo
<1> QED
  BY SysInvariant, <1>1, PTL

\* drvrInfo keeps an entry free: it names different units, of drivers of different names
\* of ours, and there are fewer of those than entries.  (getDriverInfo; what
\* FujiSerialAsync assumes of its table.)
THEOREM EndMarkStays == Spec => []DrvrInfoHasEndMark
<1>1. SysInv => DrvrInfoHasEndMark
  <2> SUFFICES ASSUME Good(sys) PROVE Len(sys.info) < InfoEntries
    BY DEF DrvrInfoHasEndMark, SysInv
  <2> DEFINE l == Len(sys.info)
  <2> DEFINE f == [i \in 1..l |-> sys.table[sys.info[i]].name]
  <2>1. l \in Nat
    BY DEF Good, Systems
  <2>2. \A i \in 1..l : /\ sys.info[i] \in DOMAIN sys.table /\ sys.table[sys.info[i]].storage # 0
                        /\ f[i] \in FujiNames
    BY DEF Good, InfoInv, Clean
  <2>3. \A i, j \in 1..l : f[i] = f[j] => i = j
    BY <2>2, EmptyIs DEF Good, InfoInv, Unique
  <2>4. f \in Injection(1..l, FujiNames)
    BY <2>2, <2>3 DEF Injection, IsInjective
  <2>5. IsFiniteSet(1..l) /\ Cardinality(1..l) = l
    BY <2>1, FS_Interval
  <2>6. l =< Cardinality(FujiNames)
    BY <2>4, <2>5, FS_Injection, SizesAssumption DEF ExistsInjection
  <2>7. Cardinality(FujiNames) \in Nat
    BY FS_CardinalityType, SizesAssumption
  <2> HIDE DEF l
  <2> QED
    BY <2>1, <2>6, <2>7, SizesAssumption DEF l
<1> QED
  BY SysInvariant, <1>1, PTL

\* The entries of other programs stay where they are and as they are until their owner
\* removes them, though the table moves.  (findSpaceInUnitTable, installDCE.)
THEOREM OthersStay == Spec => OthersKeepUnits
<1> DEFINE Stays ==
      \A u \in DOMAIN sys.table :
        sys.table[u].name \in OtherNames =>
          \/ u \in DOMAIN sys'.table /\ sys'.table[u] = sys.table[u]
          \/ OtherRemoves(sys.table[u].name)
<1>1. ASSUME Good(sys), Next PROVE Stays
  <2>1. CASE Spared(sys, sys')
    BY <2>1 DEF Spared
  <2>2. ASSUME NEW n \in OtherNames, OtherRemoves(n) PROVE Stays
    BY <1>1, <2>2, OtherRemovesIsGood
  <2> QED
    BY <1>1, <2>1, <2>2, StepIsGood
<1>2. SysInv /\ [Next]_vars => [Stays]_vars
  BY <1>1 DEF SysInv
<1> QED
  BY SysInvariant, <1>2, PTL DEF Spec, OthersKeepUnits

\* Types, and the table is one block of entries.
LEMMA GoodTypes ==
  ASSUME Good(sys)
  PROVE  /\ DOMAIN sys.table = 0..(Cardinality(DOMAIN sys.table) - 1)
         /\ Cardinality(DOMAIN sys.table) \in FirstEntries..MaxEntries
         /\ \A u \in DOMAIN sys.table :
              /\ sys.table[u].name \in FujiNames \cup OtherNames \cup {"none"}
              /\ {sys.table[u].driver, sys.table[u].storage, sys.table[u].forwards} \subseteq 0..MaxHandles
         /\ sys.live \subseteq 1..MaxHandles /\ Range(sys.info) \subseteq DOMAIN sys.table
<1>1. PICK n \in FirstEntries..MaxEntries :
        sys.table \in [0..(n - 1) -> Entries] /\ Cardinality(DOMAIN sys.table) = n
  BY TableIs DEF Good, Systems
<1>2. sys.live \subseteq 1..MaxHandles
  BY DEF Good, Systems, Handles
<1>3. Range(sys.info) \subseteq DOMAIN sys.table
  BY DEF Good, Systems, InfoInv, Range
<1>4. \A u \in DOMAIN sys.table : sys.table[u] \in Entries
  BY <1>1
<1> QED
  BY <1>1, <1>2, <1>3, <1>4 DEF Entries, Names

\* What the desk accessory remembers is of the right kind and true, whether its window
\* is open or not: the buttons it closed with are looked at again when it opens, but
\* "Connected" is not.
ShownInv ==
  /\ window \in BOOLEAN /\ button \subseteq DOMAIN Ports
  /\ \A p \in button : Redirected(sys, Ports[p][1])
  /\ shown => Connected(sys)

WholeInv == failed \subseteq DOMAIN Ports /\ PortsAreWhole

UnitInv == SysInv /\ ShownInv /\ WholeInv

LEMMA InitShown == Init => ShownInv /\ WholeInv
<1> SUFFICES ASSUME Init PROVE ShownInv /\ WholeInv
  OBVIOUS
<1>1. \A u \in DOMAIN sys.table : sys.table[u].storage = 0
  BY EmptyIs DEF Init, Foreign, Driver
<1>2. ASSUME NEW p \in DOMAIN Ports PROVE ~Redirected(sys, Ports[p][1])
  BY <1>1, InitGood, RedirectedIs, PortIs
<1> QED
  BY <1>2 DEF Init, ShownInv, WholeInv, PortsAreWhole

\* Nothing that was redirected or connected ceases to be.
LEMMA NothingIsLost ==
  ASSUME Good(sys), Good(sys'), NEW ns, Kept(sys, sys', ns)
  PROVE  /\ \A n \in FujiNames : Redirected(sys, n) => Redirected(sys', n)
         /\ Connected(sys) => Connected(sys')
<1>1. \A n \in FujiNames : Redirected(sys, n) => Redirected(sys', n)
  BY StaysRedirected
<1> QED
  BY <1>1, NamesAre DEF Connected, Installed, Kept

LEMMA StepShown ==
  ASSUME Good(sys), ShownInv, Next
  PROVE  ShownInv'
<1>1. Good(sys') /\ \E ns : Kept(sys, sys', ns)
  BY StepIsGood DEF RedirectOk
<1>2. /\ \A n \in FujiNames : Redirected(sys, n) => Redirected(sys', n)
      /\ Connected(sys) => Connected(sys')
  BY <1>1, NothingIsLost
<1>3. \A p \in DOMAIN Ports : Ports[p][1] \in FujiNames
  BY PortIs
<1>4. shown' => Connected(sys')
  <2>1. CASE shown' = shown
    BY <1>2, <2>1 DEF ShownInv
  <2>2. CASE DARun
    BY <1>2, <2>2 DEF DARun
  <2> QED
    BY <2>1, <2>2 DEF Next, DAOpen, DAClose, TestOpen, DAClick, TestRedirect, Prime,
                      OtherInstalls, OtherRemoves, Quietly
<1>5. window' \in BOOLEAN
  BY DEF Next, DAOpen, DARun, DAClose, TestOpen, DAClick, TestRedirect, Prime,
         OtherInstalls, OtherRemoves, Quietly, ShownInv
<1>6. button' \subseteq DOMAIN Ports /\ \A p \in button' : Redirected(sys', Ports[p][1])
  <2>1. CASE button' = button
    BY <1>2, <1>3, <2>1 DEF ShownInv
  <2>2. ASSUME NEW p, button' = Buttons(sys', p)
        PROVE  button' \subseteq DOMAIN Ports /\ \A q \in button' : Redirected(sys', Ports[q][1])
    BY <2>2 DEF Buttons
  <2> QED
    BY <2>1, <2>2 DEF Next, DAOpen, DARun, DAClose, TestOpen, DAClick, TestRedirect, Prime,
                      OtherInstalls, OtherRemoves, Quietly
<1> QED
  BY <1>4, <1>5, <1>6 DEF ShownInv

\* A port is redirected by its own redirection only, which redirects all of it unless it
\* returns an error: the names of different ports are different.
LEMMA StepWhole ==
  ASSUME Good(sys), WholeInv, Next
  PROVE  WholeInv'
<1>1. Good(sys')
  BY StepIsGood
<1> SUFFICES ASSUME NEW ns, Kept(sys, sys', ns), failed \subseteq failed', failed' \subseteq DOMAIN Ports,
                    \A p \in DOMAIN Ports :
                      \/ PortNames(p) \cap ns = {}
                      \/ p \in failed' \/ \A n \in PortNames(p) : Redirected(sys', n)
             PROVE  WholeInv'
  <2>1. CASE Kept(sys, sys', {Fuji}) /\ failed' = failed
    <3>1. \A p \in DOMAIN Ports : PortNames(p) \cap {Fuji} = {}
      BY PortIs
    <3> QED
      BY <2>1, <3>1 DEF WholeInv
  <2>2. ASSUME NEW q \in DOMAIN Ports, RedirectOk(sys, sys', q, failed'), failed \subseteq failed',
               failed' \subseteq failed \cup {q}
        PROVE  WholeInv'
    <3>1. \A p \in DOMAIN Ports : p # q => PortNames(p) \cap PortNames(q) = {}
      BY NamesAssumption
    <3> QED
      BY <2>2, <3>1 DEF RedirectOk, WholeInv
  <2> QED
    BY <2>1, <2>2, StepIsGood
<1>2. ASSUME NEW p \in DOMAIN Ports, Redirected(sys', Ports[p][1]), p \notin failed', NEW n \in PortNames(p)
      PROVE  Redirected(sys', n)
  <2>1. n \in FujiNames /\ Ports[p][1] \in FujiNames /\ Ports[p][1] \in PortNames(p)
    BY PortIs
  <2>2. CASE PortNames(p) \cap ns = {}
    <3>1. Redirected(sys, Ports[p][1])
      BY <1>1, <1>2, <2>1, <2>2, StaysRedirected
    <3>2. Redirected(sys, n)
      BY <1>2, <3>1 DEF WholeInv, PortsAreWhole
    <3> QED
      BY <1>1, <2>1, <3>2, StaysRedirected
  <2> QED
    BY <1>2, <2>2
<1> QED
  BY <1>2 DEF WholeInv, PortsAreWhole

LEMMA UnitInvariant == Spec => []UnitInv
<1>1. Init => UnitInv
  BY InitGood, InitShown DEF UnitInv, SysInv
<1>2. UnitInv /\ [Next]_vars => UnitInv'
  <2>1. ASSUME UnitInv, Next PROVE UnitInv'
    <3>1. Good(sys')
      BY <2>1, StepIsGood DEF UnitInv, SysInv
    <3>2. ShownInv' /\ WholeInv'
      BY <2>1, StepShown, StepWhole DEF UnitInv, SysInv
    <3> QED
      BY <3>1, <3>2 DEF UnitInv, SysInv
  <2>2. ASSUME UnitInv, UNCHANGED vars PROVE UnitInv'
    BY <2>2 DEF vars, UnitInv, SysInv, ShownInv, WholeInv, PortsAreWhole
  <2> QED
    BY <2>1, <2>2
<1> QED
  BY <1>1, <1>2, PTL DEF Spec

\* Types.  The table is one block of entries, and drvrInfo names units in it.
THEOREM TableTypeCorrect == Spec => []TypeOK
<1>1. UnitInv => TypeOK
  BY GoodTypes DEF UnitInv, SysInv, ShownInv, WholeInv, TypeOK
<1> QED
  BY UnitInvariant, <1>1, PTL

\* A port whose output driver is redirected, which is all that isFujiModemRedirected and
\* its like look at, has its input driver redirected too, unless an error was returned.
\* (installStubDrivers.)
THEOREM PortsStayWhole == Spec => []PortsAreWhole
<1>1. UnitInv => PortsAreWhole
  BY DEF UnitInv, WholeInv
<1> QED
  BY UnitInvariant, <1>1, PTL

\* What the desk accessory shows stays true though others install and redirect meanwhile.
\* (updateButtonState, doRun.)
THEOREM WhatIsShownStaysTrue == Spec => []WhatIsShownIsTrue
<1>1. UnitInv => WhatIsShownIsTrue
  BY DEF UnitInv, ShownInv, WhatIsShownIsTrue
<1> QED
  BY UnitInvariant, <1>1, PTL

===============================================================================
