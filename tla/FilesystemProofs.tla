-------------------------- MODULE FilesystemProofs --------------------------
(***************************************************************************)
(* Theorems about Filesystem, for every disk, set of files and of data, and*)
(* every set of programs found on the disk.                                *)
(***************************************************************************)
EXTENDS Filesystem, Lemmas

SectorContents == {Blank, Image} \cup UNION {ToSet(d.sectors) : d \in Data}
Calls == [phase : {"idle", "data", "fat"}, file : Nat,
          data : Data \cup {Unwritten}, done : Nat]

Types ==
    /\ disk \in [Sectors -> SectorContents]
    /\ dir # NoFat => dir \in Seq(Entry) /\ Len(dir) <= Fit
    /\ sent.kind \in {"nothing", "data", "table"}
    /\ sent.kind = "data" => sent.content \in SectorContents
    /\ sent.kind = "table" => sent.entries \in Seq(Entry) /\ Len(sent.entries) <= Fit
    /\ up \in BOOLEAN /\ fat \in Seq(Entry) /\ free \in Nat /\ registered \in Nat
    /\ op \in Calls /\ stored \in [Names -> Data \cup {Unwritten}]

(* Before load_fat_from_disk there are no files and no calls.              *)
Down == ~up => fat = <<>> /\ op = Idle /\ sent = Nothing

(* A call has a file, which has room for the sectors to be written.        *)
InCall ==
    /\ op.phase # "idle" => op.file \in 1 .. Len(fat)
    /\ op.phase = "data" => /\ op.data \in Data
                            /\ op.done < SizeSectors(op.data)
                            /\ SizeSectors(op.data) <= fat[op.file].length

(* num_registered_files counts all entries but that of a running write_file*)
(* whose data is not sent yet.                                             *)
Counted ==
    /\ op.phase # "data" => Len(fat) = registered
    /\ op.phase = "data" =>
         Len(fat) = registered \/ (op.file = registered + 1 /\ Len(fat) = op.file)

(* A sector of data in the drive's buffer is one of the running call.      *)
InFlight ==
    sent.kind = "data" =>
      op.phase # "idle" /\ sent.lba \in Extent(fat[op.file]) /\ sent.content # Blank

Distinct(entries) ==
    \A i, j \in 1 .. Len(entries) : entries[i].name = entries[j].name => i = j
AllDistinct ==
    /\ Distinct(fat)
    /\ dir # NoFat => Distinct(dir)
    /\ sent.kind = "table" => Distinct(sent.entries)

(* The sectors of an entry are stored, but those the call has yet to send  *)
(* and the one the drive has yet to store.                                 *)
ToSend(i) ==
    IF op.phase = "data" /\ i = op.file
    THEN fat[i].lba + op.done .. fat[i].lba + SizeSectors(op.data) - 1 ELSE {}
ToStore(i) == IF sent.kind = "data" /\ i = op.file THEN {sent.lba} ELSE {}
ToWrite(i) == ToSend(i) \cup ToStore(i)
Written(contents, e, but) ==
    \A s \in (Extent(e) \cap Sectors) \ but : contents[s] # Blank
AfterData ==
    /\ \A i \in 1 .. Len(fat) : Written(disk, fat[i], ToWrite(i))
    /\ dir # NoFat => \A i \in 1 .. Len(dir) : Written(disk, dir[i], {})
    /\ sent.kind = "table" =>
         \A i \in 1 .. Len(sent.entries) : Written(disk, sent.entries[i], {})
    /\ \A i \in 1 .. Len(Programs) : Written(disk, Programs[i], {})

(* What a table on its way to the disk registers.                          *)
Counts(n) == Readable(SubSeq(fat, 1, n))
OnItsWay == sent.kind = "table" => sent.entries = Counts(registered)
Lag ==
    up => /\ OnItsWay
          /\ \/ dir = Counts(registered)
             \/ /\ op.phase = "fat" \/ sent.kind = "table"
                /\ dir = Counts(registered - 1)

IInv ==
    /\ Types /\ Down /\ InCall /\ Counted /\ InFlight
    /\ AllDistinct /\ AfterData /\ Lag
-----------------------------------------------------------------------------
(* The number of a file: the first entry of the name, or 0.                *)
LEMMA GetFileValue ==
    ASSUME Types, NEW name
    PROVE  /\ GetFile(name) = 0 => \A i \in 1 .. Len(fat) : fat[i].name # name
           /\ GetFile(name) # 0 => /\ GetFile(name) \in 1 .. Len(fat)
                                   /\ fat[GetFile(name)].name = name
<1> DEFINE I == {i \in 1 .. Len(fat) : fat[i].name = name}
<1>1. GetFile(name) = IF I # {} THEN Min(I) ELSE 0
  BY DEF GetFile, SelectInSeq
<1>2. Len(fat) \in Nat /\ I \in SUBSET (1 .. Len(fat))
  BY DEF Types
<1>3. /\ GetFile(name) = 0 => I = {}
      /\ GetFile(name) # 0 => GetFile(name) \in I
  <2> HIDE DEF I
  <2> QED BY <1>1, <1>2, FirstIndex
<1> QED BY <1>3

(* The scan of load_fat_from_disk over the sectors lbas exists.            *)
LEMMA ScanExists ==
    ASSUME NEW n \in Nat, NEW lbas \in [1 .. n -> Nat], NEW first \in Nat
    PROVE  \E g \in [0 .. n -> Nat] :
              /\ g[0] = first
              /\ \A i \in 1 .. n :
                   g[i] = IF lbas[i] > g[i - 1] THEN lbas[i] + 1 ELSE g[i - 1]
<1> DEFINE V == Nat
           Turn(f, i) == IF lbas[i] > f THEN lbas[i] + 1 ELSE f
           step == [t \in V \X (1 .. n) |-> Turn(t[1], t[2])]
<1>1. Defines(V, first, n, step)
  BY DEF Defines
<1>2. \A f \in V, i \in 1 .. n : step[<<f, i>>] = Turn(f, i)
  OBVIOUS
<1> HIDE DEF V, step, Turn
<1>3. Defined(V, first, n, step)
  BY <1>1, Recursion
<1>4. PICK g \in [0 .. n -> V] :
         g[0] = first /\ \A i \in 1 .. n : g[i] = step[<<g[i - 1], i>>]
  BY <1>3 DEF Defined
<1>5. \A i \in 1 .. n : g[i - 1] \in V
  OBVIOUS
<1> QED BY <1>2, <1>4, <1>5 DEF V, Turn

(* first_ta_free_sector after load_fat_from_disk.  The scan exists and is a*)
(* number at every entry.                                                  *)
LEMMA FreeAfterLoadNat ==
    ASSUME NEW entries \in Seq(Entry) PROVE FreeAfterLoad(entries) \in Nat
<1> DEFINE n == Len(entries)
           last == IF n < Fit THEN Residue[n + 1] ELSE NodeNameLba
           lba(i) == IF i < n THEN entries[i + 1].lba ELSE last
           Turn(f, i) == IF lba(i) > f THEN lba(i) + 1 ELSE f
           scan[i \in 0 .. n] ==
               IF i = 0 THEN FirstData
               ELSE IF lba(i) > scan[i - 1] THEN lba(i) + 1 ELSE scan[i - 1]
<1>1. n \in Nat /\ FirstData \in Nat /\ \A i \in 1 .. n : lba(i) \in Nat
  <2>1. n \in Nat /\ FirstData \in Nat /\ last \in Nat
    BY DiskAssumption
  <2>2. \A i \in 1 .. n : entries[i].lba \in Nat
    <3>1. \A e \in Entry : e.lba \in Nat
      BY DEF Entry
    <3>2. \A i \in 1 .. n : entries[i] \in Entry
      OBVIOUS
    <3> QED BY <3>1, <3>2
  <2> HIDE DEF n, last
  <2> SUFFICES ASSUME NEW i \in 1 .. n PROVE lba(i) \in Nat
    BY <2>1
  <2>3. CASE i < n
    <3>1. i + 1 \in 1 .. n
      BY <2>1, <2>3
    <3>2. entries[i + 1].lba \in Nat
      BY <2>2, <3>1
    <3> QED BY <2>3, <3>2
  <2> QED BY <2>1, <2>3
<1> HIDE DEF lba, n
<1>2. \A f \in Nat, i \in 1 .. n : Turn(f, i) \in Nat
  BY <1>1
<1>3. PICK g \in [0 .. n -> Nat] :
        g[0] = FirstData /\ \A i \in 1 .. n : g[i] = Turn(g[i - 1], i)
  <2> DEFINE lbas == [i \in 1 .. n |-> lba(i)]
  <2>1. n \in Nat /\ FirstData \in Nat /\ lbas \in [1 .. n -> Nat]
        /\ \A i \in 1 .. n : lbas[i] = lba(i)
    BY <1>1
  <2> HIDE DEF lbas, scan
  <2>2. \E g \in [0 .. n -> Nat] :
           /\ g[0] = FirstData
           /\ \A i \in 1 .. n :
                g[i] = IF lbas[i] > g[i - 1] THEN lbas[i] + 1 ELSE g[i - 1]
    BY <2>1, ScanExists
  <2> QED BY <2>1, <2>2
<1> DEFINE Def(f) == f = [i \in 0 .. n |->
                           IF i = 0 THEN FirstData
                           ELSE IF lba(i) > f[i - 1] THEN lba(i) + 1 ELSE f[i - 1]]
<1>7. Def(g)
  BY <1>1, <1>3
<1>8. scan = CHOOSE f : Def(f)
  OBVIOUS
<1>9. Def(scan)
  <2> HIDE DEF scan, Def
  <2> QED BY <1>7, <1>8
<1> HIDE DEF scan
<1>10. scan[0] = FirstData /\ \A i \in 1 .. n : scan[i] = Turn(scan[i - 1], i)
  <2>1. scan[0] = FirstData
    BY <1>1, <1>9
  <2> SUFFICES ASSUME NEW i \in 1 .. n PROVE scan[i] = Turn(scan[i - 1], i)
    BY <2>1
  <2>2. i \in 0 .. n /\ i # 0
    BY <1>1
  <2>3. scan[i] = IF lba(i) > scan[i - 1] THEN lba(i) + 1 ELSE scan[i - 1]
    BY <1>9, <2>2
  <2> QED BY <2>3
<1> DEFINE Good == {m \in Nat : m <= n => scan[m] \in Nat}
<1>11. 0 \in Good
  BY <1>1, <1>10
<1>12. ASSUME NEW m \in Nat, m \in Good PROVE m + 1 \in Good
  <2> HIDE DEF Turn
  <2> SUFFICES ASSUME m + 1 <= n PROVE scan[m + 1] \in Nat
    OBVIOUS
  <2>1. scan[m] \in Nat /\ m + 1 \in 1 .. n /\ m + 1 - 1 = m
    BY <1>1, <1>12
  <2> QED BY <1>2, <1>10, <2>1
<1>13. n \in Good
  <2> HIDE DEF Good
  <2> QED BY <1>1, <1>11, <1>12, Induction
<1>14. scan[n] \in Nat
  BY <1>1, <1>13
<1> QED BY <1>14 DEF FreeAfterLoad, n, lba, scan
-----------------------------------------------------------------------------
LEMMA EntryFields ==
    ASSUME NEW e \in Entry
    PROVE  /\ e.lba \in Nat /\ e.length \in Nat /\ e.length > 0
           /\ Extent(e) \in SUBSET Nat
           /\ \A s \in Int : s \in Extent(e) <=> e.lba <= s /\ s < e.lba + e.length
BY DEF Entry, Extent

LEMMA CallFields ==
    ASSUME Types
    PROVE  /\ op.phase \in {"idle", "data", "fat"} /\ op.file \in Nat /\ op.done \in Nat
           /\ op.data \in Data \cup {Unwritten}
BY DEF Types, Calls

(* What is given to a call fills the sectors that it is said to.           *)
LEMMA DataSectors ==
    ASSUME NEW d \in Data
    PROVE  /\ SizeSectors(d) \in Nat /\ SizeSectors(d) > 0
           /\ d.sectors[1] \in SectorContents /\ d.sectors[1] # Blank
<1> DEFINE n == Len(d.sectors)
<1>1. /\ DOMAIN d.sectors = 1 .. n /\ n \in 1 .. 255 /\ d.whole \in {n - 1, n}
      /\ \A i \in DOMAIN d.sectors : d.sectors[i] # Blank
  BY DataAssumption
<1> HIDE DEF n
<1>2. n \in Nat /\ n > 0 /\ 1 \in 1 .. n
  <2>1. n \in 1 .. 255
    BY <1>1, Zenon
  <2> QED BY <2>1
<1>3. 1 \in DOMAIN d.sectors /\ d.sectors[1] \in ToSet(d.sectors)
  BY <1>1, <1>2, Zenon DEF ToSet
<1>4. SizeSectors(d) \in Nat /\ SizeSectors(d) > 0
  <2>1. d.whole \in {n - 1, n}
    BY <1>1, Zenon
  <2> QED BY <1>2, <2>1 DEF SizeSectors
<1> QED BY <1>1, <1>3, <1>4 DEF SectorContents

(* The part of a table that can be read back.                              *)
LEMMA ReadablePart ==
    ASSUME NEW entries \in Seq(Entry)
    PROVE  LET part == Readable(entries)
           IN  /\ part \in Seq(Entry) /\ Len(part) <= Fit /\ Len(part) <= Len(entries)
               /\ \A i \in 1 .. Len(part) : part[i] = entries[i]
               /\ Distinct(entries) => Distinct(part)
               /\ Len(entries) <= Fit => part = entries
<1>1. Fit \in Nat /\ Fit > 0
  BY DiskAssumption
<1> DEFINE part == Readable(entries)
<1>2. /\ part \in Seq(Entry) /\ Len(part) <= Fit /\ Len(part) <= Len(entries)
      /\ \A i \in 1 .. Len(part) : part[i] = entries[i]
  <2>1. CASE Len(entries) <= Fit
    BY <2>1 DEF Readable
  <2>2. CASE Len(entries) > Fit
    <3>1. part = SubSeq(entries, 1, Fit)
      BY <1>1, <2>2 DEF Readable
    <3> QED BY <1>1, <2>2, <3>1
  <2> QED BY <1>1, <2>1, <2>2
<1>3. Distinct(entries) => Distinct(part)
  <2> HIDE DEF part
  <2> QED BY <1>2 DEF Distinct
<1>4. Len(entries) <= Fit => part = entries
  BY DEF Readable
<1> QED BY <1>2, <1>3, <1>4

(* A table with another entry.                                             *)
LEMMA OneMore ==
    ASSUME NEW entries \in Seq(Entry), NEW e \in Entry, NEW more,
           more = Append(entries, e)
    PROVE  /\ more \in Seq(Entry) /\ Len(more) = Len(entries) + 1
           /\ Len(entries) \in Nat /\ more[Len(entries) + 1] = e
           /\ \A i \in 1 .. Len(entries) : more[i] = entries[i]
OBVIOUS

(* What it has in front is what was there.                                 *)
LEMMA SameFront ==
    ASSUME NEW entries \in Seq(Entry), NEW e \in Entry,
           NEW n \in Int, n <= Len(entries)
    PROVE  SubSeq(Append(entries, e), 1, n) = SubSeq(entries, 1, n)
OBVIOUS

LEMMA WholeTable ==
    ASSUME NEW entries \in Seq(Entry) PROVE SubSeq(entries, 1, Len(entries)) = entries
OBVIOUS
-----------------------------------------------------------------------------
LEMMA InitOK == Init => IInv
<1> SUFFICES ASSUME Init PROVE IInv
  OBVIOUS
<1>1. Types /\ sent.kind = "nothing"
  <2>1. Idle \in Calls /\ <<>> \in Seq(Entry)
    BY DEF Idle, Calls
  <2>2. disk \in [Sectors -> SectorContents]
    BY DEF Init, SectorContents
  <2> QED BY <2>1, <2>2 DEF Types, Init, Nothing
<1>2. AfterData
  <2>1. ASSUME NEW i \in 1 .. Len(Programs) PROVE Written(disk, Programs[i], {})
    <3>1. i \in DOMAIN Programs
      BY ProgramsAssumption
    <3>2. \A s \in Extent(Programs[i]) \cap Sectors : disk[s] = Image
      BY <3>1 DEF Init
    <3> QED BY <3>2, DiskAssumption DEF Written
  <2> QED BY <1>1, <2>1 DEF AfterData, Init
<1> QED
  BY <1>1, <1>2 DEF IInv, Down, InCall, Counted, InFlight, AllDistinct, Distinct, Lag, Init, Idle

LEMMA InitializeEmptyFatStep == ASSUME IInv, InitializeEmptyFat PROVE IInv'
<1> DEFINE part == Readable(Programs)
<1>1. /\ ~up /\ dir' = part
      /\ UNCHANGED <<disk, sent, up, fat, registered, free, op, stored>>
  BY DEF InitializeEmptyFat, memory
<1>2. /\ part \in Seq(Entry) /\ Len(part) <= Fit /\ Len(part) <= Len(Programs)
      /\ \A i \in 1 .. Len(part) : part[i] = Programs[i]
      /\ Distinct(part) /\ Len(Programs) \in Nat
  <2>1. Programs \in Seq(Entry) /\ Distinct(Programs)
    BY ProgramsAssumption DEF Distinct
  <2> QED BY <2>1, ReadablePart
<1> HIDE DEF part
<1>3. \A i \in 1 .. Len(part) : Written(disk, part[i], {})
  BY <1>2 DEF IInv, AfterData
<1>4. Types'
  BY <1>1, <1>2 DEF IInv, Types
<1>5. AfterData'
  BY <1>1, <1>3 DEF IInv, AfterData, Written, ToWrite, ToSend, ToStore
<1>6. Down' /\ InCall' /\ Counted' /\ InFlight' /\ Lag'
  BY <1>1 DEF IInv, Down, InCall, Counted, InFlight, Lag
<1> QED
  BY <1>1, <1>2, <1>4, <1>5, <1>6 DEF IInv, AllDistinct, Distinct

LEMMA LoadFatStep == ASSUME IInv, LoadFat PROVE IInv'
<1>1. /\ ~up /\ dir # NoFat /\ up' = TRUE /\ fat' = dir /\ registered' = Len(dir)
      /\ free' = FreeAfterLoad(dir) /\ UNCHANGED <<disk, dir, sent, op, stored>>
  BY DEF LoadFat, platter
<1>2. /\ dir \in Seq(Entry) /\ Len(dir) <= Fit /\ Len(dir) \in Nat /\ Distinct(dir)
      /\ op.phase = "idle" /\ sent.kind = "nothing"
      /\ \A i \in 1 .. Len(dir) : Written(disk, dir[i], {})
  BY <1>1 DEF IInv, Types, AllDistinct, Down, AfterData, Idle, Nothing
<1>3. free' \in Nat
  BY <1>1, <1>2, FreeAfterLoadNat
<1>4. Types'
  BY <1>1, <1>2, <1>3 DEF IInv, Types
<1>5. AfterData'
  BY <1>1, <1>2 DEF IInv, AfterData, Written, ToWrite, ToSend, ToStore
<1>6. Lag'
  <2>1. SubSeq(dir, 1, Len(dir)) = dir /\ Readable(dir) = dir
    BY <1>2, ReadablePart, WholeTable
  <2>2. Counts(registered)' = Readable(SubSeq(fat', 1, registered'))
    BY DEF Counts, Readable
  <2> QED BY <1>1, <1>2, <2>1, <2>2 DEF Lag, OnItsWay
<1> QED
  BY <1>1, <1>2, <1>4, <1>5, <1>6
  DEF IInv, Down, InCall, Counted, InFlight, AllDistinct, Distinct

LEMMA WriteFileStep ==
    ASSUME IInv, NEW name \in Names, NEW d \in Data, WriteFile(name, d)
    PROVE  IInv'
<1> DEFINE e == NewEntry(name, d)
           file == Len(fat) + 1
<1>1. /\ GetFile(name) = 0 /\ up /\ op.phase = "idle"
      /\ fat' = Append(fat, e) /\ free' = free + SizeSectors(d)
      /\ op' = [phase |-> "data", file |-> file, data |-> d, done |-> 0]
      /\ UNCHANGED <<disk, dir, sent, up, registered, stored>>
  BY DEF WriteFile, StartWrite, Begin, platter
<1>2. fat \in Seq(Entry) /\ free \in Nat /\ Types
  BY DEF IInv, Types
<1>3. e \in Entry /\ e.name = name /\ e.lba = free /\ e.length = SizeSectors(d)
  BY <1>2, DataSectors DEF NewEntry, Entry
<1> HIDE DEF e
<1>4. /\ fat' \in Seq(Entry) /\ Len(fat') = file /\ Len(fat) \in Nat
      /\ fat'[file] = e /\ \A i \in 1 .. Len(fat) : fat'[i] = fat[i]
  BY <1>1, <1>2, <1>3, OneMore
<1> HIDE DEF file
<1>5. file \in Nat /\ file > 0 /\ file = Len(fat) + 1
  BY <1>4 DEF file
<1>6. Types'
  <2>1. op' \in Calls
    BY <1>1, <1>5 DEF Calls
  <2>2. free' \in Nat
    BY <1>1, <1>2, DataSectors
  <2> QED BY <1>1, <1>4, <2>1, <2>2 DEF IInv, Types
<1>7. InCall'
  BY <1>1, <1>3, <1>4, <1>5, DataSectors DEF InCall
<1>8. AllDistinct'
  <2>1. \A i \in 1 .. Len(fat) : fat[i].name # name
    BY <1>1, <1>2, GetFileValue
  <2>2. Distinct(fat')
    BY <1>3, <1>4, <1>5, <2>1 DEF IInv, AllDistinct, Distinct
  <2> QED BY <1>1, <2>2 DEF IInv, AllDistinct, Distinct
<1>9. AfterData'
  <2>1. ASSUME NEW i \in 1 .. Len(fat) PROVE Written(disk', fat[i], {})
    BY <1>1, <1>4 DEF IInv, InFlight, AfterData, Written, ToWrite, ToSend, ToStore
  <2>2. ASSUME NEW i \in 1 .. Len(fat'), i = file
        PROVE  Written(disk', fat'[i], ToWrite(i)')
    <3>1. op'.phase = "data" /\ op'.file = i /\ op'.data = d /\ op'.done = 0
          /\ fat'[i] = e
      BY <1>1, <1>4, <2>2
    <3>2. ToSend(i)' = e.lba + 0 .. e.lba + SizeSectors(d) - 1
      BY <3>1 DEF ToSend
    <3>3. e.lba + 0 = e.lba
      BY <1>2, <1>3
    <3>4. Extent(e) \in SUBSET ToWrite(i)'
      BY <1>3, <3>2, <3>3 DEF Extent, ToWrite
    <3> QED BY <3>1, <3>4 DEF Written
  <2>3. ASSUME NEW i \in 1 .. Len(fat') PROVE Written(disk', fat'[i], ToWrite(i)')
    <3>1. CASE i = file
      BY <2>2, <3>1
    <3>2. CASE i # file
      <4>1. i \in 1 .. Len(fat)
        BY <1>4, <1>5, <3>2
      <4> QED BY <1>1, <1>4, <2>1, <4>1 DEF Written
    <3> QED BY <3>1, <3>2
  <2>4. /\ dir' # NoFat => \A i \in 1 .. Len(dir') : Written(disk', dir'[i], {})
        /\ sent'.kind = "table" =>
             \A i \in 1 .. Len(sent'.entries) : Written(disk', sent'.entries[i], {})
        /\ \A i \in 1 .. Len(Programs) : Written(disk', Programs[i], {})
    BY <1>1 DEF IInv, AfterData, Written
  <2> QED BY <2>3, <2>4 DEF AfterData
<1>10. Counted' /\ InFlight'
  <2>1. Len(fat) = registered /\ sent.kind # "data"
    BY <1>1 DEF IInv, Counted, InFlight
  <2> QED BY <1>1, <1>4, <1>5, <2>1 DEF Counted, InFlight
<1>11. Lag'
  <2>1. Len(fat) = registered /\ registered \in Nat
    BY <1>1 DEF IInv, Types, Counted
  <2>2. SubSeq(fat', 1, registered) = SubSeq(fat, 1, registered)
    BY <1>1, <1>2, <1>3, <2>1, SameFront
  <2>3. SubSeq(fat', 1, registered - 1) = SubSeq(fat, 1, registered - 1)
    <3>1. registered - 1 \in Int /\ registered - 1 <= Len(fat)
      BY <2>1
    <3> QED BY <1>1, <1>2, <1>3, <3>1, SameFront
  <2>4. /\ Counts(registered)' = Readable(SubSeq(fat', 1, registered'))
        /\ Counts(registered - 1)' = Readable(SubSeq(fat', 1, registered' - 1))
    BY DEF Counts, Readable
  <2>5. Counts(registered)' = Counts(registered) /\ Counts(registered - 1)' = Counts(registered - 1)
    BY <1>1, <2>2, <2>3, <2>4 DEF Counts
  <2> QED BY <1>1, <2>5 DEF IInv, Lag, OnItsWay
<1> QED BY <1>1, <1>6, <1>7, <1>8, <1>9, <1>10, <1>11 DEF IInv, Down

LEMMA OverwriteFileStep ==
    ASSUME IInv, NEW name \in Names, NEW d \in Data, OverwriteFile(name, d)
    PROVE  IInv'
<1> DEFINE file == GetFile(name)
<1>1. /\ up /\ op.phase = "idle" /\ file # 0
      /\ UNCHANGED <<disk, dir, sent, up, fat, registered, free, stored>>
      /\ \/ /\ SizeSectors(d) <= fat[file].length
            /\ op' = [phase |-> "data", file |-> file, data |-> d, done |-> 0]
         \/ op' = [phase |-> "fat", file |-> file, data |-> stored[name], done |-> 0]
  BY DEF OverwriteFile, Begin, platter, memory
<1>2. file \in 1 .. Len(fat) /\ Len(fat) \in Nat
  BY <1>1, GetFileValue DEF IInv, Types
<1> HIDE DEF file
<1>3. stored[name] \in Data \cup {Unwritten}
  BY DEF IInv, Types
<1>4. op' \in Calls /\ op'.phase # "idle"
  BY <1>1, <1>2, <1>3 DEF Calls
<1>5. Types'
  BY <1>1, <1>4 DEF IInv, Types
<1>6. InCall'
  BY <1>1, <1>2, DataSectors DEF InCall
<1>7. sent.kind # "data" /\ Len(fat) = registered
  BY <1>1 DEF IInv, InFlight, Counted
<1>8. AfterData'
  BY <1>1, <1>7 DEF IInv, AfterData, Written, ToWrite, ToSend, ToStore
<1>9. Counted' /\ InFlight'
  BY <1>1, <1>7 DEF Counted, InFlight
<1>10. Lag'
  BY <1>1 DEF IInv, Lag, OnItsWay, Counts, Readable
<1> QED
  BY <1>1, <1>4, <1>5, <1>6, <1>8, <1>9, <1>10 DEF IInv, Down, AllDistinct, Distinct

LEMMA WriteSectorStep == ASSUME IInv, WriteSector PROVE IInv'
<1> DEFINE s == fat[op.file].lba + op.done
           content == op.data.sectors[1]
           last == op.done + 1 = SizeSectors(op.data)
           phase == IF last THEN "fat" ELSE "data"
<1>1. /\ op.phase = "data" /\ sent = Nothing
      /\ sent' = DataSector(s, content)
      /\ op' = [op EXCEPT !.done = op.done + 1, !.phase = phase]
      /\ registered' = IF last /\ op.file > registered THEN op.file ELSE registered
      /\ UNCHANGED <<disk, dir, up, fat, free, stored>>
  BY DEF WriteSector, SendSector, platter
<1>2. /\ op \in Calls /\ fat \in Seq(Entry) /\ op.file \in 1 .. Len(fat) /\ op.done \in Nat
      /\ op.data \in Data /\ op.done < SizeSectors(op.data)
      /\ SizeSectors(op.data) <= fat[op.file].length /\ SizeSectors(op.data) \in Nat
      /\ content \in SectorContents /\ content # Blank /\ op.file \in Nat /\ op.file > 0
      /\ sent.kind = "nothing" /\ Len(fat) \in Nat /\ registered \in Nat
  BY <1>1, DataSectors DEF IInv, Types, InCall, Calls, Nothing
<1>3. fat[op.file] \in Entry
  BY <1>2
<1>4. fat[op.file].lba \in Nat /\ fat[op.file].length \in Nat
  BY <1>3, EntryFields
<1>5. s \in Extent(fat[op.file])
  <2>1. s \in Int /\ fat[op.file].lba <= s
        /\ s < fat[op.file].lba + fat[op.file].length
    BY <1>2, <1>4
  <2> HIDE DEF s
  <2> QED BY <1>3, <2>1, EntryFields
<1>6. sent'.kind = "data" /\ sent'.lba = s /\ sent'.content = content
  BY <1>1 DEF DataSector
<1> HIDE DEF s, content, last
<1>7. /\ op' \in Calls /\ op'.file = op.file /\ op'.data = op.data
      /\ op'.done = op.done + 1 /\ op'.phase = phase /\ phase \in {"data", "fat"}
  <2> HIDE DEF phase
  <2>1. phase \in {"data", "fat"}
    BY DEF phase
  <2>2. op' = [phase |-> phase, file |-> op.file, data |-> op.data, done |-> op.done + 1]
    BY <1>1, <1>2 DEF Calls
  <2>3. op' \in Calls
    BY <1>2, <2>1, <2>2 DEF Calls
  <2> QED BY <2>1, <2>2, <2>3
<1>8. Types'
  <2>1. registered' \in Nat
    BY <1>1, <1>2
  <2> QED BY <1>1, <1>2, <1>6, <1>7, <2>1 DEF IInv, Types
<1>9. InCall' /\ InFlight'
  <2>1. op'.phase = "data" => op'.done < SizeSectors(op.data)
    BY <1>2, <1>7 DEF last
  <2> QED BY <1>1, <1>2, <1>5, <1>6, <1>7, <2>1 DEF InCall, InFlight
<1>10. AfterData'
  <2>1. ASSUME NEW e, NEW but, Written(disk, e, but) PROVE Written(disk', e, but)
    BY <1>1, <2>1 DEF Written
  <2>2. ASSUME NEW i \in 1 .. Len(fat) PROVE Written(disk, fat[i], ToWrite(i)')
    <3>1. Written(disk, fat[i], ToWrite(i)) /\ ToWrite(i) = ToSend(i)
      BY <1>2 DEF IInv, AfterData, ToWrite, ToStore
    <3>2. CASE i = op.file
      <4> DEFINE first == fat[i].lba
                 size == SizeSectors(op.data)
      <4>1. first \in Nat /\ size \in Nat /\ op.done \in Nat
        BY <1>2, <1>4, <3>2
      <4>2. ToSend(i) = first + op.done .. first + size - 1
        BY <1>1, <3>2 DEF ToSend
      <4>3. ToSend(i)' = IF last THEN {} ELSE first + (op.done + 1) .. first + size - 1
        BY <1>1, <1>7, <3>2 DEF ToSend
      <4>4. ToStore(i)' = {s} /\ s = first + op.done
        BY <1>6, <1>7, <3>2 DEF ToStore, s
      <4>5. last <=> op.done + 1 = size
        BY DEF last
      <4>6. ASSUME NEW x \in ToSend(i) PROVE x \in ToWrite(i)'
        <5> HIDE DEF first, size
        <5>1. x \in ToSend(i)' \/ x = s
          BY <4>1, <4>2, <4>3, <4>4, <4>5, <4>6
        <5> QED BY <4>4, <5>1 DEF ToWrite
      <4> QED BY <3>1, <4>6 DEF Written
    <3>3. CASE i # op.file
      <4>1. ToSend(i) = {}
        BY <3>3 DEF ToSend
      <4> QED BY <3>1, <4>1 DEF Written
    <3> QED BY <3>2, <3>3
  <2>3. \A i \in 1 .. Len(fat') : Written(disk', fat'[i], ToWrite(i)')
    BY <1>1, <2>2 DEF Written
  <2>4. /\ dir' # NoFat => \A i \in 1 .. Len(dir') : Written(disk', dir'[i], {})
        /\ \A i \in 1 .. Len(Programs) : Written(disk', Programs[i], {})
    BY <1>1, <2>1 DEF IInv, AfterData, Written
  <2> QED BY <1>6, <2>3, <2>4 DEF AfterData
<1>11. /\ registered' = registered \/ (registered' = registered + 1 /\ last)
       /\ Counted'
  <2>1. Len(fat) = registered \/ (op.file = registered + 1 /\ Len(fat) = op.file)
    BY <1>1 DEF IInv, Counted
  <2>2. op'.phase = "data" <=> ~last
    BY <1>7
  <2> HIDE DEF phase
  <2> QED BY <1>1, <1>2, <1>7, <2>1, <2>2 DEF Counted
<1>12. up /\ Lag'
  <2>1. up
    BY <1>1 DEF IInv, Types, Down, Idle
  <2>2. dir = Counts(registered)
    BY <1>1, <1>2, <2>1 DEF IInv, Lag
  <2>3. /\ Counts(registered)' = Readable(SubSeq(fat', 1, registered'))
        /\ Counts(registered - 1)' = Readable(SubSeq(fat', 1, registered' - 1))
    BY DEF Counts, Readable
  <2>4. CASE registered' = registered
    <3>1. dir' = Counts(registered)'
      BY <1>1, <2>2, <2>3, <2>4 DEF Counts
    <3> QED BY <1>6, <2>1, <3>1 DEF Lag, OnItsWay
  <2>5. CASE registered' = registered + 1 /\ last
    <3>1. registered' - 1 = registered /\ op'.phase = "fat"
      BY <1>2, <1>7, <2>5
    <3>2. dir' = Counts(registered - 1)'
      BY <1>1, <2>2, <2>3, <3>1 DEF Counts
    <3> QED BY <1>6, <2>1, <3>1, <3>2 DEF Lag, OnItsWay
  <2> QED BY <1>11, <2>1, <2>4, <2>5
<1> QED
  BY <1>1, <1>6, <1>8, <1>9, <1>10, <1>11, <1>12 DEF IInv, Down, AllDistinct, Distinct

LEMMA UpdateDiskFatStep == ASSUME IInv, UpdateDiskFat PROVE IInv'
<1> DEFINE table == Readable(fat)
<1>1. /\ op.phase = "fat" /\ sent = Nothing /\ sent' = TableSector(table) /\ op' = Idle
      /\ stored' = [stored EXCEPT ![fat[op.file].name] = op.data]
      /\ UNCHANGED <<disk, dir, up, fat, registered, free>>
  BY DEF UpdateDiskFat, SendTable, platter, memory
<1>2. /\ fat \in Seq(Entry) /\ Distinct(fat) /\ op.data \in Data \cup {Unwritten}
      /\ Len(fat) \in Nat /\ sent.kind = "nothing"
  BY <1>1, CallFields DEF IInv, Types, AllDistinct, Nothing
<1>3. /\ table \in Seq(Entry) /\ Len(table) <= Fit /\ Len(table) <= Len(fat)
      /\ \A i \in 1 .. Len(table) : table[i] = fat[i]
      /\ Distinct(table) /\ Len(table) \in Nat
  BY <1>1, <1>2, ReadablePart
<1>4. stored' \in [Names -> Data \cup {Unwritten}]
  BY <1>1, <1>2 DEF IInv, Types
<1>5. Idle \in Calls /\ Idle.phase = "idle"
  BY DEF Idle, Calls
<1>6. sent'.kind = "table" /\ sent'.entries = table
  BY <1>1 DEF TableSector
<1>7. SubSeq(fat, 1, registered) = fat
  <2>1. Len(fat) = registered
    BY <1>1 DEF IInv, Counted
  <2> QED BY <1>2, <2>1, WholeTable
<1> HIDE DEF table
<1>8. Types'
  BY <1>1, <1>3, <1>4, <1>5, <1>6 DEF IInv, Types
<1>9. \A i \in 1 .. Len(fat) : Written(disk, fat[i], {})
  BY <1>1, <1>2 DEF IInv, AfterData, ToWrite, ToSend, ToStore
<1>10. \A i \in 1 .. Len(table) : Written(disk, table[i], {})
  BY <1>3, <1>9
<1>11. AfterData'
  BY <1>1, <1>5, <1>6, <1>9, <1>10 DEF IInv, AfterData, Written, ToWrite, ToSend, ToStore
<1>12. Lag'
  <2>1. Counts(registered) = table
    BY <1>7 DEF Counts, table
  <2>2. Counts(registered)' = Counts(registered) /\ Counts(registered - 1)' = Counts(registered - 1)
    BY <1>1 DEF Counts, Readable
  <2> QED BY <1>1, <1>6, <2>1, <2>2 DEF IInv, Lag, OnItsWay
<1> QED
  BY <1>1, <1>3, <1>5, <1>6, <1>8, <1>11, <1>12
  DEF IInv, Down, InCall, Counted, InFlight, AllDistinct, Distinct

LEMMA StoreDataStep ==
    ASSUME IInv, StoreData
    PROVE  /\ IInv' /\ op.file # 0
           /\ \A s \in Sectors : disk'[s] # disk[s] => s \in Extent(fat[op.file])
<1> DEFINE s == sent.lba
           content == sent.content
<1>1. /\ sent.kind = "data" /\ sent' = Nothing
      /\ disk' = IF s \in Sectors THEN [disk EXCEPT ![s] = content] ELSE disk
      /\ UNCHANGED <<dir, up, fat, registered, free, op, stored>>
  BY DEF StoreData, memory
<1>2. /\ content \in SectorContents /\ content # Blank /\ op.phase # "idle"
      /\ s \in Extent(fat[op.file]) /\ op.file \in 1 .. Len(fat)
      /\ sent'.kind = "nothing" /\ op.file # 0
  BY <1>1 DEF IInv, Types, InFlight, InCall, Nothing
<1>3. ToStore(op.file) = {s} /\ \A i : i # op.file => ToStore(i) = {}
  BY <1>1 DEF ToStore
<1> HIDE DEF s, content
<1>4. /\ disk' \in [Sectors -> SectorContents]
      /\ \A x \in Sectors : disk'[x] # Blank \/ (disk'[x] = disk[x] /\ x # s)
      /\ \A x \in Sectors : disk'[x] # disk[x] => x = s
  <2>1. disk \in [Sectors -> SectorContents]
    BY DEF IInv, Types
  <2> QED BY <1>1, <1>2, <2>1
<1>5. Types'
  BY <1>1, <1>2, <1>4 DEF IInv, Types
<1>6. AfterData'
  <2>1. ASSUME NEW e, NEW but, Written(disk, e, but) PROVE Written(disk', e, but)
    BY <1>4, <2>1 DEF Written
  <2>2. ASSUME NEW i \in 1 .. Len(fat) PROVE Written(disk', fat[i], ToWrite(i)')
    <3>1. Written(disk, fat[i], ToSend(i) \cup ToStore(i))
      BY DEF IInv, AfterData, ToWrite
    <3>2. ToWrite(i)' = ToSend(i)
      BY <1>1, <1>2 DEF ToWrite, ToSend, ToStore
    <3>3. ASSUME NEW x \in Extent(fat[i]) \cap Sectors, x \notin ToSend(i)
          PROVE  disk'[x] # Blank
      BY <1>3, <1>4, <3>1, <3>3 DEF Written
    <3> QED BY <3>2, <3>3 DEF Written
  <2>3. \A i \in 1 .. Len(fat') : Written(disk', fat'[i], ToWrite(i)')
    BY <1>1, <2>2
  <2>4. /\ dir' # NoFat => \A i \in 1 .. Len(dir') : Written(disk', dir'[i], {})
        /\ \A i \in 1 .. Len(Programs) : Written(disk', Programs[i], {})
    BY <1>1, <2>1 DEF IInv, AfterData
  <2> QED BY <1>2, <2>3, <2>4 DEF AfterData
<1>7. Lag'
  BY <1>1, <1>2 DEF IInv, Lag, OnItsWay, Counts, Readable
<1>8. Down' /\ InCall' /\ Counted' /\ InFlight' /\ AllDistinct'
  BY <1>1, <1>2 DEF IInv, Down, InCall, Counted, InFlight, AllDistinct, Distinct
<1>9. IInv'
  BY <1>5, <1>6, <1>7, <1>8 DEF IInv
<1> QED BY <1>2, <1>4, <1>9

LEMMA StoreTableStep == ASSUME IInv, StoreTable PROVE IInv'
<1>1. /\ sent.kind = "table" /\ sent' = Nothing /\ dir' = sent.entries
      /\ UNCHANGED <<disk, up, fat, registered, free, op, stored>>
  BY DEF StoreTable, memory
<1>2. /\ sent'.kind = "nothing" /\ dir' \in Seq(Entry) /\ Len(dir') <= Fit /\ Distinct(dir')
      /\ \A i \in 1 .. Len(dir') : Written(disk, dir'[i], {})
  BY <1>1 DEF IInv, Types, AllDistinct, AfterData, Nothing
<1>3. Types'
  BY <1>1, <1>2 DEF IInv, Types
<1>4. AfterData'
  BY <1>1, <1>2 DEF IInv, AfterData, Written, ToWrite, ToSend, ToStore
<1>5. Lag'
  <2>1. Counts(registered)' = Counts(registered)
    BY <1>1 DEF Counts, Readable
  <2>2. up => dir' = Counts(registered)
    BY <1>1 DEF IInv, Lag, OnItsWay
  <2> QED BY <1>1, <1>2, <2>1, <2>2 DEF Lag, OnItsWay
<1>6. Down' /\ InCall' /\ Counted' /\ InFlight' /\ AllDistinct'
  BY <1>1, <1>2 DEF IInv, Down, InCall, Counted, InFlight, AllDistinct, Distinct, Nothing
<1> QED BY <1>3, <1>4, <1>5, <1>6 DEF IInv

LEMMA PowerOffStep == ASSUME IInv, PowerOff PROVE IInv'
<1>1. /\ up' = FALSE /\ fat' = <<>> /\ registered' = 0 /\ free' = 0 /\ sent' = Nothing
      /\ op' = Idle /\ UNCHANGED <<disk, dir>>
  BY DEF PowerOff, platter
<1>2. stored' \in [Names -> Data \cup {Unwritten}]
  <2>1. \A n \in Names : stored[n] \in Data \cup {Unwritten}
    BY DEF IInv, Types
  <2> QED BY <2>1 DEF PowerOff
<1>3. /\ Idle \in Calls /\ Idle.phase = "idle" /\ <<>> \in Seq(Entry) /\ Len(<<>>) = 0
      /\ sent'.kind = "nothing"
  BY <1>1 DEF Idle, Calls, Nothing
<1>4. Types'
  BY <1>1, <1>2, <1>3 DEF IInv, Types
<1>5. AfterData'
  BY <1>1, <1>3 DEF IInv, AfterData, Written
<1> QED
  BY <1>1, <1>3, <1>4, <1>5
  DEF IInv, Down, InCall, Counted, InFlight, AllDistinct, Distinct, Lag

LEMMA IInvStep == IInv /\ [Next]_vars => IInv'
<1> SUFFICES ASSUME IInv, [Next]_vars PROVE IInv'
  OBVIOUS
<1>1. ASSUME NEW n \in Names, NEW d \in Data, WriteFile(n, d) PROVE IInv'
  BY <1>1, WriteFileStep
<1>2. ASSUME NEW n \in Names, NEW d \in Data, OverwriteFile(n, d) PROVE IInv'
  BY <1>2, OverwriteFileStep
<1>3. CASE UNCHANGED vars
  <2>1. UNCHANGED <<disk, dir, sent, up, fat, registered, free, op, stored>>
    BY <1>3 DEF vars, platter, memory
  <2>2. Types' /\ Down' /\ InCall' /\ Counted' /\ InFlight' /\ AllDistinct'
    BY <2>1 DEF IInv, Types, Down, InCall, Counted, InFlight, AllDistinct, Distinct
  <2>3. AfterData' /\ Lag'
    BY <2>1 DEF IInv, AfterData, Written, ToWrite, ToSend, ToStore, Lag, OnItsWay, Counts,
                Readable
  <2> QED BY <2>2, <2>3 DEF IInv
<1> QED
  BY <1>1, <1>2, <1>3, InitializeEmptyFatStep, LoadFatStep, WriteSectorStep,
     UpdateDiskFatStep, StoreDataStep, StoreTableStep, PowerOffStep DEF Next

LEMMA Invariance == Spec => []IInv
BY InitOK, IInvStep, PTL DEF Spec
-----------------------------------------------------------------------------
(* Disk, tables and calls keep their types, with files past the end of the *)
(* disk and tables past their first sector too.                            *)
THEOREM TypeCorrect == Spec => []TypeOK
<1>1. IInv => TypeOK
  <2> SUFFICES ASSUME IInv PROVE TypeOK
    OBVIOUS
  <2>1. op.phase # "idle" => op.file \in DOMAIN fat
    BY DEF IInv, Types, InCall
  <2>2. registered \in 0 .. Len(fat)
    BY DEF IInv, Types, Counted
  <2> QED BY <2>1, <2>2, CallFields DEF IInv, Types, TypeOK, SectorContents
<1> QED BY <1>1, Invariance, PTL

(* write_file and overwrite_file put data before entries: the table on the *)
(* disk names only sectors that were written, whenever the power fails.    *)
THEOREM DataFirst == Spec => []DirectoryAfterData
<1>1. IInv => DirectoryAfterData
  BY DEF IInv, Types, AfterData, Written, DirectoryAfterData
<1> QED BY <1>1, Invariance, PTL

(* A power failure loses at most the file registered last: write_file      *)
(* returns before its entry is stored, but the next call's first sector is *)
(* not sent before it is, and no table is ever sent that does not have all *)
(* files registered before.                                                *)
THEOREM OthersAreDurable == Spec => []OnlyLastFileLost
<1>1. IInv => OnlyLastFileLost
  BY DEF IInv, Lag, Counts, OnlyLastFileLost
<1> QED BY <1>1, Invariance, PTL

(* write_file looks its name up: no name ever has two entries, also when a *)
(* power failure lost it and it is written again.                          *)
THEOREM NamesAreUnique == Spec => []UniqueNames
<1>1. IInv => UniqueNames
  BY DEF IInv, Types, AllDistinct, Distinct, UniqueNames
<1> QED BY <1>1, Invariance, PTL

(* What the drive stores for a turn of write_sectors_ATA_PIO's loop lies in*)
(* the file of the call, which is still running.                           *)
THEOREM SectorsOfTheFile == Spec => WritesStayInFile
<1>1. IInv /\ [Next]_vars =>
        [\A s \in Sectors :
           disk'[s] # disk[s] => op.file # 0 /\ s \in Extent(fat[op.file])]_vars
  <2> SUFFICES ASSUME IInv, Next, NEW s \in Sectors, disk'[s] # disk[s]
               PROVE  op.file # 0 /\ s \in Extent(fat[op.file])
    OBVIOUS
  <2>1. StoreData \/ disk' = disk
    BY DEF Next, InitializeEmptyFat, LoadFat, WriteFile, StartWrite, OverwriteFile,
           WriteSector, SendSector, UpdateDiskFat, SendTable, StoreTable, PowerOff, platter
  <2> QED BY <2>1, StoreDataStep
<1> QED BY <1>1, Invariance, PTL DEF Spec, WritesStayInFile

(* Only load_fat_from_disk brings about a state where two files overlap or *)
(* the next one written will overlap one.                                  *)
THEOREM OverlapsComeFromReload == Spec => OnlyReloadOverlaps
<1>1. IInv /\ [Next]_vars => [up /\ Apart /\ up' => Apart']_vars
  <2> SUFFICES ASSUME IInv, Next, up, Apart, up' PROVE Apart'
    OBVIOUS
  <2>1. CASE fat' = fat /\ free' = free
    BY <2>1 DEF Apart
  <2>2. ASSUME NEW name \in Names, NEW d \in Data, WriteFile(name, d) PROVE Apart'
    <3> DEFINE e == NewEntry(name, d)
               file == Len(fat) + 1
    <3>1. fat' = Append(fat, e) /\ free' = free + SizeSectors(d)
      BY <2>2 DEF WriteFile, StartWrite
    <3>2. fat \in Seq(Entry) /\ free \in Nat
      BY DEF IInv, Types
    <3>3. e \in Entry /\ e.lba = free /\ e.length = SizeSectors(d)
      BY <3>2, DataSectors DEF NewEntry, Entry
    <3> HIDE DEF e
    <3>4. /\ fat' \in Seq(Entry) /\ Len(fat') = file /\ Len(fat) \in Nat
          /\ fat'[file] = e /\ \A i \in 1 .. Len(fat) : fat'[i] = fat[i]
      BY <3>1, <3>2, <3>3, OneMore
    <3>5. DOMAIN fat = 1 .. Len(fat) /\ DOMAIN fat' = 1 .. file
      BY <3>2, <3>4
    <3>6. \A s \in Extent(e) : free <= s /\ s < free'
      <4>1. \A s \in Extent(e) : e.lba <= s /\ s < e.lba + e.length
        BY <3>3, EntryFields
      <4> QED BY <3>1, <3>3, <4>1
    <3>7. \A i \in 1 .. Len(fat) : \A s \in Extent(fat[i]) : s < free
      BY <3>5 DEF Apart
    <3>8. \A i \in 1 .. Len(fat) : Extent(fat[i]) \in SUBSET Nat
      BY <3>2, EntryFields
    <3>9. \A i, j \in 1 .. Len(fat) : i # j => Extent(fat[i]) \cap Extent(fat[j]) = {}
      BY <3>5 DEF Apart
    <3>10. \A i \in 1 .. Len(fat) : Extent(fat[i]) \cap Extent(e) = {}
      <4> SUFFICES ASSUME NEW i \in 1 .. Len(fat), NEW s \in Extent(fat[i]), s \in Extent(e)
                   PROVE  FALSE
        OBVIOUS
      <4>1. s \in Nat /\ s < free /\ free <= s
        BY <3>6, <3>7, <3>8
      <4> QED BY <3>2, <4>1
    <3>11. \A i \in 1 .. file : i = file \/ i \in 1 .. Len(fat)
      BY <3>4
    <3>12. ASSUME NEW i \in 1 .. file, NEW j \in 1 .. file, i # j
           PROVE  Extent(fat'[i]) \cap Extent(fat'[j]) = {}
      <4>1. CASE i = file
        BY <3>4, <3>10, <3>11, <3>12, <4>1
      <4>2. CASE j = file
        BY <3>4, <3>10, <3>11, <3>12, <4>2
      <4>3. CASE i # file /\ j # file
        BY <3>4, <3>9, <3>11, <3>12, <4>3
      <4> QED BY <4>1, <4>2, <4>3
    <3>13. ASSUME NEW i \in 1 .. file, NEW s \in Extent(fat'[i]) PROVE s < free'
      <4>1. CASE i = file
        BY <3>4, <3>6, <3>13, <4>1
      <4>2. CASE i \in 1 .. Len(fat)
        <5>1. s \in Nat /\ s < free
          BY <3>4, <3>7, <3>8, <3>13, <4>2
        <5>2. SizeSectors(d) \in Nat
          BY DataSectors
        <5> QED BY <3>1, <3>2, <5>1, <5>2
      <4> QED BY <3>11, <4>1, <4>2
    <3> HIDE DEF file
    <3> QED BY <3>5, <3>12, <3>13 DEF Apart
  <2>3. (fat' = fat /\ free' = free) \/ \E n \in Names, d \in Data : WriteFile(n, d)
    BY DEF Next, InitializeEmptyFat, LoadFat, OverwriteFile, WriteSector, SendSector,
           UpdateDiskFat, SendTable, StoreData, StoreTable, PowerOff, memory
  <2> QED BY <2>1, <2>2, <2>3
<1> QED BY <1>1, Invariance, PTL DEF Spec, OnlyReloadOverlaps
=============================================================================
