----------------------------- MODULE Filesystem -----------------------------
(***************************************************************************)
(* The file system (src/filesystem/filesystem.c, initialize_fat.c) over the*)
(* PIO driver (src/drivers/ata.c), with one caller at a time and a power   *)
(* failure possible whenever load_fat_from_disk has returned.              *)
(*                                                                         *)
(* write_sectors_ATA_PIO is done with a sector when its last word is sent; *)
(* the drive stores it later, and only the next command or sector waits    *)
(* for that (ATA_wait_BSY).  So a call returns with its table in the       *)
(* drive's buffer, and a power failure loses what is there.                *)
(*                                                                         *)
(* The allocation table is the sequence of its entries after entry 0, the  *)
(* INIT_NODE: a file's number is its position, and the 0 of get_file means *)
(* there is none.  A sector is stored whole or not at all.                 *)
(* write_sectors_ATA_PIO starts every sector at bytes[0]: each sector of a *)
(* run holds the run's first one.  So does the table itself: its second    *)
(* sector is a copy of its first, and what can be read back is what lies in*)
(* the first sector, the Fit entries that end in it.                       *)
(***************************************************************************)
EXTENDS Integers, SequencesExt

CONSTANTS
    Names,         \* the names of files; INIT_NODE is not one
    Data,          \* what callers write: [sectors, whole], whole of them full
    Blank, Image,  \* what a sector nobody wrote, and one of a program, hold
    FirstData,     \* first_ta_free_sector of an empty disk: FIRST_DATA_LBA+1
    LastSector,    \* the disk's last sector
    Fit,           \* entries in the first sector besides INIT_NODE: 10
    MaxFiles,      \* bound: entries callers make; fat_head has room for 68
    Residue,       \* the lba fields of the slots the first table left as the
                   \* heap had them: it is made in memory nobody cleared
    NodeNameLba,   \* bytes 4 to 7 of "INIT_NODE" as a number: 0x444F4E5F
    Programs,      \* the entries made of program images found on the disk
    NoFat          \* what a disk without the magic number holds for a table

(* An entry of the table.                                                  *)
Entry == [name : Names \cup {Programs[i].name : i \in DOMAIN Programs},
          lba : Nat, length : Nat \ {0}]

ASSUME DiskAssumption ==
    /\ FirstData \in Nat /\ LastSector \in Nat /\ Fit \in Nat \ {0}
    /\ MaxFiles \in Nat \ {0} /\ NodeNameLba \in Nat
    /\ Residue \in [1 .. Fit -> Nat]
    /\ Image # Blank
(* The programs put on a disk image have different names, and the 16       *)
(* identifiers of rescue_program_headers, the first a counter, suffice.    *)
ASSUME ProgramsAssumption ==
    /\ Programs \in Seq(Entry) /\ Len(Programs) < 16
    /\ \A i, j \in DOMAIN Programs : Programs[i].name = Programs[j].name => i = j
ASSUME DataAssumption ==
    \A d \in Data : /\ DOMAIN d.sectors = 1 .. Len(d.sectors)
                    /\ Len(d.sectors) \in 1 .. 255
                    /\ d.whole \in {Len(d.sectors) - 1, Len(d.sectors)}
                    /\ \A i \in DOMAIN d.sectors : d.sectors[i] # Blank

VARIABLES
    disk,       \* the data sectors
    dir,        \* the entries readable from the FAT's sectors, or NoFat
    sent,       \* the sector in the drive's buffer, not stored yet
    up,         \* load_fat_from_disk has returned since power on
    fat,        \* fat_head
    registered, \* num_registered_files, without INIT_NODE
    free,       \* first_ta_free_sector
    op,         \* the call in progress
    stored      \* the data of the last call completed for a name, or Unwritten

platter == <<disk, dir>>
memory == <<up, fat, registered, free>>
vars == <<platter, sent, memory, op, stored>>

Sectors == FirstData .. LastSector
Unwritten == [sectors |-> <<>>, whole |-> 0]
Nothing == [kind |-> "nothing"]
DataSector(s, content) == [kind |-> "data", lba |-> s, content |-> content]
TableSector(entries) == [kind |-> "table", entries |-> entries]
Idle == [phase |-> "idle", file |-> 0, data |-> Unwritten, done |-> 0]
Extent(e) == e.lba .. e.lba + e.length - 1

(* What is left of a table once it went through the disk.                  *)
Readable(entries) ==
    IF Len(entries) <= Fit THEN entries ELSE SubSeq(entries, 1, Fit)

(* size_bytes/512, and at least 1: what does not fill a sector is dropped. *)
SizeSectors(d) == IF d.whole = 0 THEN 1 ELSE d.whole

Init ==
    /\ disk = [s \in Sectors |->
                 IF \E i \in DOMAIN Programs : s \in Extent(Programs[i])
                 THEN Image ELSE Blank]
    /\ dir = NoFat /\ sent = Nothing
    /\ up = FALSE
    /\ fat = <<>> /\ registered = 0
    /\ free = 0
    /\ op = Idle
    /\ stored = [n \in Names |-> Unwritten]
-----------------------------------------------------------------------------
(* initialize_empty_fat_to_disk, when entry 0 has no magic.  The read that *)
(* follows waits until the drive has stored both sectors.                  *)
InitializeEmptyFat ==
    /\ ~up /\ dir = NoFat
    /\ dir' = Readable(Programs)
    /\ UNCHANGED <<disk, sent, memory, op, stored>>

(* The scan moves on before it looks at lba: it misses the first file and  *)
(* looks at the slot after the last, which nobody has written, or which    *)
(* begins in the second sector, a copy of the INIT_NODE's, when the first  *)
(* one is full.                                                            *)
FreeAfterLoad(entries) ==
    LET last == IF Len(entries) < Fit THEN Residue[Len(entries) + 1]
                ELSE NodeNameLba
        lba(i) == IF i < Len(entries) THEN entries[i + 1].lba ELSE last
        scan[i \in 0 .. Len(entries)] ==
            IF i = 0 THEN FirstData
            ELSE IF lba(i) > scan[i - 1] THEN lba(i) + 1 ELSE scan[i - 1]
    IN  scan[Len(entries)]

LoadFat ==
    /\ ~up /\ dir # NoFat
    /\ up' = TRUE
    /\ fat' = dir /\ registered' = Len(dir)
    /\ free' = FreeAfterLoad(dir)
    /\ UNCHANGED <<platter, sent, op, stored>>

(* The number of a file, 0 if there is none of that name.                  *)
GetFile(name) == SelectInSeq(fat, LAMBDA e : e.name = name)

(* read_file: as many sectors as the file's entry says, or nothing.        *)
ReadFile(name) ==
    LET file == GetFile(name)
    IN  IF file = 0 THEN <<>>
        ELSE [k \in 1 .. fat[file].length |-> disk[fat[file].lba + k - 1]]

Begin(file, phase, d) ==
    op' = [phase |-> phase, file |-> file, data |-> d, done |-> 0]

(* write_file's entry for a new file.                                      *)
NewEntry(name, d) == [name |-> name, lba |-> free, length |-> SizeSectors(d)]

(* The entry is complete in memory before the first sector is sent.        *)
StartWrite(name, d, advance, file) ==
    /\ up /\ op.phase = "idle"
    /\ fat' = Append(fat, NewEntry(name, d))
    /\ free' = free + advance
    /\ Begin(file, "data", d)
    /\ UNCHANGED <<platter, sent, up, registered, stored>>

(* Mutants of WriteFile: the free sector advances by one whatever the size;*)
(* names are not looked up; the call works on the entry after its own.     *)
WriteFile_FreeByOne(name, d) ==
    GetFile(name) = 0 /\ StartWrite(name, d, 1, Len(fat) + 1)
WriteFile_NoLookup(name, d) ==
    StartWrite(name, d, SizeSectors(d), Len(fat) + 1)
WriteFile_OffByOne(name, d) ==
    GetFile(name) = 0 /\ StartWrite(name, d, SizeSectors(d), Len(fat) + 2)

WriteFile(name, d) ==
    GetFile(name) = 0 /\ StartWrite(name, d, SizeSectors(d), Len(fat) + 1)

(* Mutant: the size of the file is not compared with the new data's.       *)
OverwriteFile_AnySize(name, d) ==
    /\ up /\ op.phase = "idle"
    /\ GetFile(name) # 0
    /\ Begin(GetFile(name), "data", d)
    /\ UNCHANGED <<platter, sent, memory, stored>>

(* Data that needs more sectors than the file has is not written.          *)
OverwriteFile(name, d) ==
    LET file == GetFile(name)
    IN  /\ up /\ op.phase = "idle"
        /\ file # 0
        /\ IF SizeSectors(d) <= fat[file].length
           THEN Begin(file, "data", d)
           ELSE Begin(file, "fat", stored[name])
        /\ UNCHANGED <<platter, sent, memory, stored>>

(* One turn of the loop of write_sectors_ATA_PIO.  After the last one      *)
(* write_file counts its file.                                             *)
SendSector ==
    LET last == op.done + 1 = SizeSectors(op.data)
    IN  /\ op.phase = "data"
        /\ sent' = DataSector(fat[op.file].lba + op.done, op.data.sectors[1])
        /\ op' = [op EXCEPT !.done = @ + 1, !.phase = IF last THEN "fat" ELSE @]
        /\ registered' = IF last /\ op.file > registered THEN op.file ELSE registered
        /\ UNCHANGED <<platter, up, fat, free, stored>>

(* Mutant: the drive is not waited for, and loses the sector it had.       *)
WriteSector_NoWait == SendSector

WriteSector == sent = Nothing /\ SendSector

(* update_disk_fat, and the return of the call.  Of the table's sectors,   *)
(* two from 23 entries on, the first matters: the call is taken to return  *)
(* when that is sent.                                                      *)
SendTable ==
    /\ op.phase = "fat"
    /\ sent' = TableSector(Readable(fat))
    /\ op' = Idle
    /\ stored' = [stored EXCEPT ![fat[op.file].name] = op.data]
    /\ UNCHANGED <<platter, memory>>

(* Mutant: as above; the sector lost is one of the file.                   *)
UpdateDiskFat_NoWait == SendTable

UpdateDiskFat == sent = Nothing /\ SendTable
-----------------------------------------------------------------------------
(* The drive (external) stores what it was sent.  A sector the disk does   *)
(* not have is lost: the driver does not look at the error bit.            *)
StoreData ==
    /\ sent.kind = "data"
    /\ disk' = IF sent.lba \in Sectors
               THEN [disk EXCEPT ![sent.lba] = sent.content] ELSE disk
    /\ sent' = Nothing
    /\ UNCHANGED <<dir, memory, op, stored>>
StoreTable ==
    /\ sent.kind = "table"
    /\ dir' = sent.entries
    /\ sent' = Nothing
    /\ UNCHANGED <<disk, memory, op, stored>>

(* Power off: memory and what is in the drive's buffer are lost.  A name   *)
(* that is not on the disk, or was being written, is no longer expected to *)
(* be there.                                                               *)
PowerOff ==
    /\ up
    /\ up' = FALSE
    /\ fat' = <<>> /\ registered' = 0 /\ free' = 0
    /\ sent' = Nothing
    /\ op' = Idle
    /\ stored' = [n \in Names |->
                    IF (\A i \in DOMAIN dir : dir[i].name # n)
                       \/ (op.phase # "idle" /\ fat[op.file].name = n)
                    THEN Unwritten ELSE stored[n]]
    /\ UNCHANGED platter

Next ==
    \/ InitializeEmptyFat
    \/ LoadFat
    \/ Len(fat) < MaxFiles /\ \E n \in Names, d \in Data : WriteFile(n, d)
    \/ \E n \in Names, d \in Data : OverwriteFile(n, d)
    \/ WriteSector
    \/ UpdateDiskFat
    \/ StoreData
    \/ StoreTable
    \/ PowerOff

Spec == Init /\ [][Next]_vars
-----------------------------------------------------------------------------
TypeOK ==
    /\ \A s \in Sectors :
          disk[s] \in {Blank, Image} \cup UNION {ToSet(d.sectors) : d \in Data}
    /\ dir = NoFat \/ (dir \in Seq(Entry) /\ Len(dir) <= Fit)
    /\ up \in BOOLEAN
    /\ sent.kind \in {"nothing", "data", "table"}
    /\ fat \in Seq(Entry) /\ registered \in 0 .. Len(fat) /\ free \in Nat
    /\ op.phase \in {"idle", "data", "fat"}
    /\ op.phase # "idle" => op.file \in DOMAIN fat
    /\ op.data \in Data \cup {Unwritten}

(* Whenever the power fails, the table on the disk names only sectors that *)
(* were stored: write_file and overwrite_file send data before entries, and*)
(* the drive, which has room for one sector, is waited for in between.     *)
DirectoryAfterData ==
    dir # NoFat =>
      \A i \in DOMAIN dir : \A s \in Extent(dir[i]) \cap Sectors : disk[s] # Blank

(* write_file returns before its entry is on the disk.  A power failure    *)
(* loses at most the file registered last, and that only while the table is*)
(* yet to be sent or in the drive's buffer: once the next call has written *)
(* anything, every file registered before it is on the disk for good, as   *)
(* far as the table's first sector reaches, and no other file ever is.     *)
OnlyLastFileLost ==
    up =>
      \/ dir = Readable(SubSeq(fat, 1, registered))
      \/ /\ op.phase = "fat" \/ sent.kind = "table"
         /\ dir = Readable(SubSeq(fat, 1, registered - 1))

(* No two files share a sector and the next one to be written shares none. *)
Apart ==
    /\ \A i, j \in DOMAIN fat : i # j => Extent(fat[i]) \cap Extent(fat[j]) = {}
    /\ \A i \in DOMAIN fat : \A s \in Extent(fat[i]) : s < free

(* Only load_fat_from_disk, which gets first_ta_free_sector wrong, brings  *)
(* about a state where files overlap or are about to: no sequence of       *)
(* writes, overwrites and power failures does.                             *)
OnlyReloadOverlaps == [][up /\ Apart /\ up' => Apart']_vars

(* A call writes the sectors of its own file and no others, however the    *)
(* sizes of the old and the new data compare.                              *)
WritesStayInFile ==
    [][\A s \in Sectors :
         disk'[s] # disk[s] => op.file # 0 /\ s \in Extent(fat[op.file])]_vars

(* A name has one entry, so overwriting a file never revives an older one, *)
(* also when a name was lost in a power failure and is written again.      *)
UniqueNames == \A i, j \in DOMAIN fat : fat[i].name = fat[j].name => i = j

(* filesystem.c:7: "Read and write from the filesystem using the read_file *)
(* and write_file functions": between calls, read_file returns the sectors *)
(* that the last completed call wrote to the file.                         *)
FilesReadBack ==
    up /\ op.phase = "idle" =>
      \A n \in Names :
         LET d == stored[n]
         IN  d # Unwritten /\ GetFile(n) # 0 =>
               IsPrefix(SubSeq(d.sectors, 1, SizeSectors(d)), ReadFile(n))
=============================================================================
