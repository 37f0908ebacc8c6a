-------------------------------- MODULE Ata ---------------------------------
(***************************************************************************)
(* The PIO driver (src/drivers/ata.c) and the drive behind ports 0x1F0 to  *)
(* 0x1F7 (src/cpu/ports.c).                                                *)
(*                                                                         *)
(* The drive is external.  It shows the driver BSY while it works on a     *)
(* sector and DRQ while it expects or offers one, and answers a sector it  *)
(* does not have with an error.  Its interrupts are in Interrupts: the     *)
(* driver does not wait for any.                                           *)
(* Like the one the Makefile starts it has RDY set all the time, takes a   *)
(* sector count of 0 for the largest one and ignores registers and commands*)
(* written while BSY or DRQ is set.  A poll that finds the bit wrong changes nothing and is left    *)
(* out.  One program calls the driver.                                     *)
(***************************************************************************)
EXTENDS Integers, SequencesExt

CONSTANTS
    DiskSectors,  \* sectors of the disk
    CountWrap,    \* values of the uint8_t sector_count: 256
    Words,        \* words in a sector: 256
    Data,         \* what the sectors given to the driver hold
    Blank, Junk   \* what an unwritten sector holds, and a read without DRQ

ASSUME AtaAssumption ==
    /\ DiskSectors \in Nat /\ CountWrap \in Nat \ {0} /\ Words \in Nat \ {0}
    /\ Data \cap {Blank, Junk} = {} /\ Blank # Junk

VARIABLES
    drv,       \* the driver: [pc, cmd, lba, count, data, sectors and words moved]
    target,    \* the word read_sectors_ATA_PIO stored last
    dev,       \* the drive: [state, cmd, lba, left, buffer]
    disk,      \* what is on it
    clean      \* whether every call since power on named 1 or more sectors,
               \* all on the disk: only the properties read it

vars == <<drv, target, dev, disk, clean>>

Sectors == 0 .. DiskSectors - 1
Sector(d) == [i \in 1 .. Words |-> <<d, i>>]

(* The status register.  ata.c:22 has RDY clear while a drive comes up to  *)
(* speed; the emulator's never is, nor after an error.                     *)
BSY == dev.state = "busy"
RDY == TRUE
DRQ == dev.state = "drq"

NoCall == [pc |-> "idle", cmd |-> "none", lba |-> 0, count |-> 0,
           data |-> Blank, sector |-> 0, word |-> 0]
NoCommand == [state |-> "idle", cmd |-> "none", lba |-> 0, left |-> 0,
              buffer |-> <<>>]

Init ==
    /\ drv = NoCall /\ target = <<Junk, 0>>
    /\ dev = NoCommand
    /\ disk = [s \in Sectors |-> Sector(Blank)]
    /\ clean = TRUE
-----------------------------------------------------------------------------
(* The driver.  sector_count is the caller's number cut to 8 bits; every   *)
(* sector written starts at bytes[0].                                      *)
Call(cmd, lba, n, d) ==
    LET count == n % CountWrap
        run == lba .. lba + count - 1
    IN  /\ drv.pc = "idle"
        /\ drv' = [NoCall EXCEPT !.pc = "select", !.cmd = cmd, !.lba = lba,
                                 !.count = count, !.data = d]
        /\ clean' = (clean /\ count # 0 /\ run \subseteq Sectors)
        /\ UNCHANGED <<target, dev, disk>>

read_sectors_ATA_PIO(lba, n) == Call("read", lba, n, Blank)
write_sectors_ATA_PIO(lba, n, d) == Call("write", lba, n, d)

(* ATA_wait_BSY, the registers, the command: what the drive makes of them. *)
Accepted(count) ==
    [state |-> "busy", cmd |-> drv.cmd, lba |-> drv.lba, left |-> count,
     buffer |-> <<>>]

(* Mutant: the loop runs up to sector_count, inclusive.                    *)
Turn_OneMore(sector) ==
    IF sector <= drv.count
    THEN [drv EXCEPT !.pc = "wait_BSY", !.sector = sector, !.word = 0]
    ELSE NoCall

(* The sector loop: another turn, or the return.                           *)
Turn(sector) ==
    IF sector < drv.count
    THEN [drv EXCEPT !.pc = "wait_BSY", !.sector = sector, !.word = 0]
    ELSE NoCall

Issue ==
    /\ dev' = IF dev.state = "idle"
              THEN Accepted(IF drv.count = 0 THEN CountWrap ELSE drv.count)
              ELSE dev
    /\ drv' = Turn(0)
    /\ UNCHANGED <<target, disk, clean>>

(* Mutant: the drive is not waited for before the registers are written.   *)
IssueCommand_NoWait == drv.pc = "select" /\ Issue

IssueCommand == drv.pc = "select" /\ ~BSY /\ Issue

WaitStatus(from, bit, to) ==
    /\ drv.pc = from
    /\ bit
    /\ drv' = [drv EXCEPT !.pc = to]
    /\ UNCHANGED <<target, dev, disk, clean>>

(* Mutants: the poll for BSY is left out; the other one is for DRQ.        *)
ATA_wait_BSY_None == WaitStatus("wait_BSY", TRUE, "wait_RDY")
ATA_wait_RDY_Data == WaitStatus("wait_RDY", DRQ, "words")

ATA_wait_BSY == WaitStatus("wait_BSY", ~BSY, "wait_RDY")
ATA_wait_RDY == WaitStatus("wait_RDY", RDY, "words")

(* One word through the data register, without a look at DRQ.              *)
WordMoved == drv' = IF drv.word + 1 = Words THEN Turn(drv.sector + 1)
                    ELSE [drv EXCEPT !.word = @ + 1]

(* The drive goes on to the next sector of its command, if there is one.   *)
NextSector(state) ==
    IF dev.left > 1
    THEN [dev EXCEPT !.buffer = <<>>, !.lba = @ + 1, !.left = @ - 1, !.state = state]
    ELSE NoCommand

(* port_word_in and port_word_out on ATA_DATA: the word on the bus, and the*)
(* drive once it has taken one.                                            *)
port_word_in ==
    IF DRQ /\ dev.cmd = "read" THEN Head(dev.buffer) ELSE <<Junk, 0>>
port_word_out(word) ==
    IF DRQ /\ dev.cmd = "write"
    THEN [dev EXCEPT !.buffer = Append(@, word),
                     !.state = IF Len(dev.buffer) + 1 = Words THEN "busy" ELSE @]
    ELSE dev

(* target[i] = port_word_in(ATA_DATA).                                     *)
ReadWord ==
    /\ drv.pc = "words" /\ drv.cmd = "read"
    /\ WordMoved
    /\ target' = port_word_in
    /\ dev' = IF ~DRQ \/ dev.cmd # "read" THEN dev
              ELSE IF Len(dev.buffer) > 1 THEN [dev EXCEPT !.buffer = Tail(@)]
              ELSE NextSector("busy")
    /\ UNCHANGED <<disk, clean>>

(* port_word_out(ATA_DATA, bytes[i]).                                      *)
WriteWord ==
    /\ drv.pc = "words" /\ drv.cmd = "write"
    /\ WordMoved
    /\ dev' = port_word_out(<<drv.data, drv.word + 1>>)
    /\ UNCHANGED <<target, disk, clean>>

DriverStep == IssueCommand \/ ATA_wait_BSY \/ ATA_wait_RDY \/ ReadWord \/ WriteWord
-----------------------------------------------------------------------------
(* The drive (external).                                                   *)

(* It has no such sector, and sets the error bit nobody looks at.          *)
DriveFails ==
    /\ BSY /\ dev.lba \notin Sectors
    /\ dev' = NoCommand
    /\ UNCHANGED <<drv, target, disk, clean>>

(* The sector to be read is there; the first to be written is asked for.   *)
DriveReady ==
    /\ BSY /\ dev.lba \in Sectors /\ dev.buffer = <<>>
    /\ dev' = [dev EXCEPT !.state = "drq",
                          !.buffer = IF dev.cmd = "read" THEN disk[dev.lba] ELSE @]
    /\ UNCHANGED <<drv, target, disk, clean>>

(* A sector is stored and the next asked for.                              *)
DriveStores ==
    /\ BSY /\ dev.lba \in Sectors /\ dev.buffer # <<>>
    /\ disk' = [disk EXCEPT ![dev.lba] = dev.buffer]
    /\ dev' = NextSector(IF dev.lba + 1 \in Sectors THEN "drq" ELSE "busy")
    /\ UNCHANGED <<drv, target, clean>>

DriveStep == DriveFails \/ DriveReady \/ DriveStores

(* Power off and on: what the driver and the drive were doing is forgotten.*)
PowerOff ==
    /\ drv' = NoCall /\ dev' = NoCommand /\ clean' = TRUE
    /\ UNCHANGED <<target, disk>>

Next ==
    \/ \E lba \in Sectors, n \in 0 .. CountWrap : read_sectors_ATA_PIO(lba, n)
    \/ \E lba \in Sectors, n \in 0 .. CountWrap, d \in Data :
          write_sectors_ATA_PIO(lba, n, d)
    \/ DriverStep \/ DriveStep \/ PowerOff

(* The calling program runs on, and the drive works.                       *)
Spec == Init /\ [][Next]_vars /\ WF_vars(DriverStep) /\ WF_vars(DriveStep)
-----------------------------------------------------------------------------
TypeOK ==
    /\ drv.pc \in {"idle", "select", "wait_BSY", "wait_RDY", "words"}
    /\ drv.word \in 0 .. Words - 1
    /\ drv.pc \in {"wait_BSY", "wait_RDY", "words"} => drv.sector \in 0 .. drv.count - 1
    /\ dev.state \in {"idle", "busy", "drq"} /\ dev.left \in 0 .. CountWrap
    /\ \A s \in Sectors : Len(disk[s]) = Words

(* The sector the drive has received but not stored, then those the driver *)
(* has not sent yet.                                                       *)
Received ==
    IF BSY /\ dev.cmd = "write" /\ dev.buffer # <<>>
    THEN <<[lba |-> dev.lba, content |-> dev.buffer]>> ELSE <<>>
Unsent ==
    IF drv.cmd = "write"
    THEN [k \in 1 .. drv.count - drv.sector |->
            [lba |-> drv.lba + drv.sector + k - 1, content |-> Sector(drv.data)]]
    ELSE <<>>

Store == INSTANCE SectorStore
         WITH Contents <- {Sector(d) : d \in Data \cup {Blank}},
              pending <- Received \o Unsent,
              ok <- clean

(* Word by word, with two partners that watch each other's bits, the sector*)
(* writes come about that the file system counts on: in order, nothing else*)
(* on the disk changed, and at most one sector to go when a call returns;  *)
(* unless a call named no sectors, or some beyond the end of the disk.     *)
ImplementsSectorStore == Store!Spec

(* ata.c:25 says of DRQ "Don't access the data register while this bit is  *)
(* 0".  The driver never looks at the bit, yet it keeps to that as long as *)
(* the drive has the sectors named, because polling BSY is enough; and     *)
(* every word it reads is the one of the sectors asked for that belongs    *)
(* where it is stored.                                                     *)
DataWhileRequested ==
    [][/\ clean /\ (ReadWord \/ WriteWord) => DRQ
       /\ clean /\ ReadWord =>
            target' = disk[drv.lba + drv.sector][drv.word + 1]]_vars

(* A call of the driver returns, from a drive that has RDY set, also when  *)
(* it answers with an error or has ignored the command: DRQ, which it then *)
(* leaves clear, is not waited for, and BSY ends.                          *)
CallsReturn == drv.pc # "idle" ~> drv.pc = "idle"
=============================================================================
