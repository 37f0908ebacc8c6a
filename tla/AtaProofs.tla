----------------------------- MODULE AtaProofs ------------------------------
(***************************************************************************)
(* Theorems about Ata, for every size of the disk and of a sector and every*)
(* range of sector_count: type correctness, the data register is accessed  *)
(* only while DRQ is set, and the driver with its drive implements         *)
(* SectorStore.                                                            *)
(***************************************************************************)
EXTENDS Ata, Lemmas

Word == (Data \cup {Blank}) \X Nat
Drivers == [pc : {"idle", "select", "wait_BSY", "wait_RDY", "words"},
            cmd : {"none", "read", "write"}, lba : Nat, count : Nat,
            data : Data \cup {Blank}, sector : Nat, word : Nat]
Drives == [state : {"idle", "busy", "drq"}, cmd : {"none", "read", "write"},
           lba : Nat, left : Nat, buffer : Seq(Word)]
SectorContents == {s \in Seq(Word) : Len(s) = Words}

InLoop == drv.pc \in {"wait_BSY", "wait_RDY", "words"}

(* The driver's variables, whatever the drive does.                        *)
DriverOK ==
    /\ drv \in Drivers
    /\ drv.pc = "idle" => drv = NoCall
    /\ drv.pc # "idle" => drv.cmd \in {"read", "write"}
    /\ drv.pc = "select" => drv.sector = 0
    /\ drv.pc # "words" => drv.word = 0
    /\ InLoop => drv.sector < drv.count
    /\ drv.word < Words /\ drv.count < CountWrap

(* The drive's: its buffer is empty or full while it is busy, and has room *)
(* or something left while it asks for words or offers them.               *)
DriveOK ==
    /\ dev \in Drives
    /\ dev.state = "idle" => dev = NoCommand
    /\ dev.state # "idle" => dev.cmd \in {"read", "write"} /\ dev.left > 0
    /\ dev.state = "busy" =>
         dev.buffer = <<>> \/ (dev.cmd = "write" /\ Len(dev.buffer) = Words)
    /\ dev.state = "drq" =>
         IF dev.cmd = "read" THEN dev.buffer # <<>> ELSE Len(dev.buffer) < Words
    /\ dev.left <= CountWrap

(* As long as the calls name sectors of the disk:                          *)

RunOnDisk ==
    clean /\ drv.pc # "idle" => drv.count > 0 /\ drv.lba + drv.count <= DiskSectors

(* between two commands the drive is idle or stores the last sector;       *)
Between ==
    clean /\ drv.pc \in {"idle", "select"} =>
      \/ dev.state = "idle"
      \/ /\ dev.state = "busy" /\ dev.cmd = "write" /\ dev.left = 1
         /\ dev.lba < DiskSectors
         /\ dev.buffer # <<>>

(* in the loop it is at the driver's sector, and has as many of its words, *)
FirstWords(d, n) == [i \in 1 .. n |-> <<d, i>>]
Offered ==
    /\ dev.lba = drv.lba + drv.sector /\ dev.left = drv.count - drv.sector
    /\ \/ drv.pc = "wait_BSY" /\ dev.state = "busy" /\ dev.buffer = <<>>
       \/ /\ dev.state = "drq"
          /\ dev.buffer = IF drv.cmd = "read"
                          THEN SubSeq(disk[dev.lba], drv.word + 1, Words)
                          ELSE FirstWords(drv.data, drv.word)
(* or still at the sector before, which it has and has not stored.         *)
Storing ==
    /\ drv.pc = "wait_BSY" /\ drv.cmd = "write" /\ dev.state = "busy"
    /\ drv.sector > 0
    /\ dev.lba = drv.lba + drv.sector - 1 /\ dev.left = drv.count - drv.sector + 1
    /\ dev.buffer = Sector(drv.data)
InStep == clean /\ InLoop => dev.cmd = drv.cmd /\ (Offered \/ Storing)

IInv ==
    /\ DriverOK /\ DriveOK
    /\ disk \in [Sectors -> SectorContents] /\ clean \in BOOLEAN
    /\ RunOnDisk /\ Between /\ InStep
-----------------------------------------------------------------------------
LEMMA Constants ==
    DiskSectors \in Nat /\ CountWrap \in Nat /\ CountWrap > 0 /\ Words \in Nat /\ Words > 0
BY AtaAssumption

(* The words of a sector in the order they go through the data register.   *)
LEMMA FirstWordsGrow ==
    ASSUME NEW d \in Data \cup {Blank}, NEW n \in Nat
    PROVE  /\ FirstWords(d, n) \in Seq(Word) /\ Len(FirstWords(d, n)) = n
           /\ Append(FirstWords(d, n), <<d, n + 1>>) = FirstWords(d, n + 1)
           /\ FirstWords(d, 0) = <<>>
           /\ n > 0 => FirstWords(d, n) # <<>>
<1>1. FirstWords(d, n) \in Seq(Word) /\ Len(FirstWords(d, n)) = n
      /\ FirstWords(d, n + 1) \in Seq(Word) /\ Len(FirstWords(d, n + 1)) = n + 1
  BY DEF FirstWords, Word
<1>2. <<d, n + 1>> \in Word
  BY DEF Word
<1>3. Append(FirstWords(d, n), <<d, n + 1>>) = FirstWords(d, n + 1)
  <2> DEFINE s == Append(FirstWords(d, n), <<d, n + 1>>)
             t == FirstWords(d, n + 1)
  <2>1. s \in Seq(Word) /\ Len(s) = n + 1
    BY <1>1, <1>2
  <2>2. ASSUME NEW i \in 1 .. n + 1 PROVE s[i] = t[i]
    BY <1>1, <1>2, <2>2 DEF FirstWords
  <2> HIDE DEF s, t
  <2>3. t \in Seq(Word) /\ Len(t) = n + 1
    BY <1>1 DEF t
  <2>4. s = t
    BY <2>1, <2>2, <2>3, SeqEqual
  <2> QED BY <2>4 DEF s, t
<1>4. FirstWords(d, 0) = <<>>
  BY DEF FirstWords
<1> QED BY <1>1, <1>3, <1>4

LEMMA SectorIsItsWords ==
    ASSUME NEW d \in Data \cup {Blank}
    PROVE  /\ Sector(d) = FirstWords(d, Words)
           /\ Sector(d) \in SectorContents /\ Sector(d) # <<>>
<1>1. Sector(d) = FirstWords(d, Words)
  BY DEF Sector, FirstWords
<1> QED BY <1>1, FirstWordsGrow, Constants DEF SectorContents

(* What is left of a sector as its words are read.                         *)
LEMMA RestOfSector ==
    ASSUME NEW s \in SectorContents, NEW w \in 0 .. Words - 1
    PROVE  LET rest == SubSeq(s, w + 1, Words)
           IN  /\ rest \in Seq(Word) /\ Len(rest) = Words - w /\ rest # <<>>
               /\ Head(rest) = s[w + 1] /\ s[w + 1] \in Word
               /\ Tail(rest) = SubSeq(s, w + 2, Words)
               /\ SubSeq(s, 1, Words) = s
<1>1. s \in Seq(Word) /\ Len(s) = Words /\ Words \in Nat /\ w \in Nat /\ w < Words
  BY Constants DEF SectorContents
<1> DEFINE rest == SubSeq(s, w + 1, Words)
<1>2. rest \in Seq(Word) /\ Len(rest) = Words - w
      /\ \A i \in 1 .. Words - w : rest[i] = s[w + i]
  BY <1>1
<1>3. Head(rest) = s[w + 1] /\ s[w + 1] \in Word /\ rest # <<>>
  BY <1>1, <1>2
<1>4. Tail(rest) = SubSeq(s, w + 2, Words)
  <2>1. w + 1 \in 1 .. Len(s) /\ Words \in w + 1 .. Len(s) /\ w + 1 + 1 = w + 2
    BY <1>1
  <2> QED BY <1>1, <2>1, HeadTailOfSubSeq
<1>5. SubSeq(s, 1, Words) = s
  BY <1>1
<1> QED BY <1>2, <1>3, <1>4, <1>5
-----------------------------------------------------------------------------
(* A step that changes neither the disk nor the history of the calls.      *)
LEMMA DiskStays ==
    ASSUME IInv, UNCHANGED <<disk, clean>>
    PROVE  disk' \in [Sectors -> SectorContents] /\ clean' \in BOOLEAN
BY DEF IInv

(* read_sectors_ATA_PIO and write_sectors_ATA_PIO are called.              *)
LEMMA CallStep ==
    ASSUME IInv, NEW cmd \in {"read", "write"}, NEW lba \in Sectors,
           NEW n \in 0 .. CountWrap, NEW d \in Data \cup {Blank}, Call(cmd, lba, n, d)
    PROVE  IInv' /\ (clean' => drv'.count \in 1 .. DiskSectors
                               /\ drv'.lba + drv'.count <= DiskSectors)
<1> DEFINE count == n % CountWrap
<1>1. count \in Nat /\ count < CountWrap /\ lba \in Nat /\ lba < DiskSectors
  BY Constants DEF Sectors
<1>2. /\ drv.pc = "idle"
      /\ drv' = [NoCall EXCEPT !.pc = "select", !.cmd = cmd, !.lba = lba,
                               !.count = count, !.data = d]
      /\ clean' = (clean /\ count # 0 /\ lba .. lba + count - 1 \subseteq Sectors)
      /\ UNCHANGED <<dev, disk>>
  BY DEF Call
<1> HIDE DEF count
<1>3. drv' = [pc |-> "select", cmd |-> cmd, lba |-> lba, count |-> count,
              data |-> d, sector |-> 0, word |-> 0]
  BY <1>2 DEF NoCall
<1>4. DriverOK' /\ drv'.pc = "select" /\ drv'.count = count /\ drv'.lba = lba
  BY <1>1, <1>3, Constants DEF DriverOK, Drivers, InLoop
<1>5. DriveOK'
  BY <1>2 DEF IInv, DriveOK
<1>6. clean' => count > 0 /\ lba + count <= DiskSectors
  <2> SUFFICES ASSUME clean' PROVE count > 0 /\ lba + count <= DiskSectors
    OBVIOUS
  <2>1. count # 0 /\ lba .. lba + count - 1 \subseteq Sectors
    BY <1>2, Zenon
  <2>2. lba + count - 1 \in Sectors
    BY <1>1, <2>1
  <2> QED BY <1>1, <2>1, <2>2, Constants DEF Sectors
<1>7. RunOnDisk' /\ Between' /\ InStep'
  BY <1>2, <1>4, <1>6 DEF IInv, RunOnDisk, Between, InStep, InLoop
<1>8. disk' \in [Sectors -> SectorContents] /\ clean' \in BOOLEAN
  BY <1>2 DEF IInv
<1> QED
  BY <1>1, <1>4, <1>5, <1>6, <1>7, <1>8, Constants DEF IInv

(* Another turn of the loop, or the return.                                *)
LEMMA TurnValue ==
    ASSUME DriverOK, drv.pc # "idle", NEW sector \in Nat
    PROVE  LET turn == Turn(sector)
           IN  /\ turn \in Drivers
               /\ sector < drv.count =>
                    turn = [pc |-> "wait_BSY", cmd |-> drv.cmd, lba |-> drv.lba,
                            count |-> drv.count, data |-> drv.data,
                            sector |-> sector, word |-> 0]
               /\ sector >= drv.count => turn = NoCall
<1>1. drv \in Drivers /\ drv.cmd \in {"read", "write"}
  BY DEF DriverOK
<1>2. CASE sector < drv.count
  <2>1. Turn(sector) = [drv EXCEPT !.pc = "wait_BSY", !.sector = sector, !.word = 0]
    BY <1>2 DEF Turn
  <2>2. Turn(sector) = [pc |-> "wait_BSY", cmd |-> drv.cmd, lba |-> drv.lba,
                        count |-> drv.count, data |-> drv.data,
                        sector |-> sector, word |-> 0]
    BY <1>1, <2>1 DEF Drivers
  <2>3. drv.lba \in Nat /\ drv.count \in Nat /\ drv.data \in Data \cup {Blank}
    BY <1>1 DEF Drivers
  <2> QED BY <1>1, <1>2, <2>2, <2>3 DEF Drivers
<1>3. CASE ~(sector < drv.count)
  <2>1. Turn(sector) = NoCall
    BY <1>3 DEF Turn
  <2> QED BY <1>1, <1>3, <2>1 DEF Drivers, NoCall
<1> QED BY <1>2, <1>3

LEMMA TurnOK ==
    ASSUME DriverOK, drv.pc # "idle", NEW sector \in Nat, drv' = Turn(sector)
    PROVE  DriverOK'
<1>1. drv.cmd \in {"read", "write"} /\ drv.count < CountWrap /\ drv.count \in Nat
  BY DEF DriverOK, Drivers
<1>2. CASE sector < drv.count
  BY <1>1, <1>2, TurnValue, Constants DEF DriverOK, InLoop
<1>3. CASE sector >= drv.count
  BY <1>1, <1>3, TurnValue, Constants DEF DriverOK, InLoop, NoCall
<1> QED BY <1>1, <1>2, <1>3

(* The command goes to an idle drive, or to one that ignores it.           *)
LEMMA IssueCommandStep == ASSUME IInv, IssueCommand PROVE IInv'
<1>1. /\ drv.pc = "select" /\ dev.state # "busy" /\ drv' = Turn(0)
      /\ dev' = IF dev.state = "idle"
                THEN [state |-> "busy", cmd |-> drv.cmd, lba |-> drv.lba,
                      left |-> IF drv.count = 0 THEN CountWrap ELSE drv.count,
                      buffer |-> <<>>]
                ELSE dev
      /\ UNCHANGED <<disk, clean>>
  BY DEF IssueCommand, Issue, BSY, Accepted
<1>2. DriverOK /\ drv \in Drivers /\ drv.sector = 0 /\ drv.cmd \in {"read", "write"}
      /\ drv.count \in Nat /\ drv.lba \in Nat /\ drv.count < CountWrap
  BY <1>1 DEF IInv, DriverOK, Drivers
<1>3. DriverOK'
  BY <1>1, <1>2, TurnOK
<1>4. DriveOK'
  BY <1>1, <1>2, Constants DEF IInv, DriveOK, Drives
<1>5. ASSUME clean
      PROVE  /\ drv' = [pc |-> "wait_BSY", cmd |-> drv.cmd, lba |-> drv.lba,
                        count |-> drv.count, data |-> drv.data,
                        sector |-> 0, word |-> 0]
             /\ dev' = [state |-> "busy", cmd |-> drv.cmd, lba |-> drv.lba,
                        left |-> drv.count, buffer |-> <<>>]
  <2>1. drv.count > 0
    BY <1>1, <1>5 DEF IInv, RunOnDisk
  <2>2. dev.state = "idle"
    BY <1>1, <1>5 DEF IInv, Between
  <2> QED BY <1>1, <1>2, <2>1, <2>2, TurnValue
<1>6. RunOnDisk' /\ Between' /\ InStep'
  BY <1>1, <1>2, <1>5 DEF IInv, RunOnDisk, Between, InStep, Offered, InLoop
<1> QED
  BY <1>1, <1>3, <1>4, <1>6, DiskStays DEF IInv

(* A poll of the status register ends.                                     *)
LEMMA WaitStep == ASSUME IInv, ATA_wait_BSY \/ ATA_wait_RDY PROVE IInv'
<1>1. PICK to \in {"wait_RDY", "words"} :
        /\ drv' = [drv EXCEPT !.pc = to]
        /\ \/ drv.pc = "wait_BSY" /\ to = "wait_RDY" /\ dev.state # "busy"
           \/ drv.pc = "wait_RDY" /\ to = "words"
        /\ UNCHANGED <<dev, disk, clean>>
  BY DEF ATA_wait_BSY, ATA_wait_RDY, WaitStatus, BSY
<1>2. drv \in Drivers /\ drv' \in Drivers /\ drv'.pc = to
      /\ drv'.cmd = drv.cmd /\ drv'.lba = drv.lba /\ drv'.count = drv.count
      /\ drv'.data = drv.data /\ drv'.sector = drv.sector /\ drv'.word = drv.word
  BY <1>1 DEF IInv, DriverOK, Drivers
<1>3. DriverOK'
  BY <1>1, <1>2 DEF IInv, DriverOK, InLoop
<1>4. DriveOK'
  BY <1>1 DEF IInv, DriveOK
<1>5. RunOnDisk' /\ Between'
  BY <1>1, <1>2 DEF IInv, RunOnDisk, Between
<1>6. InStep'
  BY <1>1, <1>2 DEF IInv, InStep, InLoop, Offered, Storing
<1> QED
  BY <1>1, <1>3, <1>4, <1>5, <1>6, DiskStays DEF IInv

(* The drive's next sector.                                                *)
LEMMA NextSectorValue ==
    ASSUME DriveOK, NEW state \in {"busy", "drq"}
    PROVE  LET next == NextSector(state)
           IN  /\ dev.left > 1 =>
                    next = [state |-> state, cmd |-> dev.cmd, lba |-> dev.lba + 1,
                            left |-> dev.left - 1, buffer |-> <<>>]
               /\ dev.left <= 1 => next = NoCommand
               /\ dev.left \in Nat /\ dev.lba \in Nat
<1>1. dev \in Drives /\ dev.left \in Nat /\ dev.lba \in Nat
  BY DEF DriveOK, Drives
<1>2. dev.left > 1 =>
        NextSector(state) = [dev EXCEPT !.buffer = <<>>, !.lba = dev.lba + 1,
                                        !.left = dev.left - 1, !.state = state]
  BY DEF NextSector
<1>3. dev.left <= 1 => NextSector(state) = NoCommand
  BY <1>1 DEF NextSector
<1> QED BY <1>1, <1>2, <1>3 DEF Drives

LEMMA NextSectorOK ==
    ASSUME DriveOK, dev.state # "idle", NEW state \in {"busy", "drq"},
           dev' = NextSector(state), state = "drq" => dev.cmd = "write"
    PROVE  DriveOK'
<1>1. dev.cmd \in {"read", "write"} /\ dev.left \in Nat /\ dev.lba \in Nat
      /\ dev.left <= CountWrap
  BY DEF DriveOK, Drives
<1>2. CASE dev.left > 1
  <2>1. dev' = [state |-> state, cmd |-> dev.cmd, lba |-> dev.lba + 1,
                left |-> dev.left - 1, buffer |-> <<>>]
    BY <1>2, NextSectorValue
  <2>2. dev' \in Drives
    BY <1>1, <1>2, <2>1 DEF Drives
  <2> QED BY <1>1, <1>2, <2>1, <2>2, Constants DEF DriveOK
<1>3. CASE dev.left <= 1
  <2>1. dev' = NoCommand
    BY <1>3, NextSectorValue
  <2> QED BY <2>1, Constants DEF DriveOK, Drives, NoCommand
<1> QED BY <1>1, <1>2, <1>3
-----------------------------------------------------------------------------
(* A word went through the data register.                                  *)
LEMMA WordMovedValue ==
    ASSUME IInv, drv.pc = "words", WordMoved
    PROVE  /\ DriverOK' /\ drv.sector + 1 \in Nat /\ drv.word \in Nat
           /\ drv.word + 1 < Words =>
                drv' = [pc |-> "words", cmd |-> drv.cmd, lba |-> drv.lba,
                        count |-> drv.count, data |-> drv.data,
                        sector |-> drv.sector, word |-> drv.word + 1]
           /\ drv.word + 1 >= Words => drv' = Turn(drv.sector + 1)
           /\ drv'.count = drv.count \/ drv'.pc = "idle"
           /\ drv'.lba = drv.lba \/ drv'.pc = "idle"
           /\ drv'.pc \notin {"select", "wait_RDY"}
<1>1. /\ DriverOK /\ drv \in Drivers /\ drv.sector \in Nat /\ drv.word \in Nat
      /\ drv.count \in Nat /\ drv.word < Words /\ Words \in Nat
  BY Constants DEF IInv, DriverOK, Drivers
<1>2. CASE drv.word + 1 = Words
  <2>1. drv' = Turn(drv.sector + 1)
    BY <1>2 DEF WordMoved
  <2>2. DriverOK'
    BY <1>1, <2>1, TurnOK
  <2>3. CASE drv.sector + 1 < drv.count
    BY <1>1, <1>2, <2>1, <2>2, <2>3, TurnValue
  <2>4. CASE drv.sector + 1 >= drv.count
    BY <1>1, <1>2, <2>1, <2>2, <2>4, TurnValue DEF NoCall
  <2> QED BY <1>1, <2>3, <2>4
<1>3. CASE drv.word + 1 # Words
  <2>1. drv' = [drv EXCEPT !.word = drv.word + 1]
    BY <1>3 DEF WordMoved
  <2>2. drv' = [pc |-> "words", cmd |-> drv.cmd, lba |-> drv.lba,
                count |-> drv.count, data |-> drv.data,
                sector |-> drv.sector, word |-> drv.word + 1]
    BY <1>1, <2>1 DEF Drivers
  <2>3. drv' \in Drivers
    BY <1>1, <2>1 DEF Drivers
  <2>4. DriverOK'
    BY <1>1, <1>3, <2>2, <2>3 DEF DriverOK, InLoop
  <2> QED BY <1>1, <1>3, <2>2, <2>4
<1> QED BY <1>2, <1>3

(* While only sectors of the disk were named, a word is moved when the     *)
(* drive is at the driver's sector and word.                               *)
LEMMA WordInStep ==
    ASSUME IInv, clean, drv.pc = "words"
    PROVE  /\ dev.state = "drq" /\ dev.cmd = drv.cmd
           /\ drv.lba + drv.sector \in Sectors
           /\ dev.lba = drv.lba + drv.sector /\ dev.left = drv.count - drv.sector
           /\ drv.word \in 0 .. Words - 1 /\ drv.sector \in Nat /\ drv.count \in Nat
           /\ drv.sector < drv.count /\ dev.lba \in Nat
           /\ dev.buffer = IF drv.cmd = "read"
                           THEN SubSeq(disk[dev.lba], drv.word + 1, Words)
                           ELSE FirstWords(drv.data, drv.word)
<1>1. /\ drv.lba \in Nat /\ drv.sector \in Nat /\ drv.count \in Nat /\ drv.word \in Nat
      /\ drv.sector < drv.count /\ drv.word < Words
  BY DEF IInv, DriverOK, Drivers, InLoop
<1>2. drv.lba + drv.count <= DiskSectors
  BY DEF IInv, RunOnDisk
<1>3. dev.cmd = drv.cmd /\ Offered
  BY DEF IInv, InStep, InLoop, Storing
<1> QED BY <1>1, <1>2, <1>3, Constants DEF Offered, Sectors

LEMMA ReadWordStep ==
    ASSUME IInv, ReadWord
    PROVE  /\ IInv'
           /\ clean => DRQ /\ target' = disk[drv.lba + drv.sector][drv.word + 1]
<1>1. /\ drv.pc = "words" /\ drv.cmd = "read" /\ WordMoved /\ target' = port_word_in
      /\ dev' = IF dev.state # "drq" \/ dev.cmd # "read" THEN dev
                ELSE IF Len(dev.buffer) > 1 THEN [dev EXCEPT !.buffer = Tail(@)]
                ELSE NextSector("busy")
      /\ UNCHANGED <<disk, clean>>
  BY DEF ReadWord, DRQ
<1>2. DriveOK /\ dev \in Drives /\ dev.buffer \in Seq(Word)
  BY DEF IInv, DriveOK, Drives
<1>3. CASE dev.state # "drq" \/ dev.cmd # "read"
  <2>1. ~clean /\ dev' = dev
    BY <1>1, <1>3, WordInStep
  <2> QED
    BY <1>1, <1>2, <2>1, WordMovedValue, DiskStays
    DEF IInv, DriveOK, RunOnDisk, Between, InStep
<1>4. CASE dev.state = "drq" /\ dev.cmd = "read"
  <2>1. DriveOK'
    <3>1. CASE Len(dev.buffer) > 1
      <4>1. dev' = [dev EXCEPT !.buffer = Tail(dev.buffer)]
        BY <1>1, <1>4, <3>1
      <4>2. Tail(dev.buffer) \in Seq(Word) /\ Tail(dev.buffer) # <<>>
        <5> DEFINE buffer == dev.buffer
        <5>1. buffer \in Seq(Word) /\ Len(buffer) > 1
          BY <1>2, <3>1
        <5> HIDE DEF buffer
        <5>2. Tail(buffer) \in Seq(Word) /\ Len(Tail(buffer)) = Len(buffer) - 1
          BY <5>1, HeadTailProperties
        <5>3. Len(Tail(buffer)) # 0
          BY <5>1, <5>2
        <5>4. Tail(buffer) # <<>>
          BY <5>3
        <5> QED BY <5>2, <5>4 DEF buffer
      <4>3. dev' \in Drives /\ dev'.state = "drq" /\ dev'.cmd = "read"
            /\ dev'.left = dev.left /\ dev'.buffer # <<>>
        BY <1>2, <1>4, <4>1, <4>2 DEF Drives
      <4> QED BY <1>2, <1>4, <4>3 DEF DriveOK
    <3>2. CASE ~(Len(dev.buffer) > 1)
      <4>1. dev' = NextSector("busy")
        BY <1>1, <1>4, <3>2
      <4> QED BY <1>2, <1>4, <4>1, NextSectorOK
    <3> QED BY <3>1, <3>2
  <2>2. RunOnDisk'
    BY <1>1, WordMovedValue DEF IInv, RunOnDisk
  <2>3. ASSUME clean
        PROVE  /\ Between' /\ InStep'
               /\ target' = disk[drv.lba + drv.sector][drv.word + 1]
    <3> DEFINE s == disk[dev.lba]
    <3>1. dev.buffer = SubSeq(s, drv.word + 1, Words) /\ s \in SectorContents
          /\ drv.word \in 0 .. Words - 1
      BY <1>1, <2>3, WordInStep DEF IInv
    <3> HIDE DEF s
    <3>2. /\ Len(dev.buffer) = Words - drv.word /\ dev.buffer # <<>>
          /\ Head(dev.buffer) = s[drv.word + 1]
          /\ Tail(dev.buffer) = SubSeq(s, drv.word + 2, Words)
      <4> DEFINE rest == SubSeq(s, drv.word + 1, Words)
      <4>1. /\ Len(rest) = Words - drv.word /\ rest # <<>>
            /\ Head(rest) = s[drv.word + 1]
            /\ Tail(rest) = SubSeq(s, drv.word + 2, Words)
        BY <3>1, RestOfSector, Zenon
      <4> HIDE DEF rest
      <4>2. dev.buffer = rest
        BY <3>1 DEF rest
      <4> QED BY <4>1, <4>2
    <3>3. target' = disk[drv.lba + drv.sector][drv.word + 1]
      <4>1. target' = Head(dev.buffer)
        BY <1>1, <1>4 DEF port_word_in, DRQ
      <4> QED BY <1>1, <2>3, <3>2, <4>1, WordInStep DEF s
    <3>4. CASE drv.word + 1 < Words
      <4>1. dev' = [dev EXCEPT !.buffer = Tail(dev.buffer)]
        BY <1>1, <1>4, <3>1, <3>2, <3>4, Constants
      <4>2. dev'.buffer = SubSeq(s, drv.word + 2, Words) /\ dev'.state = "drq"
            /\ dev'.cmd = "read" /\ dev'.lba = dev.lba /\ dev'.left = dev.left
        BY <1>2, <1>4, <3>2, <4>1 DEF Drives
      <4>3. drv' = [pc |-> "words", cmd |-> "read", lba |-> drv.lba,
                    count |-> drv.count, data |-> drv.data,
                    sector |-> drv.sector, word |-> drv.word + 1]
        BY <1>1, <3>4, WordMovedValue
      <4>4. drv.word + 1 + 1 = drv.word + 2
        BY <3>1, Constants
      <4>5. dev.lba = drv.lba + drv.sector /\ dev.left = drv.count - drv.sector
        BY <1>1, <2>3, WordInStep
      <4>6. dev'.buffer = SubSeq(disk'[dev'.lba], drv'.word + 1, Words)
        BY <1>1, <4>2, <4>3, <4>4 DEF s
      <4>7. Between' /\ InStep'
        BY <4>2, <4>3, <4>5, <4>6 DEF Between, InStep, Offered, InLoop
      <4> QED BY <3>3, <4>7
    <3>5. CASE drv.word + 1 >= Words
      <4>1. dev' = NextSector("busy") /\ drv' = Turn(drv.sector + 1)
        BY <1>1, <1>4, <3>1, <3>2, <3>5, WordMovedValue, Constants
      <4>2. /\ dev.lba = drv.lba + drv.sector /\ dev.left = drv.count - drv.sector
            /\ drv.sector \in Nat /\ drv.count \in Nat /\ drv.lba \in Nat
            /\ drv.sector < drv.count
        BY <1>1, <2>3, WordInStep DEF IInv, DriverOK, Drivers
      <4>3. CASE drv.sector + 1 < drv.count
        <5>1. drv' = [pc |-> "wait_BSY", cmd |-> "read", lba |-> drv.lba,
                      count |-> drv.count, data |-> drv.data,
                      sector |-> drv.sector + 1, word |-> 0]
          BY <1>1, <4>1, <4>2, <4>3, TurnValue DEF IInv
        <5>2. dev' = [state |-> "busy", cmd |-> "read", lba |-> dev.lba + 1,
                      left |-> dev.left - 1, buffer |-> <<>>]
          BY <1>2, <1>4, <4>1, <4>2, <4>3, NextSectorValue
        <5>3. Between' /\ InStep'
          BY <4>2, <5>1, <5>2 DEF Between, InStep, Offered, InLoop
        <5> QED BY <3>3, <5>3
      <4>4. CASE drv.sector + 1 >= drv.count
        <5>1. drv' = NoCall
          BY <1>1, <4>1, <4>2, <4>4, TurnValue DEF IInv
        <5>2. dev' = NoCommand
          BY <1>2, <4>1, <4>2, <4>4, NextSectorValue
        <5>3. Between' /\ InStep'
          BY <5>1, <5>2 DEF Between, InStep, InLoop, NoCall, NoCommand
        <5> QED BY <3>3, <5>3
      <4> QED BY <4>2, <4>3, <4>4
    <3> QED BY <3>1, <3>4, <3>5, Constants
  <2>4. Between' /\ InStep'
    BY <1>1, <2>3 DEF Between, InStep
  <2> QED
    BY <1>1, <1>4, <2>1, <2>2, <2>3, <2>4, WordMovedValue, DiskStays DEF IInv, DRQ
<1> QED BY <1>3, <1>4

LEMMA WriteWordStep ==
    ASSUME IInv, WriteWord
    PROVE  /\ IInv'
           /\ clean =>
                /\ DRQ
                /\ drv.word + 1 < Words =>
                     /\ dev'.state = "drq" /\ dev'.cmd = "write"
                     /\ drv'.pc = "words" /\ drv'.cmd = "write" /\ drv'.lba = drv.lba
                     /\ drv'.count = drv.count /\ drv'.data = drv.data
                     /\ drv'.sector = drv.sector
                /\ drv.word + 1 >= Words =>
                     /\ dev'.state = "busy" /\ dev'.cmd = "write"
                     /\ dev'.lba = dev.lba /\ dev'.buffer = Sector(drv.data)
                     /\ drv' = Turn(drv.sector + 1)
<1> DEFINE w == <<drv.data, drv.word + 1>>
           filled == Append(dev.buffer, w)
<1>1. /\ drv.pc = "words" /\ drv.cmd = "write" /\ WordMoved
      /\ dev' = IF dev.state = "drq" /\ dev.cmd = "write"
                THEN [dev EXCEPT !.buffer = filled,
                        !.state = IF Len(dev.buffer) + 1 = Words THEN "busy" ELSE @]
                ELSE dev
      /\ UNCHANGED <<disk, clean>>
  BY DEF WriteWord, port_word_out, DRQ
<1>2. /\ DriveOK /\ dev \in Drives /\ dev.buffer \in Seq(Word)
      /\ drv.data \in Data \cup {Blank} /\ drv.word \in Nat /\ w \in Word
  BY DEF IInv, DriveOK, Drives, DriverOK, Drivers, Word
<1>3. filled \in Seq(Word) /\ Len(filled) = Len(dev.buffer) + 1 /\ filled # <<>>
      /\ Len(dev.buffer) \in Nat
  <2> HIDE DEF w
  <2>1. Len(filled) = Len(dev.buffer) + 1 /\ Len(dev.buffer) \in Nat
        /\ filled \in Seq(Word)
    BY <1>2
  <2>2. filled # <<>>
    BY <2>1
  <2> QED BY <2>1, <2>2
<1> HIDE DEF w, filled
<1>4. CASE ~(dev.state = "drq" /\ dev.cmd = "write")
  <2>1. ~clean /\ dev' = dev
    BY <1>1, <1>4, WordInStep
  <2> QED
    BY <1>1, <1>2, <2>1, WordMovedValue, DiskStays
    DEF IInv, DriveOK, RunOnDisk, Between, InStep
<1>5. CASE dev.state = "drq" /\ dev.cmd = "write"
  <2> DEFINE state == IF Len(dev.buffer) + 1 = Words THEN "busy" ELSE "drq"
  <2>1. dev' = [state |-> state, cmd |-> "write", lba |-> dev.lba, left |-> dev.left,
                buffer |-> filled]
    <3>1. dev' = [dev EXCEPT !.buffer = filled, !.state = state]
      BY <1>1, <1>5
    <3> HIDE DEF state
    <3> QED BY <1>2, <1>5, <3>1 DEF Drives
  <2>2. DriveOK'
    <3>1. Len(dev.buffer) < Words /\ Words \in Nat /\ dev.left \in Nat
          /\ dev.left > 0 /\ dev.left <= CountWrap /\ dev.lba \in Nat
      BY <1>2, <1>5, Constants DEF DriveOK, Drives
    <3>2. dev' \in Drives
      BY <1>3, <2>1, <3>1 DEF Drives
    <3> QED BY <1>3, <2>1, <3>1, <3>2 DEF DriveOK
  <2>3. RunOnDisk'
    BY <1>1, WordMovedValue DEF IInv, RunOnDisk
  <2>4. ASSUME clean
        PROVE  /\ Len(dev.buffer) = drv.word
               /\ filled = FirstWords(drv.data, drv.word + 1)
               /\ dev.lba = drv.lba + drv.sector /\ dev.left = drv.count - drv.sector
               /\ drv.word \in 0 .. Words - 1
               /\ drv.sector \in Nat /\ drv.count \in Nat /\ drv.lba \in Nat
               /\ drv.sector < drv.count /\ drv.lba + drv.sector \in Sectors
    <3>1. dev.buffer = FirstWords(drv.data, drv.word)
      BY <1>1, <2>4, WordInStep
    <3>2. drv.lba \in Nat
      BY DEF IInv, DriverOK, Drivers
    <3> QED
      BY <1>1, <1>2, <2>4, <3>1, <3>2, WordInStep, FirstWordsGrow DEF filled, w
  <2>5. ASSUME clean, drv.word + 1 < Words
        PROVE  /\ Between' /\ InStep'
               /\ dev'.state = "drq" /\ dev'.cmd = "write"
               /\ drv'.pc = "words" /\ drv'.cmd = "write" /\ drv'.lba = drv.lba
               /\ drv'.count = drv.count /\ drv'.data = drv.data
               /\ drv'.sector = drv.sector
    <3>1. dev' = [state |-> "drq", cmd |-> "write", lba |-> dev.lba, left |-> dev.left,
                  buffer |-> FirstWords(drv.data, drv.word + 1)]
      BY <2>1, <2>4, <2>5, Constants
    <3>2. drv' = [pc |-> "words", cmd |-> "write", lba |-> drv.lba,
                  count |-> drv.count, data |-> drv.data,
                  sector |-> drv.sector, word |-> drv.word + 1]
      BY <1>1, <2>5, WordMovedValue
    <3>3. Between' /\ InStep'
      BY <2>4, <2>5, <3>1, <3>2 DEF Between, InStep, Offered, InLoop
    <3> QED BY <3>1, <3>2, <3>3
  <2>6. ASSUME clean, drv.word + 1 >= Words
        PROVE  /\ Between' /\ InStep'
               /\ dev'.state = "busy" /\ dev'.cmd = "write"
               /\ dev'.lba = dev.lba /\ dev'.buffer = Sector(drv.data)
               /\ drv' = Turn(drv.sector + 1)
    <3>1. drv.word + 1 = Words
      BY <2>4, <2>6, Constants
    <3>2. dev' = [state |-> "busy", cmd |-> "write", lba |-> dev.lba, left |-> dev.left,
                  buffer |-> Sector(drv.data)]
      BY <1>2, <2>1, <2>4, <2>6, <3>1, SectorIsItsWords
    <3>3. drv' = Turn(drv.sector + 1)
      BY <1>1, <3>1, <2>6, WordMovedValue
    <3>4. CASE drv.sector + 1 < drv.count
      <4>1. drv' = [pc |-> "wait_BSY", cmd |-> "write", lba |-> drv.lba,
                    count |-> drv.count, data |-> drv.data,
                    sector |-> drv.sector + 1, word |-> 0]
        BY <1>1, <2>4, <2>6, <3>3, <3>4, TurnValue DEF IInv
      <4>2. Between' /\ InStep'
        BY <2>4, <2>6, <3>2, <4>1 DEF Between, InStep, Storing, InLoop
      <4> QED BY <3>2, <3>3, <4>2
    <3>5. CASE drv.sector + 1 >= drv.count
      <4>1. drv' = NoCall
        BY <1>1, <2>4, <2>6, <3>3, <3>5, TurnValue DEF IInv
      <4>2. dev.left = 1
        BY <2>4, <2>6, <3>5
      <4>3. dev.lba < DiskSectors
        BY <2>4, <2>6, Constants DEF Sectors
      <4>4. Between' /\ InStep'
        BY <1>2, <3>2, <4>1, <4>2, <4>3, SectorIsItsWords
        DEF Between, InStep, InLoop, NoCall
      <4> QED BY <3>2, <3>3, <4>4
    <3> QED BY <2>4, <2>6, <3>4, <3>5
  <2>7. drv.word \in Nat /\ Words \in Nat
    BY <1>2, Constants
  <2>8. Between' /\ InStep'
    BY <1>1, <2>5, <2>6, <2>7 DEF Between, InStep
  <2> QED
    BY <1>1, <1>5, <2>2, <2>3, <2>5, <2>6, <2>8, WordMovedValue, DiskStays DEF IInv, DRQ
<1> QED BY <1>4, <1>5
-----------------------------------------------------------------------------
(* The drive.  It does not fail as long as it has the sectors named.       *)
LEMMA DriveFailsStep == ASSUME IInv, DriveFails PROVE IInv' /\ ~clean
<1>1. dev.state = "busy" /\ dev.lba \notin Sectors /\ dev' = NoCommand
      /\ UNCHANGED <<drv, disk, clean>>
  BY DEF DriveFails, BSY
<1>2. /\ dev.lba \in Nat /\ drv.lba \in Nat /\ drv.sector \in Nat /\ drv.count \in Nat
      /\ InLoop => drv.sector < drv.count
      /\ drv.pc \in {"idle", "select"} \/ InLoop
  BY DEF IInv, DriverOK, Drivers, DriveOK, Drives, InLoop
<1>3. ~clean
  <2> SUFFICES ASSUME clean PROVE FALSE
    OBVIOUS
  <2>1. CASE drv.pc \in {"idle", "select"}
    BY <1>1, <1>2, <2>1, Constants DEF IInv, Between, Sectors
  <2>2. CASE InLoop
    <3>1. drv.lba + drv.count <= DiskSectors
      BY <2>2 DEF IInv, RunOnDisk, InLoop
    <3>2. dev.lba <= drv.lba + drv.sector
      BY <1>2, <2>2 DEF IInv, InStep, Offered, Storing
    <3> QED BY <1>1, <1>2, <2>2, <3>1, <3>2, Constants DEF Sectors
  <2> QED BY <1>2, <2>1, <2>2
<1>4. DriverOK'
  BY <1>1 DEF IInv, DriverOK, InLoop
<1>5. DriveOK'
  BY <1>1, Constants DEF DriveOK, Drives, NoCommand
<1> QED
  BY <1>1, <1>3, <1>4, <1>5, DiskStays DEF IInv, RunOnDisk, Between, InStep

LEMMA DriveReadyStep == ASSUME IInv, DriveReady PROVE IInv' /\ dev'.state = "drq"
<1> DEFINE buffer == IF dev.cmd = "read" THEN disk[dev.lba] ELSE dev.buffer
<1>1. /\ dev.state = "busy" /\ dev.lba \in Sectors /\ dev.buffer = <<>>
      /\ dev' = [dev EXCEPT !.state = "drq", !.buffer = buffer]
      /\ UNCHANGED <<drv, disk, clean>>
  BY DEF DriveReady, BSY
<1>2. /\ dev \in Drives /\ dev.cmd \in {"read", "write"} /\ dev.left \in Nat
      /\ dev.left > 0 /\ dev.left <= CountWrap /\ dev.lba \in Nat
  BY <1>1 DEF IInv, DriveOK, Drives
<1>3. disk[dev.lba] \in SectorContents
  BY <1>1 DEF IInv
<1>4. disk[dev.lba] \in Seq(Word) /\ disk[dev.lba] # <<>>
      /\ SubSeq(disk[dev.lba], 1, Words) = disk[dev.lba]
  <2> DEFINE s == disk[dev.lba]
  <2>1. s \in SectorContents /\ s \in Seq(Word) /\ Len(s) > 0
    BY <1>3, Constants DEF SectorContents
  <2> HIDE DEF s
  <2>2. s # <<>> /\ SubSeq(s, 1, Words) = s
    BY <2>1 DEF SectorContents
  <2> QED BY <2>1, <2>2 DEF s
<1>5. buffer \in Seq(Word) /\ (dev.cmd = "read" => buffer # <<>>)
      /\ (dev.cmd = "write" => buffer = <<>>)
  BY <1>1, <1>4
<1> HIDE DEF buffer
<1>6. dev' = [state |-> "drq", cmd |-> dev.cmd, lba |-> dev.lba, left |-> dev.left,
              buffer |-> buffer]
  BY <1>1, <1>2 DEF Drives
<1>7. DriveOK'
  <2>1. dev' \in Drives
    BY <1>2, <1>5, <1>6 DEF Drives
  <2> QED BY <1>2, <1>5, <1>6, <2>1, Constants DEF DriveOK
<1>8. DriverOK' /\ RunOnDisk'
  BY <1>1 DEF IInv, DriverOK, RunOnDisk, InLoop
<1>9. Between'
  BY <1>1 DEF IInv, Between
<1>10. InStep'
  <2> SUFFICES ASSUME clean, InLoop PROVE dev'.cmd = drv.cmd /\ Offered'
    BY <1>1 DEF InStep, InLoop
  <2>1. dev.cmd = drv.cmd /\ (Offered \/ Storing)
    BY DEF IInv, InStep
  <2>2. ~Storing
    <3> SUFFICES ASSUME Storing PROVE FALSE
      OBVIOUS
    <3>1. drv.data \in Data \cup {Blank}
      BY DEF IInv, DriverOK, Drivers
    <3> QED BY <1>1, <3>1, SectorIsItsWords DEF Storing
  <2>3. /\ dev.lba = drv.lba + drv.sector /\ dev.left = drv.count - drv.sector
        /\ drv.pc = "wait_BSY"
    BY <1>1, <2>1, <2>2 DEF Offered
  <2>4. drv.word = 0 /\ drv.data \in Data \cup {Blank}
    BY <2>3 DEF IInv, DriverOK, Drivers
  <2>5. buffer = IF drv.cmd = "read" THEN SubSeq(disk[dev.lba], drv.word + 1, Words)
                 ELSE FirstWords(drv.data, drv.word)
    <3>1. FirstWords(drv.data, drv.word) = <<>> /\ drv.word + 1 = 1
      BY <2>4, FirstWordsGrow
    <3>2. SubSeq(disk[dev.lba], drv.word + 1, Words) = disk[dev.lba]
      BY <1>4, <3>1, Zenon
    <3>3. CASE dev.cmd = "read"
      BY <2>1, <3>2, <3>3 DEF buffer
    <3>4. CASE dev.cmd = "write"
      BY <1>5, <2>1, <3>1, <3>4
    <3> QED BY <1>2, <3>3, <3>4
  <2> QED BY <1>1, <1>6, <2>1, <2>3, <2>5 DEF Offered
<1> QED BY <1>1, <1>6, <1>7, <1>8, <1>9, <1>10, DiskStays DEF IInv

LEMMA DriveStoresStep ==
    ASSUME IInv, DriveStores
    PROVE  /\ IInv' /\ dev.cmd = "write" /\ dev.buffer \in SectorContents
           /\ dev'.buffer = <<>>
<1> DEFINE state == IF dev.lba + 1 \in Sectors THEN "drq" ELSE "busy"
<1>1. /\ dev.state = "busy" /\ dev.lba \in Sectors /\ dev.buffer # <<>>
      /\ disk' = [disk EXCEPT ![dev.lba] = dev.buffer]
      /\ dev' = NextSector(state)
      /\ UNCHANGED <<drv, clean>>
  BY DEF DriveStores, BSY
<1>2. DriveOK /\ dev.cmd = "write" /\ dev.buffer \in SectorContents /\ dev.lba \in Nat
      /\ dev.left \in Nat
  BY <1>1 DEF IInv, DriveOK, Drives, SectorContents
<1>3. disk' \in [Sectors -> SectorContents]
  BY <1>1, <1>2 DEF IInv
<1>4. DriveOK'
  BY <1>1, <1>2, NextSectorOK
<1>5. DriverOK' /\ RunOnDisk'
  BY <1>1 DEF IInv, DriverOK, RunOnDisk, InLoop
<1>6. dev'.buffer = <<>>
  BY <1>1, <1>2, NextSectorValue DEF NoCommand
<1>7. CASE clean /\ drv.pc \in {"idle", "select"}
  <2>1. dev.left = 1
    BY <1>1, <1>7 DEF IInv, Between
  <2>2. dev' = NoCommand
    BY <1>1, <1>2, <2>1, NextSectorValue
  <2>3. Between' /\ InStep'
    BY <1>1, <1>7, <2>2 DEF Between, InStep, InLoop, NoCommand
  <2> QED BY <1>1, <1>2, <1>3, <1>4, <1>5, <1>6, <2>3 DEF IInv
<1>8. CASE clean /\ InLoop
  <2>1. /\ drv.lba \in Nat /\ drv.sector \in Nat /\ drv.count \in Nat
        /\ drv.sector < drv.count /\ drv.data \in Data \cup {Blank}
    BY <1>8 DEF IInv, DriverOK, Drivers
  <2>2. dev.cmd = drv.cmd /\ Storing
    BY <1>1, <1>8 DEF IInv, InStep, Offered
  <2>3. drv.lba + drv.count <= DiskSectors
    BY <1>8 DEF IInv, RunOnDisk, InLoop
  <2>4. dev.lba + 1 \in Sectors /\ dev.left > 1
        /\ dev.lba + 1 = drv.lba + drv.sector /\ dev.left - 1 = drv.count - drv.sector
    BY <2>1, <2>2, <2>3, Constants DEF Storing, Sectors
  <2>5. dev' = [state |-> "drq", cmd |-> "write", lba |-> drv.lba + drv.sector,
                left |-> drv.count - drv.sector, buffer |-> <<>>]
    BY <1>1, <1>2, <2>4, NextSectorValue
  <2>6. drv.pc = "wait_BSY" /\ drv.word = 0 /\ drv.cmd = "write"
    BY <2>2 DEF IInv, DriverOK, Storing
  <2>7. Between' /\ InStep'
    BY <1>1, <2>1, <2>5, <2>6, FirstWordsGrow DEF Between, InStep, Offered, InLoop
  <2> QED BY <1>1, <1>2, <1>3, <1>4, <1>5, <1>6, <2>7 DEF IInv
<1>9. CASE ~clean
  BY <1>1, <1>2, <1>3, <1>4, <1>5, <1>6, <1>9 DEF IInv, Between, InStep
<1> QED
  BY <1>7, <1>8, <1>9 DEF IInv, DriverOK, Drivers, InLoop
-----------------------------------------------------------------------------
(* The drive and the driver at rest.                                       *)
LEMMA AtRest ==
    ASSUME drv = NoCall, dev = NoCommand, disk \in [Sectors -> SectorContents],
           clean = TRUE
    PROVE  IInv
<1>1. DriverOK
  BY Constants DEF DriverOK, Drivers, NoCall, InLoop
<1>2. DriveOK
  BY Constants DEF DriveOK, Drives, NoCommand
<1> QED
  BY <1>1, <1>2 DEF IInv, RunOnDisk, Between, InStep, InLoop, NoCall, NoCommand

LEMMA InitOK == Init => IInv
<1> SUFFICES ASSUME Init PROVE IInv
  OBVIOUS
<1>1. Sector(Blank) \in SectorContents
  BY SectorIsItsWords
<1> QED BY <1>1, AtRest DEF Init

LEMMA IInvStep == IInv /\ [Next]_vars => IInv'
<1> SUFFICES ASSUME IInv, [Next]_vars PROVE IInv'
  OBVIOUS
<1>1. ASSUME NEW lba \in Sectors, NEW n \in 0 .. CountWrap,
             read_sectors_ATA_PIO(lba, n)
      PROVE  IInv'
  BY <1>1, CallStep DEF read_sectors_ATA_PIO
<1>2. ASSUME NEW lba \in Sectors, NEW n \in 0 .. CountWrap, NEW d \in Data,
             write_sectors_ATA_PIO(lba, n, d)
      PROVE  IInv'
  BY <1>2, CallStep DEF write_sectors_ATA_PIO
<1>3. CASE DriverStep
  BY <1>3, IssueCommandStep, WaitStep, ReadWordStep, WriteWordStep DEF DriverStep
<1>4. CASE DriveStep
  BY <1>4, DriveFailsStep, DriveReadyStep, DriveStoresStep DEF DriveStep
<1>5. CASE PowerOff
  <2>1. drv' = NoCall /\ dev' = NoCommand /\ disk' \in [Sectors -> SectorContents]
        /\ clean' = TRUE
    BY <1>5 DEF PowerOff, IInv
  <2>2. DriverOK'
    BY <2>1, Constants DEF DriverOK, Drivers, NoCall, InLoop
  <2>3. DriveOK'
    BY <2>1, Constants DEF DriveOK, Drives, NoCommand
  <2> QED
    BY <2>1, <2>2, <2>3 DEF IInv, RunOnDisk, Between, InStep, InLoop, NoCall, NoCommand
<1>6. CASE UNCHANGED vars
  BY <1>6 DEF vars, IInv, DriverOK, DriveOK, RunOnDisk, Between, InStep, Offered,
              Storing, InLoop
<1> QED BY <1>1, <1>2, <1>3, <1>4, <1>5, <1>6 DEF Next

LEMMA Invariance == Spec => []IInv
BY InitOK, IInvStep, PTL DEF Spec
-----------------------------------------------------------------------------
(* The driver and the drive keep their types, whatever sectors the calls   *)
(* name.                                                                   *)
THEOREM TypeCorrect == Spec => []TypeOK
<1>1. IInv => TypeOK
  <2> SUFFICES ASSUME IInv PROVE TypeOK
    OBVIOUS
  <2>1. /\ drv.pc \in {"idle", "select", "wait_BSY", "wait_RDY", "words"}
        /\ drv.word \in 0 .. Words - 1
        /\ InLoop => drv.sector \in 0 .. drv.count - 1
    BY Constants DEF IInv, DriverOK, Drivers, InLoop
  <2>2. dev.state \in {"idle", "busy", "drq"} /\ dev.left \in 0 .. CountWrap
    BY Constants DEF IInv, DriveOK, Drives
  <2>3. \A s \in Sectors : Len(disk[s]) = Words
    BY DEF IInv, SectorContents
  <2> QED BY <2>1, <2>2, <2>3 DEF TypeOK, InLoop
<1> QED BY <1>1, Invariance, PTL

(* read_sectors_ATA_PIO and write_sectors_ATA_PIO, which poll BSY only,    *)
(* access the data register only while DRQ is set, and a word read is the  *)
(* one that belongs where it is stored.                                    *)
THEOREM AccessesWhileRequested == Spec => DataWhileRequested
<1>1. IInv /\ [Next]_vars =>
        [/\ clean /\ (ReadWord \/ WriteWord) => DRQ
         /\ clean /\ ReadWord =>
              target' = disk[drv.lba + drv.sector][drv.word + 1]]_vars
  BY ReadWordStep, WriteWordStep
<1> QED BY <1>1, Invariance, PTL DEF Spec, DataWhileRequested
-----------------------------------------------------------------------------
(* The refinement.  Sectors one after the other with the same content: what*)
(* is left to store of a write.                                            *)
Entry == [lba : Nat, content : Seq(Word)]
Run(first, n, content) ==
    [k \in 1 .. n |-> [lba |-> first + k - 1, content |-> content]]

LEMMA RunGoesOn ==
    ASSUME NEW first \in Nat, NEW n \in Nat, NEW content \in Seq(Word)
    PROVE  /\ Run(first, n, content) \in Seq(Entry) /\ Len(Run(first, n, content)) = n
           /\ n = 0 => Run(first, n, content) = <<>>
           /\ n > 0 => Run(first, n, content) =
                <<[lba |-> first, content |-> content]>> \o Run(first + 1, n - 1, content)
<1>1. ASSUME NEW f \in Nat, NEW m \in Nat
      PROVE  Run(f, m, content) \in Seq(Entry) /\ Len(Run(f, m, content)) = m
  <2>1. \A k \in 1 .. m : [lba |-> f + k - 1, content |-> content] \in Entry
    BY DEF Entry
  <2>2. Run(f, m, content) \in [1 .. m -> Entry]
    BY <2>1 DEF Run
  <2> QED BY <2>2
<1>2. n = 0 => Run(first, n, content) = <<>>
  BY DEF Run
<1>3. ASSUME n > 0
      PROVE  Run(first, n, content) =
               <<[lba |-> first, content |-> content]>> \o Run(first + 1, n - 1, content)
  <2> DEFINE entry == [lba |-> first, content |-> content]
             all == Run(first, n, content)
             rest == Run(first + 1, n - 1, content)
  <2>1. entry \in Entry
    BY DEF Entry
  <2>2. all \in Seq(Entry) /\ Len(all) = n /\ rest \in Seq(Entry) /\ Len(rest) = n - 1
    BY <1>1, <1>3
  <2>3. all[1] = entry
    BY <1>3 DEF Run
  <2>4. \A k \in 1 .. n - 1 : all[k + 1] = rest[k]
    <3> SUFFICES ASSUME NEW k \in 1 .. n - 1 PROVE all[k + 1] = rest[k]
      OBVIOUS
    <3>1. k + 1 \in 1 .. n /\ first + (k + 1) - 1 = first + 1 + k - 1
      BY <1>3
    <3> QED BY <3>1 DEF Run
  <2> HIDE DEF entry, all, rest
  <2> DEFINE joined == <<entry>> \o rest
  <2>5. joined \in Seq(Entry) /\ Len(joined) = n /\ joined[1] = entry
        /\ \A k \in 1 .. n - 1 : joined[k + 1] = rest[k]
    <3>1. joined \in Seq(Entry) /\ Len(joined) = Len(rest) + 1 /\ joined[1] = entry
          /\ \A k \in 1 .. Len(rest) : joined[k + 1] = rest[k]
      BY <2>1, <2>2, PutBefore
    <3> HIDE DEF joined
    <3> QED BY <1>3, <2>2, <3>1
  <2> HIDE DEF joined
  <2>6. ASSUME NEW k \in 1 .. n PROVE all[k] = joined[k]
    <3>1. CASE k = 1
      BY <2>3, <2>5, <3>1
    <3>2. CASE k # 1
      <4>1. k - 1 \in 1 .. n - 1 /\ k - 1 + 1 = k
        BY <3>2
      <4>2. all[k - 1 + 1] = rest[k - 1] /\ joined[k - 1 + 1] = rest[k - 1]
        BY <2>4, <2>5, <4>1
      <4> QED BY <4>1, <4>2
    <3> QED BY <3>1, <3>2
  <2>7. all = joined
    BY <2>2, <2>5, <2>6, SeqEqual
  <2> QED BY <2>7 DEF entry, all, rest, joined
<1> QED BY <1>1, <1>2, <1>3

(* What the driver has not sent is a run, and what the drive has and has   *)
(* not stored is one sector.                                               *)
LEMMA PendingValue ==
    ASSUME IInv
    PROVE  /\ drv.cmd = "write" => Unsent = Run(drv.lba + drv.sector,
                                       drv.count - drv.sector, Sector(drv.data))
           /\ drv.cmd # "write" => Unsent = <<>>
           /\ Unsent \in Seq(Entry) /\ Received \in Seq(Entry) /\ Len(Received) <= 1
           /\ dev.state # "busy" \/ dev.cmd # "write" \/ dev.buffer = <<>> =>
                Received = <<>>
<1>1. /\ drv.lba \in Nat /\ drv.sector \in Nat /\ drv.count \in Nat
      /\ drv.data \in Data \cup {Blank} /\ drv.sector <= drv.count
  BY DEF IInv, DriverOK, Drivers, InLoop, NoCall
<1>2. drv.cmd = "write" => Unsent = Run(drv.lba + drv.sector,
                                        drv.count - drv.sector, Sector(drv.data))
  BY DEF Unsent, Run
<1>3. Unsent \in Seq(Entry)
  <2>1. CASE drv.cmd = "write"
    <3>1. drv.lba + drv.sector \in Nat /\ drv.count - drv.sector \in Nat
          /\ Sector(drv.data) \in Seq(Word)
      BY <1>1, SectorIsItsWords DEF SectorContents
    <3> QED BY <1>2, <2>1, <3>1, RunGoesOn
  <2>2. CASE drv.cmd # "write"
    BY <2>2 DEF Unsent
  <2> QED BY <2>1, <2>2
<1>4. Received \in Seq(Entry) /\ Len(Received) <= 1
  <2>1. dev.lba \in Nat /\ dev.buffer \in Seq(Word)
    BY DEF IInv, DriveOK, Drives
  <2> DEFINE one == [lba |-> dev.lba, content |-> dev.buffer]
  <2>2. one \in Entry
    BY <2>1 DEF Entry
  <2>3. Received = <<one>> \/ Received = <<>>
    BY DEF Received
  <2> HIDE DEF one
  <2>4. <<one>> \in Seq(Entry) /\ Len(<<one>>) = 1
    BY <2>2
  <2>5. <<>> \in Seq(Entry) /\ Len(<<>>) = 0
    OBVIOUS
  <2>6. CASE Received = <<one>>
    BY <2>4, <2>6
  <2>7. CASE Received = <<>>
    BY <2>5, <2>7
  <2> QED BY <2>3, <2>6, <2>7
<1> QED BY <1>2, <1>3, <1>4 DEF Unsent, Received, BSY

(* The steps of SectorStore that those of the driver and the drive are.    *)
LEMMA StutterStep ==
    ASSUME disk' = disk, clean' = clean, Received' = Received, Unsent' = Unsent
    PROVE  UNCHANGED Store!vars
BY DEF Store!vars

LEMMA WrongStep ==
    ASSUME clean' = FALSE PROVE Store!Next
BY Zenon DEF Store!Next, Store!WrongCall

LEMMA CallImplements ==
    ASSUME IInv, NEW cmd \in {"read", "write"}, NEW lba \in Sectors,
           NEW n \in 0 .. CountWrap, NEW d \in Data \cup {Blank}, Call(cmd, lba, n, d)
    PROVE  [Store!Next]_(Store!vars)
<1> DEFINE count == n % CountWrap
<1>1. /\ drv.pc = "idle" /\ UNCHANGED <<dev, disk>> /\ clean' \in BOOLEAN
      /\ drv' = [NoCall EXCEPT !.pc = "select", !.cmd = cmd, !.lba = lba,
                               !.count = count, !.data = d]
      /\ clean' => clean
  BY Zenon DEF Call
<1> HIDE DEF count
<1>2. drv' = [pc |-> "select", cmd |-> cmd, lba |-> lba, count |-> count,
              data |-> d, sector |-> 0, word |-> 0]
  BY <1>1 DEF NoCall
<1>3. Received' = Received
  BY <1>1 DEF Received, BSY
<1>4. drv.cmd # "write" /\ Unsent = <<>>
  BY <1>1 DEF IInv, DriverOK, NoCall, Unsent
<1>5. CASE ~clean'
  <2>1. clean' = FALSE
    BY <1>1, <1>5
  <2> QED BY <2>1, WrongStep
<1>6. CASE clean' /\ cmd = "read"
  <2>1. Unsent' = Unsent
    BY <1>2, <1>4, <1>6 DEF Unsent
  <2>2. clean' = clean
    BY <1>1, <1>6 DEF IInv
  <2> QED BY <1>1, <1>3, <2>1, <2>2, StutterStep
<1>7. CASE clean' /\ cmd = "write"
  <2>1. clean /\ clean' = clean
    BY <1>1, <1>7 DEF IInv
  <2>2. count \in 1 .. DiskSectors
    BY <1>2, <1>7, CallStep
  <2>3. lba + count - 1 \in Sectors /\ lba <= lba + count - 1
        /\ (lba + count - 1) - lba + 1 = count
    <3>1. lba + count <= DiskSectors /\ lba \in Nat
      BY <1>2, <1>7, CallStep, Constants DEF Sectors
    <3> QED BY <2>2, <3>1, Constants DEF Sectors
  <2>4. Received \in Seq(Entry) /\ Len(Received) <= 1
    BY PendingValue
  <2>5. Received \o Unsent = Received
    BY <1>4, <2>4, ConcatEmptySeq
  <2>6. Unsent' = [k \in 1 .. count |-> [lba |-> lba + k - 1, content |-> Sector(d)]]
    <3>1. lba \in Nat /\ count \in Nat
      BY <2>2, Constants DEF Sectors
    <3>2. count - 0 = count /\ lba + 0 = lba
      BY <3>1
    <3> QED BY <1>2, <1>7, <3>2 DEF Unsent
  <2>7. Store!Write(lba, lba + count - 1, Sector(d))
    <3> DEFINE last == lba + count - 1
    <3>1. last - lba + 1 = count /\ lba <= last
      BY <2>3, Zenon
    <3> HIDE DEF last
    <3>2. Unsent' = [k \in 1 .. last - lba + 1 |->
                       [lba |-> lba + k - 1, content |-> Sector(d)]]
      BY <2>6, <3>1, Zenon
    <3>3. Store!Write(lba, last, Sector(d))
      BY <1>1, <1>3, <2>1, <2>4, <2>5, <3>1, <3>2 DEF Store!Write
    <3> QED BY <3>3 DEF last
  <2>8. Sector(d) \in {Sector(e) : e \in Data \cup {Blank}}
    OBVIOUS
  <2>9. Store!Next
    BY <2>3, <2>7, <2>8, Zenon DEF Store!Next
  <2> QED BY <2>9
<1> QED BY <1>5, <1>6, <1>7

LEMMA WriteWordImplements ==
    ASSUME IInv, WriteWord, clean PROVE UNCHANGED Store!vars
<1>1. drv.pc = "words" /\ drv.cmd = "write" /\ UNCHANGED <<disk, clean>>
  BY DEF WriteWord
<1>2. /\ drv.lba \in Nat /\ drv.sector \in Nat /\ drv.count \in Nat
      /\ drv.sector < drv.count /\ dev.state = "drq" /\ drv.word \in Nat
      /\ dev.lba = drv.lba + drv.sector /\ drv.data \in Data \cup {Blank}
      /\ DriverOK /\ Words \in Nat
  BY <1>1, WordInStep, Constants DEF IInv, DriverOK, Drivers
<1>3. CASE drv.word + 1 < Words
  <2>1. Received = <<>> /\ Received' = <<>>
    BY <1>2, <1>3, WriteWordStep DEF Received, BSY
  <2>2. Unsent' = Unsent
    BY <1>3, WriteWordStep, <1>1 DEF Unsent
  <2> QED BY <1>1, <2>1, <2>2, StutterStep
<1>4. CASE drv.word + 1 >= Words
  <2> DEFINE content == Sector(drv.data)
             entry == [lba |-> drv.lba + drv.sector, content |-> content]
             rest == Run(drv.lba + drv.sector + 1, drv.count - drv.sector - 1, content)
  <2>1. content \in Seq(Word) /\ content # <<>>
    BY <1>2, SectorIsItsWords DEF SectorContents
  <2>2. Received = <<>>
    BY <1>2 DEF Received, BSY
  <2>3. Received' = <<entry>>
    BY <1>2, <1>4, <2>1, WriteWordStep DEF Received, BSY
  <2>4. Unsent = <<entry>> \o rest
    <3>1. drv.lba + drv.sector \in Nat /\ drv.count - drv.sector \in Nat
          /\ drv.count - drv.sector > 0
      BY <1>2
    <3>2. Unsent = Run(drv.lba + drv.sector, drv.count - drv.sector, content)
      BY <1>1, PendingValue
    <3> HIDE DEF content
    <3> QED BY <2>1, <3>1, <3>2, RunGoesOn
  <2>5. Unsent' = rest
    <3>1. drv' = Turn(drv.sector + 1) /\ drv.sector + 1 \in Nat
      BY <1>2, <1>4, WriteWordStep
    <3>2. CASE drv.sector + 1 < drv.count
      <4>1. drv' = [pc |-> "wait_BSY", cmd |-> "write", lba |-> drv.lba,
                    count |-> drv.count, data |-> drv.data,
                    sector |-> drv.sector + 1, word |-> 0]
        BY <1>1, <1>2, <3>1, <3>2, TurnValue
      <4>2. drv.count - (drv.sector + 1) = drv.count - drv.sector - 1
            /\ drv.lba + (drv.sector + 1) = drv.lba + drv.sector + 1
        BY <1>2
      <4> QED BY <4>1, <4>2 DEF Unsent, Run
    <3>3. CASE ~(drv.sector + 1 < drv.count)
      <4>1. drv' = NoCall
        BY <1>1, <1>2, <3>1, <3>3, TurnValue
      <4>2. Unsent' = <<>>
        BY <4>1 DEF Unsent, NoCall
      <4>3. drv.count - drv.sector - 1 = 0
        BY <1>2, <3>3
      <4>4. rest = <<>>
        BY <4>3 DEF Run
      <4> QED BY <4>2, <4>4
    <3> QED BY <3>2, <3>3
  <2>6. <<entry>> \o rest \in Seq(Entry)
    BY <2>4, PendingValue
  <2>7. Received \o Unsent = (Received \o Unsent)'
    <3>1. Received \o Unsent = <<entry>> \o rest
      BY <2>2, <2>4, <2>6, ConcatEmptySeq
    <3> QED BY <2>3, <2>5, <3>1
  <2> QED BY <1>1, <2>7 DEF Store!vars
<1> QED BY <1>2, <1>3, <1>4

LEMMA DriveStoresImplements ==
    ASSUME IInv, DriveStores, clean PROVE Store!Next
<1> DEFINE entry == [lba |-> dev.lba, content |-> dev.buffer]
<1>1. /\ dev.state = "busy" /\ dev.cmd = "write" /\ dev.buffer # <<>>
      /\ disk' = [disk EXCEPT ![dev.lba] = dev.buffer]
      /\ UNCHANGED <<drv, clean>>
      /\ dev'.buffer = <<>> /\ dev.lba \in Nat /\ dev.buffer \in Seq(Word)
  BY DriveStoresStep DEF DriveStores, BSY, IInv, DriveOK, Drives
<1>2. Received = <<entry>> /\ Received' = <<>> /\ Unsent' = Unsent
  BY <1>1 DEF Received, Unsent, BSY
<1>3. entry \in Entry /\ entry.lba = dev.lba /\ entry.content = dev.buffer
  BY <1>1 DEF Entry
<1> HIDE DEF entry
<1>4. Unsent \in Seq(Entry)
  BY PendingValue
<1>5. Received \o Unsent # <<>> /\ Head(Received \o Unsent) = entry
      /\ Tail(Received \o Unsent) = Unsent
  BY <1>2, <1>3, <1>4, PutBefore
<1>6. (Received \o Unsent)' = Unsent
  BY <1>2, <1>4, ConcatEmptySeq
<1>7. Store!Store
  BY <1>1, <1>3, <1>5, <1>6 DEF Store!Store
<1> QED BY <1>7 DEF Store!Next

LEMMA StoreStep == IInv /\ [Next]_vars => [Store!Next]_(Store!vars)
<1> SUFFICES ASSUME IInv, [Next]_vars PROVE [Store!Next]_(Store!vars)
  OBVIOUS
<1>1. ASSUME NEW lba \in Sectors, NEW n \in 0 .. CountWrap,
             read_sectors_ATA_PIO(lba, n)
      PROVE  [Store!Next]_(Store!vars)
  BY <1>1, CallImplements DEF read_sectors_ATA_PIO
<1>2. ASSUME NEW lba \in Sectors, NEW n \in 0 .. CountWrap, NEW d \in Data,
             write_sectors_ATA_PIO(lba, n, d)
      PROVE  [Store!Next]_(Store!vars)
  BY <1>2, CallImplements DEF write_sectors_ATA_PIO
<1>3. CASE (DriverStep \/ DriveStep) /\ ~clean
  <2>1. clean' = clean
    BY <1>3 DEF DriverStep, DriveStep, IssueCommand, Issue, ATA_wait_BSY, ATA_wait_RDY,
                WaitStatus, ReadWord, WriteWord, DriveFails, DriveReady, DriveStores
  <2>2. Store!NoPromise
    BY <1>3, <2>1 DEF Store!NoPromise
  <2> QED BY <2>2 DEF Store!Next
<1>4. CASE IssueCommand /\ clean
  <2>1. /\ drv.pc = "select" /\ dev.state # "busy" /\ drv' = Turn(0) /\ DriverOK
        /\ UNCHANGED <<disk, clean>> /\ drv.count > 0 /\ drv.sector = 0
        /\ dev' = IF dev.state = "idle"
                  THEN Accepted(IF drv.count = 0 THEN CountWrap ELSE drv.count) ELSE dev
    BY <1>4 DEF IssueCommand, Issue, BSY, IInv, DriverOK, RunOnDisk
  <2>2. drv' = [pc |-> "wait_BSY", cmd |-> drv.cmd, lba |-> drv.lba,
                count |-> drv.count, data |-> drv.data, sector |-> 0, word |-> 0]
    BY <2>1, TurnValue
  <2>3. Unsent' = Unsent
    <3>1. drv'.cmd = drv.cmd /\ drv'.lba = drv.lba /\ drv'.count = drv.count
          /\ drv'.data = drv.data /\ drv'.sector = drv.sector
      BY <2>1, <2>2
    <3> QED BY <3>1 DEF Unsent
  <2>4. Received = <<>> /\ Received' = <<>>
    BY <2>1 DEF Received, BSY, Accepted
  <2> QED BY <2>1, <2>3, <2>4, StutterStep
<1>5. CASE ATA_wait_BSY \/ ATA_wait_RDY
  <2>1. PICK to \in {"wait_RDY", "words"} :
          drv' = [drv EXCEPT !.pc = to] /\ UNCHANGED <<dev, disk, clean>>
    BY <1>5 DEF ATA_wait_BSY, ATA_wait_RDY, WaitStatus
  <2>2. drv'.cmd = drv.cmd /\ drv'.lba = drv.lba /\ drv'.count = drv.count
        /\ drv'.data = drv.data /\ drv'.sector = drv.sector
    BY <2>1 DEF IInv, DriverOK, Drivers
  <2>3. Received' = Received /\ Unsent' = Unsent
    BY <2>1, <2>2 DEF Received, Unsent, BSY
  <2> QED BY <2>1, <2>3, StutterStep
<1>6. CASE ReadWord /\ clean
  <2>1. drv.pc = "words" /\ drv.cmd = "read" /\ UNCHANGED <<disk, clean>>
    BY <1>6 DEF ReadWord
  <2>2. drv'.cmd # "write"
    <3>1. drv \in Drivers /\ drv.sector + 1 \in Nat /\ DriverOK
      BY DEF IInv, DriverOK, Drivers
    <3>2. drv' = Turn(drv.sector + 1) \/ drv'.cmd = drv.cmd
      BY <1>6, <3>1 DEF ReadWord, WordMoved, Drivers
    <3>3. drv.sector + 1 < drv.count \/ drv.sector + 1 >= drv.count
      BY <3>1 DEF DriverOK, Drivers
    <3>4. Turn(drv.sector + 1).cmd # "write"
      BY <2>1, <3>1, <3>3, TurnValue DEF NoCall
    <3> QED BY <2>1, <3>2, <3>4
  <2>3. dev.cmd = "read" /\ dev.state = "drq"
    BY <1>6, <2>1, WordInStep
  <2>4. dev'.cmd # "write"
    <3>1. dev \in Drives /\ DriveOK
      BY DEF IInv, DriveOK
    <3>2. dev' = [dev EXCEPT !.buffer = Tail(@)] \/ dev' = NextSector("busy")
      BY <1>6, <2>3 DEF ReadWord, DRQ
    <3>3. NextSector("busy").cmd # "write"
      BY <2>3, <3>1, NextSectorValue DEF NoCommand
    <3> QED BY <2>3, <3>1, <3>2, <3>3 DEF Drives
  <2>5. Received' = Received /\ Unsent' = Unsent
    BY <2>1, <2>2, <2>3, <2>4 DEF Received, Unsent
  <2> QED BY <2>1, <2>5, StutterStep
<1>7. CASE WriteWord /\ clean
  BY <1>7, WriteWordImplements
<1>8. CASE DriveFails /\ clean
  BY <1>8, DriveFailsStep
<1>9. CASE DriveReady /\ clean
  <2>1. Received = <<>> /\ Received' = <<>> /\ Unsent' = Unsent
    BY <1>9, DriveReadyStep DEF DriveReady, Received, Unsent, BSY
  <2> QED BY <1>9, <2>1, StutterStep DEF DriveReady
<1>10. CASE DriveStores /\ clean
  BY <1>10, DriveStoresImplements
<1>11. CASE PowerOff
  <2>1. Received' = <<>> /\ Unsent' = <<>>
    BY <1>11 DEF PowerOff, Received, Unsent, BSY, NoCall, NoCommand
  <2>2. (Received \o Unsent)' = <<>>
    <3>1. <<>> \in Seq(Entry) /\ <<>> \o <<>> = <<>>
      BY ConcatEmptySeq
    <3> QED BY <2>1, <3>1
  <2>3. Store!PowerOff
    BY <1>11, <2>2 DEF Store!PowerOff, PowerOff
  <2> QED BY <2>3 DEF Store!Next
<1>12. CASE UNCHANGED vars
  BY <1>12, StutterStep DEF vars, Received, Unsent, BSY
<1>13. clean \in BOOLEAN
  BY DEF IInv
<1> QED
  BY <1>1, <1>2, <1>3, <1>4, <1>5, <1>6, <1>7, <1>8, <1>9, <1>10, <1>11, <1>12, <1>13
  DEF Next, DriverStep, DriveStep

(* The driver and the drive write what the file system counts on: sector   *)
(* after sector in the order of the calls, at most one of them still to be *)
(* stored when a call returns, and nothing else on the disk changed.       *)
THEOREM SectorsInOrder == Spec => ImplementsSectorStore
<1>1. Init => Store!Init
  <2> SUFFICES ASSUME Init PROVE Store!Init
    OBVIOUS
  <2>1. Received = <<>> /\ Unsent = <<>>
    BY DEF Init, Received, Unsent, BSY, NoCall, NoCommand
  <2>2. Received \o Unsent = <<>>
    <3>1. <<>> \in Seq(Entry) /\ <<>> \o <<>> = <<>>
      BY ConcatEmptySeq
    <3> QED BY <2>1, <3>1
  <2>3. disk \in [Sectors -> {Sector(d) : d \in Data \cup {Blank}}]
    BY DEF Init
  <2> QED BY <2>2, <2>3 DEF Init, Store!Init
<1>2. IInv /\ [Next]_vars => [Store!Next]_(Store!vars)
  BY StoreStep
<1> QED BY <1>1, <1>2, Invariance, PTL DEF Spec, ImplementsSectorStore, Store!Spec
=============================================================================
