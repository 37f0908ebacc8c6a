------------------------------- MODULE Paging -------------------------------
(***************************************************************************)
(* The pager (src/cpu/paging.c) over the byte-per-page map of physical     *)
(* pages (src/libc/bitmap.c).  Pages and frames are numbered: address n is *)
(* page n \div 0x1000, and addresses wrap at NPages * 0x1000 = 2^32.       *)
(*                                                                         *)
(* Every page structure maps the pages outside the window to themselves,   *)
(* and pages of the window on demand.  A task maps one as kernel_main does,*)
(* map_page(pages, v, get_first_physical_page()*0x1000), with interrupts on*)
(* between the search and the marking: two steps.  setup_task_paging runs  *)
(* in the int $33 handler, with interrupts off: one step.                  *)
(* The bitmap of a page structure is written and never read: it is left    *)
(* out.  Marking a frame of the upper half of memory also sets a byte      *)
(* before the map, (int)address being negative: that byte belongs to the   *)
(* unused end of kernel_pages.bitmap.                                      *)
(***************************************************************************)
EXTENDS Integers

CONSTANTS
    NPages,       \* pages of the address space: 2^20
    Slack,        \* bytes of the map past the last page, never written: 0x400
    WinLo, WinHi, \* first and last page of the window: 0x4fff, 0x7000
    StackPage,    \* the page setup_task_paging maps: 0x5fff
    Spaces,       \* the page structures the heap has room for
    KernelPages,  \* &kernel_pages
    Callers       \* the tasks that map and free pages

Pages == 0 .. NPages - 1
Window == WinLo .. WinHi
Bytes == 0 .. NPages + Slack - 1    \* of physical_page_bitmap

ASSUME PagesAssumption ==
    /\ NPages \in Nat /\ Slack \in Nat /\ WinLo \in Nat /\ WinHi \in Nat
    /\ 0 < WinLo /\ Slack < WinLo /\ 2 * WinHi < NPages - 1
    /\ StackPage \in Window
ASSUME SpacesAssumption == KernelPages \in Spaces

VARIABLES
    used,   \* physical_page_bitmap: [Bytes -> BOOLEAN]
    pte,    \* the page structures in existence: page -> frame, or NotPresent
    got     \* the frame a task was told of and has not mapped yet

vars == <<used, pte, got>>

NotPresent == -1
Nothing == -1

(* The table enable_paging and copy_nonkernel_pages fill in.               *)
InitialTable == [v \in Pages |-> IF v \in Window THEN NotPresent ELSE v]

(* Mutant: the frame below the window is taken for one of the window's.    *)
EnablePaging_OffByOne ==
    /\ used \in [Bytes -> BOOLEAN]
    /\ \A v \in Pages : used[v] <=> v \notin (WinLo - 1) .. WinHi
    /\ pte = [s \in {KernelPages} |-> InitialTable]

(* ta_alloc does not clear memory: the slack bytes hold anything.          *)
EnablePaging ==
    /\ used \in [Bytes -> BOOLEAN]
    /\ \A v \in Pages : used[v] <=> v \notin Window
    /\ pte = [s \in {KernelPages} |-> InitialTable]

Init == EnablePaging /\ got = [c \in Callers |-> Nothing]
-----------------------------------------------------------------------------
(* bitmapSearch for a 0, over the slack too, returns i.                    *)
BitmapSearch(i) ==
    \/ i \in Bytes /\ ~used[i] /\ \A b \in 0 .. i - 1 : used[b]
    \/ i = -1 /\ \A b \in Bytes : used[b]

(* Mutant: the product by 0x1000 does not wrap.                            *)
PhysicalPage_Wide(i) == i

(* i * 0x1000 as a 32-bit address: past the pages it starts again at frame *)
(* 0, and -1 is the last frame.                                            *)
PhysicalPage(i) == i % NPages

(* What get_first_physical_page()*0x1000 may be, a set of one.             *)
FirstPhysicalPage ==
    {PhysicalPage(i) : i \in {i \in Bytes \cup {-1} : BitmapSearch(i)}}

(* Mutant: map_page leaves the marking to its caller.                      *)
MapPage_Unmarked(tables, s, v, frame) ==
    /\ used' = used
    /\ pte' = [tables EXCEPT ![s][v] = frame]

MapPage(tables, s, v, frame) ==
    /\ used' = [used EXCEPT ![frame] = TRUE]
    /\ pte' = [tables EXCEPT ![s][v] = frame]

(* Mutant: the entry is cleared before the frame is read from it.          *)
FreePage_ClearedFirst(s, v) ==
    /\ used' = [used EXCEPT ![0] = FALSE]
    /\ pte' = [pte EXCEPT ![s][v] = NotPresent]
    /\ UNCHANGED got

(* The byte mark_physical_page_free resets: the entry's three flag bits    *)
(* make the last frame's negative quotient round to 0 (the search yields no*)
(* other frame of the upper half), and an entry that is not present is 0.  *)
FreedByte(frame) == IF frame \in {NotPresent, NPages - 1} THEN 0 ELSE frame

(* The second reset reads the entry just cleared: page 0 becomes free.     *)
FreePage(s, v) ==
    /\ used' = [used EXCEPT ![FreedByte(pte[s][v])] = FALSE, ![0] = FALSE]
    /\ pte' = [pte EXCEPT ![s][v] = NotPresent]
    /\ UNCHANGED got

(* The first half of map_page(pages, v, get_first_physical_page()*0x1000). *)
GetFrame(c) ==
    /\ got[c] = Nothing
    /\ \E frame \in FirstPhysicalPage : got' = [got EXCEPT ![c] = frame]
    /\ UNCHANGED <<used, pte>>

MapFrame(c, s, v) ==
    /\ got[c] # Nothing
    /\ MapPage(pte, s, v, got[c])
    /\ got' = [got EXCEPT ![c] = Nothing]

SetupTaskPaging(new) ==
    LET copied == [s \in DOMAIN pte \cup {new} |->
                     IF s = new THEN InitialTable ELSE pte[s]]
    IN  /\ new \notin DOMAIN pte
        /\ \E frame \in FirstPhysicalPage : MapPage(copied, new, StackPage, frame)
        /\ UNCHANGED got

Next ==
    \/ \E c \in Callers : GetFrame(c)
    \/ \E c \in Callers, s \in DOMAIN pte, v \in Window : MapFrame(c, s, v)
    \/ \E s \in DOMAIN pte, v \in Window : FreePage(s, v)
    \/ \E new \in Spaces : SetupTaskPaging(new)

Spec == Init /\ [][Next]_vars
-----------------------------------------------------------------------------
TypeOK ==
    /\ used \in [Bytes -> BOOLEAN]
    /\ KernelPages \in DOMAIN pte /\ DOMAIN pte \subseteq Spaces
    /\ \A s \in DOMAIN pte : pte[s] \in [Pages -> Pages \cup {NotPresent}]
    /\ got \in [Callers -> Pages \cup {Nothing}]

Mapped(f) == \E s \in DOMAIN pte, v \in Window : pte[s][v] = f

(* No frame of the window is visible at two places, and none that is       *)
(* visible can be handed out again.                                        *)
Isolated ==
    /\ \A s1, s2 \in DOMAIN pte, v1, v2 \in Window :
          pte[s1][v1] = pte[s2][v2] /\ pte[s1][v1] \in Window
          => s1 = s2 /\ v1 = v2
    /\ \A s \in DOMAIN pte, v \in Window :
          pte[s][v] \in Window => used[pte[s][v]]

(* The one way two mappings come to share a frame: a task maps the frame   *)
(* it was told of after another task, or setup_task_paging in an interrupt,*)
(* has taken the same one.  free_page, a remapping, a new page structure   *)
(* and the search past the end of the map never do it.                     *)
OnlyStaleAnswersShare ==
    [][ Isolated /\ ~Isolated'
        => \E c \in Callers : /\ got[c] \in Window /\ used[got[c]]
                              /\ got'[c] = Nothing ]_vars

(* A frame is lost (used but mapped nowhere) only when map_page replaces   *)
(* the entry that named it by another: frames whose page is freed come     *)
(* back, whatever happened between.                                        *)
Lost(f) == used[f] /\ ~Mapped(f)

LostOnlyByRemap ==
    [][ \A f \in Window : ~Lost(f) /\ Lost(f)'
        => \E s \in DOMAIN pte, v \in Window :
              pte[s][v] = f /\ pte'[s][v] \notin {f, NotPresent} ]_vars

(* A frame of kernel memory, where the heap, the stack of the boot code and*)
(* the page tables are, is handed out only once every frame of the window  *)
(* is in use, or because free_page has marked it free: page 0 then, or one *)
(* of the first Slack pages, which the search past the end of the map had  *)
(* handed out before.                                                      *)
KernelFramesKept ==
    [][ \A c \in Callers :
          got[c] = Nothing /\ got'[c] \notin Window \cup {Nothing}
          => \/ \A f \in Window : used[f]
             \/ ~used[got'[c]] /\ got'[c] < Slack
             \/ ~used[0] /\ got'[c] = 0 ]_vars
=============================================================================
