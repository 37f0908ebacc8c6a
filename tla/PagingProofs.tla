---------------------------- MODULE PagingProofs ----------------------------
(***************************************************************************)
(* Theorems about Paging, for every size of the address space and window,  *)
(* any number of tasks and page structures: type correctness, and that     *)
(* frames come to be shared by stale search results only, are lost by      *)
(* remapping only, and that the search keeps to the window.                *)
(***************************************************************************)
EXTENDS Paging, TLAPS

(* The page an index of the map denotes: itself, or the same one again     *)
(* NPages later, or the last one for -1.                                   *)
LEMMA PhysicalPageValue ==
    ASSUME NEW i \in Bytes \cup {-1}
    PROVE  /\ i \in Pages => PhysicalPage(i) = i
           /\ i = -1 => PhysicalPage(i) = NPages - 1
           /\ i \notin Pages /\ i # -1 =>
                i \in NPages .. NPages + Slack - 1 /\ PhysicalPage(i) = i - NPages
           /\ PhysicalPage(i) \in Pages
           /\ PhysicalPage(i) \in Window => i \in Pages /\ PhysicalPage(i) = i
<1>1. NPages \in Nat /\ NPages > 0 /\ Slack < NPages /\ i \in Int
  BY PagesAssumption DEF Bytes, Window
<1>2. CASE i \in Pages
  <2>1. i % NPages = i
    BY <1>1, <1>2 DEF Pages
  <2> QED BY <1>2, <2>1 DEF PhysicalPage, Pages
<1>3. CASE i = -1
  <2>1. i % NPages = NPages - 1
    BY <1>1, <1>3
  <2> QED BY <1>1, <1>3, <2>1, PagesAssumption DEF PhysicalPage, Pages, Window
<1>4. CASE i \in NPages .. NPages + Slack - 1
  <2>1. i % NPages = i - NPages
    BY <1>1, <1>4, PagesAssumption
  <2> QED BY <1>1, <1>4, <2>1, PagesAssumption DEF PhysicalPage, Pages, Window
<1> QED BY <1>1, <1>2, <1>3, <1>4, PagesAssumption DEF Bytes, Pages

(* get_first_physical_page()*0x1000 is an address, and if it is one of the *)
(* window its frame is free.                                               *)
LEMMA FirstPhysicalPageFree ==
    ASSUME NEW frame \in FirstPhysicalPage
    PROVE  frame \in Pages /\ (frame \in Window => ~used[frame])
<1>1. PICK i \in Bytes \cup {-1} : BitmapSearch(i) /\ frame = PhysicalPage(i)
  BY DEF FirstPhysicalPage
<1>2. frame \in Pages /\ (frame \in Window => i \in Pages /\ frame = i)
  BY <1>1, PhysicalPageValue
<1>3. frame \in Window => i # -1
  BY <1>2, PagesAssumption DEF Pages
<1> QED BY <1>1, <1>2, <1>3 DEF BitmapSearch

LEMMA PagesAreBytes == Pages \subseteq Bytes /\ Window \subseteq Pages /\ 0 \in Bytes
BY PagesAssumption DEF Pages, Bytes, Window
-----------------------------------------------------------------------------
Entries == [Pages -> Pages \cup {NotPresent}]

(* map_page on any set of page structures keeps the types. *)
LEMMA MapPageTypes ==
    ASSUME used \in [Bytes -> BOOLEAN],
           NEW tables, \A s \in DOMAIN tables : tables[s] \in Entries,
           NEW s \in DOMAIN tables, NEW v \in Window, NEW frame \in Pages,
           MapPage(tables, s, v, frame)
    PROVE  /\ used' \in [Bytes -> BOOLEAN]
           /\ DOMAIN pte' = DOMAIN tables
           /\ \A t \in DOMAIN pte' : pte'[t] \in Entries
<1>1. used' \in [Bytes -> BOOLEAN]
  BY PagesAreBytes DEF MapPage
<1>2. DOMAIN pte' = DOMAIN tables
  BY DEF MapPage
<1>3. ASSUME NEW t \in DOMAIN tables PROVE pte'[t] \in Entries
  BY <1>3, PagesAreBytes DEF MapPage, Entries
<1> QED BY <1>1, <1>2, <1>3

(* What copy_nonkernel_pages adds to the page structures.                  *)
LEMMA CopiedTypes ==
    ASSUME TypeOK, NEW new \in Spaces
    PROVE  LET copied == [s \in DOMAIN pte \cup {new} |->
                            IF s = new THEN InitialTable ELSE pte[s]]
           IN  \A s \in DOMAIN copied : copied[s] \in Entries
<1>1. InitialTable \in Entries
  BY DEF InitialTable, Entries
<1> QED BY <1>1 DEF TypeOK, Entries

LEMMA TypeStep == TypeOK /\ [Next]_vars => TypeOK'
<1> SUFFICES ASSUME TypeOK, [Next]_vars PROVE TypeOK'
  OBVIOUS
<1>1. ASSUME NEW c \in Callers, GetFrame(c) PROVE TypeOK'
  BY <1>1, FirstPhysicalPageFree DEF TypeOK, GetFrame
<1>2. ASSUME NEW c \in Callers, NEW s \in DOMAIN pte, NEW v \in Window,
             MapFrame(c, s, v)
      PROVE  TypeOK'
  <2>1. got[c] \in Pages /\ got' \in [Callers -> Pages \cup {Nothing}]
    BY <1>2 DEF MapFrame, TypeOK
  <2>2. pte' = [pte EXCEPT ![s][v] = got[c]]
        /\ used' = [used EXCEPT ![got[c]] = TRUE]
    BY <1>2 DEF MapFrame, MapPage
  <2>3. used' \in [Bytes -> BOOLEAN]
    BY <2>1, <2>2, PagesAreBytes DEF TypeOK
  <2>4. DOMAIN pte' = DOMAIN pte
    BY <2>2
  <2>5. ASSUME NEW t \in DOMAIN pte PROVE pte'[t] \in [Pages -> Pages \cup {NotPresent}]
    BY <2>1, <2>2, <2>5, PagesAreBytes DEF TypeOK
  <2> QED BY <2>1, <2>3, <2>4, <2>5 DEF TypeOK
<1>3. ASSUME NEW s \in DOMAIN pte, NEW v \in Window, FreePage(s, v) PROVE TypeOK'
  <2>1. FreedByte(pte[s][v]) \in Bytes
    BY PagesAreBytes DEF TypeOK, FreedByte
  <2>2. used' \in [Bytes -> BOOLEAN]
    BY <1>3, <2>1, PagesAreBytes DEF TypeOK, FreePage
  <2>3. DOMAIN pte' = DOMAIN pte
    BY <1>3 DEF FreePage
  <2>4. ASSUME NEW t \in DOMAIN pte PROVE pte'[t] \in [Pages -> Pages \cup {NotPresent}]
    BY <1>3, <2>4, PagesAreBytes DEF TypeOK, FreePage
  <2> QED BY <1>3, <2>2, <2>3, <2>4 DEF TypeOK, FreePage
<1>4. ASSUME NEW new \in Spaces, SetupTaskPaging(new) PROVE TypeOK'
  <2> DEFINE copied == [s \in DOMAIN pte \cup {new} |->
                          IF s = new THEN InitialTable ELSE pte[s]]
  <2>1. PICK frame \in FirstPhysicalPage : MapPage(copied, new, StackPage, frame)
    BY <1>4 DEF SetupTaskPaging
  <2>2. frame \in Pages /\ StackPage \in Window
    BY <2>1, FirstPhysicalPageFree, PagesAssumption
  <2>3. \A s \in DOMAIN copied : copied[s] \in Entries
    BY CopiedTypes
  <2>4. /\ used' \in [Bytes -> BOOLEAN]
        /\ DOMAIN pte' = DOMAIN copied
        /\ \A t \in DOMAIN pte' : pte'[t] \in Entries
    <3> HIDE DEF copied
    <3>1. new \in DOMAIN copied
      BY DEF copied
    <3> QED BY <2>1, <2>2, <2>3, <3>1, MapPageTypes DEF TypeOK
  <2>5. DOMAIN copied = DOMAIN pte \cup {new} /\ got' = got
    BY <1>4 DEF SetupTaskPaging
  <2> HIDE DEF copied
  <2> QED BY <2>4, <2>5 DEF TypeOK, Entries
<1>5. CASE UNCHANGED vars
  BY <1>5 DEF vars, TypeOK
<1> QED BY <1>1, <1>2, <1>3, <1>4, <1>5 DEF Next

(* The tables and the map of physical pages keep their types whatever the  *)
(* tasks map and free, also past the exhaustion of the window.             *)
THEOREM TypeCorrect == Spec => []TypeOK
<1>1. Init => TypeOK
  BY SpacesAssumption DEF Init, EnablePaging, InitialTable, TypeOK
<1> QED BY <1>1, TypeStep, PTL DEF Spec
-----------------------------------------------------------------------------
(* Isolated of any page structures and any map of physical pages.          *)
IsolatedIn(tables, map) ==
    /\ \A s1, s2 \in DOMAIN tables, v1, v2 \in Window :
          tables[s1][v1] = tables[s2][v2] /\ tables[s1][v1] \in Window
          => s1 = s2 /\ v1 = v2
    /\ \A s \in DOMAIN tables, v \in Window :
          tables[s][v] \in Window => map[tables[s][v]]

(* Mapping a frame from outside the window, or a free one, keeps them      *)
(* isolated, whatever the entry named before.                              *)
LEMMA MapFreeFrame ==
    ASSUME NEW map \in [Bytes -> BOOLEAN], NEW tables,
           \A t \in DOMAIN tables : tables[t] \in Entries,
           NEW s \in DOMAIN tables, NEW v \in Window, NEW frame \in Pages,
           IsolatedIn(tables, map), frame \in Window => ~map[frame]
    PROVE  IsolatedIn([tables EXCEPT ![s][v] = frame], [map EXCEPT ![frame] = TRUE])
<1> DEFINE after == [tables EXCEPT ![s][v] = frame]
           mapAfter == [map EXCEPT ![frame] = TRUE]
<1>1. DOMAIN after = DOMAIN tables
  OBVIOUS
<1>2. ASSUME NEW t \in DOMAIN tables, NEW u \in Window
      PROVE  after[t][u] = IF t = s /\ u = v THEN frame ELSE tables[t][u]
  BY <1>2, PagesAreBytes DEF Entries
<1>3. ASSUME NEW f \in Window
      PROVE  mapAfter[f] <=> f = frame \/ map[f]
  BY <1>3, PagesAreBytes
<1> HIDE DEF after, mapAfter
<1>4. ASSUME NEW t \in DOMAIN tables, NEW u \in Window, frame \in Window
      PROVE  tables[t][u] # frame
  BY <1>4 DEF IsolatedIn
<1>5. ASSUME NEW s1 \in DOMAIN after, NEW s2 \in DOMAIN after,
             NEW v1 \in Window, NEW v2 \in Window,
             after[s1][v1] = after[s2][v2], after[s1][v1] \in Window
      PROVE  s1 = s2 /\ v1 = v2
  BY <1>1, <1>2, <1>4, <1>5 DEF IsolatedIn
<1>6. ASSUME NEW t \in DOMAIN after, NEW u \in Window, after[t][u] \in Window
      PROVE  mapAfter[after[t][u]]
  BY <1>1, <1>2, <1>3, <1>6 DEF IsolatedIn
<1>7. IsolatedIn(after, mapAfter)
  BY <1>5, <1>6 DEF IsolatedIn
<1> QED BY <1>7 DEF after, mapAfter

(* A page structure with nothing in its window is isolated from the others.*)
LEMMA CopiedIsolated ==
    ASSUME TypeOK, Isolated, NEW new \in Spaces, new \notin DOMAIN pte
    PROVE  IsolatedIn([s \in DOMAIN pte \cup {new} |->
                         IF s = new THEN InitialTable ELSE pte[s]], used)
<1> DEFINE copied == [s \in DOMAIN pte \cup {new} |->
                        IF s = new THEN InitialTable ELSE pte[s]]
<1>1. ASSUME NEW v \in Window PROVE copied[new][v] \notin Window
  BY <1>1, PagesAreBytes, PagesAssumption DEF InitialTable, NotPresent, Window
<1>2. ASSUME NEW s \in DOMAIN copied, NEW v \in Window, copied[s][v] \in Window
      PROVE  s \in DOMAIN pte /\ copied[s][v] = pte[s][v]
  BY <1>1, <1>2
<1>3. DOMAIN pte \subseteq DOMAIN copied
  OBVIOUS
<1> HIDE DEF copied
<1>4. IsolatedIn(copied, used)
  BY <1>2, <1>3 DEF Isolated, IsolatedIn
<1> QED BY <1>4 DEF copied

(* free_page of a page frees its own frame, and frame 0, that is no frame  *)
(* of the window: no other page loses its frame to it.                     *)
LEMMA FreePageIsolated ==
    ASSUME TypeOK, Isolated, NEW s \in DOMAIN pte, NEW v \in Window, FreePage(s, v)
    PROVE  Isolated'
<1>1. DOMAIN pte' = DOMAIN pte
  BY DEF FreePage
<1>2. ASSUME NEW t \in DOMAIN pte, NEW u \in Window, pte'[t][u] \in Window
      PROVE  pte'[t][u] = pte[t][u] /\ ~(t = s /\ u = v)
  BY <1>2, PagesAreBytes, PagesAssumption
     DEF FreePage, TypeOK, NotPresent, Window
<1>3. ASSUME NEW f \in Window, f # pte[s][v], used[f] PROVE used'[f]
  BY <1>3, PagesAreBytes, PagesAssumption
     DEF FreePage, FreedByte, TypeOK, NotPresent, Window
<1>4. ASSUME NEW t \in DOMAIN pte, NEW u \in Window, pte'[t][u] \in Window
      PROVE  used'[pte'[t][u]]
  BY <1>2, <1>3, <1>4 DEF Isolated
<1> QED BY <1>1, <1>2, <1>4 DEF Isolated

(* Two pages come to share a frame, or a page comes to name a frame that   *)
(* can be handed out again, only when a task maps the frame it was told of *)
(* after somebody else has taken it: kernel_main's map_page of what        *)
(* get_first_physical_page returned, interrupted in between.               *)
THEOREM OnlyStaleShare == Spec => OnlyStaleAnswersShare
<1> DEFINE Stale == \E c \in Callers : /\ got[c] \in Window /\ used[got[c]]
                                       /\ got'[c] = Nothing
<1>1. TypeOK /\ [Next]_vars => (Isolated /\ ~Isolated' => Stale)
  <2> SUFFICES ASSUME TypeOK, [Next]_vars, Isolated, ~Stale PROVE Isolated'
    OBVIOUS
  <2>0. Isolated <=> IsolatedIn(pte, used)
    BY DEF Isolated, IsolatedIn
  <2>1. ASSUME NEW c \in Callers, GetFrame(c) PROVE Isolated'
    BY <2>1 DEF GetFrame, Isolated
  <2>2. ASSUME NEW c \in Callers, NEW s \in DOMAIN pte, NEW v \in Window,
               MapFrame(c, s, v)
        PROVE  Isolated'
    <3>1. got[c] \in Pages /\ got'[c] = Nothing
      BY <2>2 DEF MapFrame, TypeOK
    <3>2. got[c] \in Window => ~used[got[c]]
      BY <3>1
    <3>3. pte' = [pte EXCEPT ![s][v] = got[c]]
          /\ used' = [used EXCEPT ![got[c]] = TRUE]
      BY <2>2 DEF MapFrame, MapPage
    <3>4. /\ used \in [Bytes -> BOOLEAN]
          /\ \A t \in DOMAIN pte : pte[t] \in Entries
      BY DEF TypeOK, Entries
    <3>5. IsolatedIn(pte', used')
      BY <2>0, <3>1, <3>2, <3>3, <3>4, MapFreeFrame
    <3> QED BY <3>5 DEF Isolated, IsolatedIn
  <2>3. ASSUME NEW s \in DOMAIN pte, NEW v \in Window, FreePage(s, v)
        PROVE  Isolated'
    BY <2>3, FreePageIsolated
  <2>4. ASSUME NEW new \in Spaces, SetupTaskPaging(new) PROVE Isolated'
    <3> DEFINE copied == [s \in DOMAIN pte \cup {new} |->
                            IF s = new THEN InitialTable ELSE pte[s]]
    <3>1. PICK frame \in FirstPhysicalPage : MapPage(copied, new, StackPage, frame)
      BY <2>4 DEF SetupTaskPaging
    <3>2. /\ frame \in Pages /\ (frame \in Window => ~used[frame])
          /\ StackPage \in Window /\ new \notin DOMAIN pte
      BY <2>4, <3>1, FirstPhysicalPageFree, PagesAssumption DEF SetupTaskPaging
    <3>3. /\ \A t \in DOMAIN copied : copied[t] \in Entries
          /\ new \in DOMAIN copied
      BY CopiedTypes
    <3>4. IsolatedIn(copied, used)
      BY <3>2, CopiedIsolated
    <3> HIDE DEF copied
    <3>5. IsolatedIn(pte', used')
      BY <3>1, <3>2, <3>3, <3>4, MapFreeFrame DEF TypeOK, MapPage
    <3> QED BY <3>5 DEF Isolated, IsolatedIn
  <2>5. CASE UNCHANGED vars
    BY <2>5 DEF vars, Isolated
  <2> QED BY <2>1, <2>2, <2>3, <2>4, <2>5 DEF Next
<1>2. Spec => []TypeOK
  BY TypeCorrect
<1> QED BY <1>1, <1>2, PTL DEF Spec, OnlyStaleAnswersShare
-----------------------------------------------------------------------------
(* map_page of a new frame takes the place of the only page a frame that   *)
(* gets lost was mapped at; free_page gives the frame of its page back.    *)
THEOREM LostByRemap == Spec => LostOnlyByRemap
<1> DEFINE Remapped(f) == \E s \in DOMAIN pte, v \in Window :
                            pte[s][v] = f /\ pte'[s][v] \notin {f, NotPresent}
<1>1. ASSUME TypeOK, [Next]_vars, NEW f \in Window, ~Lost(f), Lost(f)'
      PROVE  Remapped(f)
  <2>1. used'[f] /\ ~Mapped(f)' /\ (used[f] => Mapped(f)) /\ f \in Bytes
    BY <1>1, PagesAreBytes DEF Lost
  <2>2. ASSUME NEW c \in Callers, GetFrame(c) PROVE FALSE
    BY <2>1, <2>2 DEF GetFrame, Mapped
  <2>3. ASSUME NEW c \in Callers, NEW s \in DOMAIN pte, NEW v \in Window,
               MapFrame(c, s, v)
        PROVE  Remapped(f)
    <3>1. /\ pte' = [pte EXCEPT ![s][v] = got[c]] /\ got[c] # NotPresent
          /\ used' = [used EXCEPT ![got[c]] = TRUE] /\ got[c] \in Pages
      BY <1>1, <2>3 DEF MapFrame, MapPage, TypeOK, Nothing, NotPresent
    <3>2. DOMAIN pte' = DOMAIN pte /\ pte'[s][v] = got[c]
          /\ \A t \in DOMAIN pte, u \in Window :
                ~(t = s /\ u = v) => pte'[t][u] = pte[t][u]
      BY <1>1, <3>1, PagesAreBytes DEF TypeOK
    <3>3. f # got[c]
      BY <2>1, <3>2 DEF Mapped
    <3>4. used[f]
      BY <1>1, <2>1, <3>1, <3>3, PagesAreBytes DEF TypeOK
    <3>5. PICK t \in DOMAIN pte, u \in Window : pte[t][u] = f
      BY <2>1, <3>4 DEF Mapped
    <3>6. t = s /\ u = v
      BY <2>1, <3>2, <3>5 DEF Mapped
    <3> QED BY <3>1, <3>2, <3>3, <3>5, <3>6
  <2>4. ASSUME NEW s \in DOMAIN pte, NEW v \in Window, FreePage(s, v) PROVE FALSE
    <3> DEFINE freed == FreedByte(pte[s][v])
    <3>1. /\ pte' = [pte EXCEPT ![s][v] = NotPresent] /\ freed \in Bytes
          /\ used' = [used EXCEPT ![freed] = FALSE, ![0] = FALSE]
      BY <1>1, <2>4, PagesAreBytes DEF FreePage, FreedByte, TypeOK
    <3>2. DOMAIN pte' = DOMAIN pte
          /\ \A t \in DOMAIN pte, u \in Window :
                ~(t = s /\ u = v) => pte'[t][u] = pte[t][u]
      BY <1>1, <3>1, PagesAreBytes DEF TypeOK
    <3>3. f # freed /\ used[f]
      <4> HIDE DEF freed
      <4> QED BY <1>1, <2>1, <3>1, PagesAreBytes DEF TypeOK
    <3>4. PICK t \in DOMAIN pte, u \in Window : pte[t][u] = f
      BY <2>1, <3>3 DEF Mapped
    <3>5. pte[s][v] = f
      BY <2>1, <3>2, <3>4 DEF Mapped
    <3>6. FreedByte(f) = f
      BY <2>1, PagesAssumption DEF FreedByte, NotPresent, Window
    <3> QED BY <3>3, <3>5, <3>6
  <2>5. ASSUME NEW new \in Spaces, SetupTaskPaging(new) PROVE FALSE
    <3> DEFINE copied == [s \in DOMAIN pte \cup {new} |->
                            IF s = new THEN InitialTable ELSE pte[s]]
    <3>1. PICK frame \in FirstPhysicalPage : MapPage(copied, new, StackPage, frame)
      BY <2>5 DEF SetupTaskPaging
    <3>2. new \notin DOMAIN pte /\ frame \in Pages /\ StackPage \in Window
      BY <2>5, <3>1, FirstPhysicalPageFree, PagesAssumption DEF SetupTaskPaging
    <3>3. /\ DOMAIN copied = DOMAIN pte \cup {new}
          /\ \A t \in DOMAIN pte : copied[t] = pte[t]
          /\ copied[new] \in Entries
      BY <3>2 DEF InitialTable, Entries
    <3> HIDE DEF copied
    <3>4. /\ used' = [used EXCEPT ![frame] = TRUE]
          /\ pte' = [copied EXCEPT ![new][StackPage] = frame]
      BY <3>1 DEF MapPage
    <3>5. /\ new \in DOMAIN pte' /\ pte'[new][StackPage] = frame
          /\ \A t \in DOMAIN pte : t \in DOMAIN pte' /\ pte'[t] = pte[t]
      BY <3>2, <3>3, <3>4, PagesAreBytes DEF Entries
    <3>6. f # frame
      BY <2>1, <3>2, <3>5 DEF Mapped
    <3>7. used[f]
      BY <1>1, <2>1, <3>2, <3>4, <3>6, PagesAreBytes DEF TypeOK
    <3>8. PICK t \in DOMAIN pte, u \in Window : pte[t][u] = f
      BY <2>1, <3>7 DEF Mapped
    <3> QED BY <2>1, <3>5, <3>8 DEF Mapped
  <2>6. CASE UNCHANGED vars
    BY <2>1, <2>6 DEF vars, Mapped
  <2> QED BY <1>1, <2>2, <2>3, <2>4, <2>5, <2>6 DEF Next
<1>2. TypeOK /\ [Next]_vars => \A f \in Window : ~Lost(f) /\ Lost(f)' => Remapped(f)
  BY <1>1
<1> QED BY <1>2, TypeCorrect, PTL DEF Spec, LostOnlyByRemap
-----------------------------------------------------------------------------
(* What the search can yield: -1 for the last frame, a page of the window, *)
(* and for a byte past the map, or freed by free_page later, one of the    *)
(* first pages.  Every other page stays in use.                            *)
Yielded == Window \cup {0, NPages - 1} \cup 0 .. Slack - 1
KernelInUse ==
    /\ \A v \in Pages \ Yielded : used[v]
    /\ used[NPages - 1]
    /\ \A c \in Callers : got[c] \in Yielded \cup {Nothing}
    /\ \A s \in DOMAIN pte, v \in Window : pte[s][v] \in Yielded \cup {NotPresent}

LEMMA YieldedPages ==
    /\ Yielded \subseteq Pages /\ Window \subseteq Yielded
    /\ 0 \in Yielded /\ NPages - 1 \in Yielded /\ NotPresent \notin Pages
BY PagesAssumption DEF Yielded, Pages, Window, NotPresent

(* What the search hands out, and when it is a frame of the kernel.        *)
LEMMA SearchYields ==
    ASSUME TypeOK, KernelInUse, NEW frame \in FirstPhysicalPage
    PROVE  /\ frame \in Yielded
           /\ frame \notin Window =>
                \/ \A f \in Window : used[f]
                \/ ~used[frame] /\ frame < Slack
                \/ ~used[0] /\ frame = 0
<1>1. PICK i \in Bytes \cup {-1} : BitmapSearch(i) /\ frame = PhysicalPage(i)
  BY DEF FirstPhysicalPage
<1>2. CASE i \in Pages
  <2>1. frame = i /\ ~used[i]
    BY <1>1, <1>2, PhysicalPageValue, PagesAssumption DEF BitmapSearch, Pages
  <2>2. i \in Yielded /\ i # NPages - 1
    BY <1>2, <2>1 DEF KernelInUse
  <2> QED BY <2>1, <2>2, PagesAssumption DEF Yielded
<1>3. CASE i \notin Pages
  <2>1. frame \in Yielded
    BY <1>1, <1>3, PhysicalPageValue, PagesAssumption DEF Yielded
  <2>2. CASE i = -1
    BY <1>1, <2>1, <2>2, PagesAreBytes, PagesAssumption DEF BitmapSearch, Bytes
  <2>3. CASE i \in NPages .. NPages + Slack - 1
    <3>1. Window \subseteq 0 .. i - 1
      BY <2>3, PagesAssumption DEF Window
    <3> QED BY <1>1, <2>1, <2>3, <3>1, PagesAssumption DEF BitmapSearch
  <2> QED BY <1>3, <2>2, <2>3, PhysicalPageValue
<1> QED BY <1>2, <1>3

LEMMA KernelInUseStep == TypeOK /\ KernelInUse /\ [Next]_vars => KernelInUse'
<1> SUFFICES ASSUME TypeOK, KernelInUse, [Next]_vars PROVE KernelInUse'
  OBVIOUS
<1>1. ASSUME NEW c \in Callers, GetFrame(c) PROVE KernelInUse'
  <2>1. PICK frame \in FirstPhysicalPage : got' = [got EXCEPT ![c] = frame]
    BY <1>1 DEF GetFrame
  <2>2. frame \in Yielded
    BY SearchYields
  <2> QED BY <1>1, <2>1, <2>2 DEF GetFrame, KernelInUse, TypeOK
<1>2. ASSUME NEW c \in Callers, NEW s \in DOMAIN pte, NEW v \in Window,
             MapFrame(c, s, v)
      PROVE  KernelInUse'
  <2>1. /\ pte' = [pte EXCEPT ![s][v] = got[c]] /\ got[c] \in Yielded
        /\ used' = [used EXCEPT ![got[c]] = TRUE] /\ got[c] \in Pages
        /\ got' = [got EXCEPT ![c] = Nothing]
    BY <1>2, YieldedPages DEF MapFrame, MapPage, TypeOK, KernelInUse
  <2>2. DOMAIN pte' = DOMAIN pte
        /\ \A t \in DOMAIN pte, u \in Window :
              pte'[t][u] = IF t = s /\ u = v THEN got[c] ELSE pte[t][u]
    BY <2>1, PagesAreBytes DEF TypeOK
  <2>3. \A b \in Bytes : used[b] => used'[b]
    BY <2>1 DEF TypeOK
  <2>4. \A d \in Callers : got'[d] \in Yielded \cup {Nothing}
    BY <2>1 DEF TypeOK, KernelInUse
  <2>5. \A t \in DOMAIN pte', u \in Window : pte'[t][u] \in Yielded \cup {NotPresent}
    BY <2>1, <2>2 DEF KernelInUse
  <2>6. NPages - 1 \in Pages
    BY YieldedPages
  <2> QED BY <2>3, <2>4, <2>5, <2>6, PagesAreBytes DEF KernelInUse
<1>3. ASSUME NEW s \in DOMAIN pte, NEW v \in Window, FreePage(s, v) PROVE KernelInUse'
  <2> DEFINE freed == FreedByte(pte[s][v])
  <2>1. freed \in Yielded /\ freed # NPages - 1
    BY YieldedPages, PagesAssumption DEF KernelInUse, FreedByte
  <2>2. DOMAIN pte' = DOMAIN pte
        /\ \A t \in DOMAIN pte, u \in Window : pte'[t][u] \in {pte[t][u], NotPresent}
    BY <1>3, PagesAreBytes DEF FreePage, TypeOK
  <2>3. ASSUME NEW b \in Pages, b # freed, b # 0, used[b] PROVE used'[b]
    <3> HIDE DEF freed
    <3>1. used' = [used EXCEPT ![freed] = FALSE, ![0] = FALSE]
      BY <1>3 DEF FreePage, freed
    <3> QED BY <2>1, <2>3, <3>1, PagesAreBytes DEF TypeOK
  <2>4. \A b \in Pages \ Yielded : used'[b]
    BY <2>1, <2>3, YieldedPages DEF KernelInUse
  <2>5. used'[NPages - 1]
    <3>1. NPages - 1 \in Pages /\ NPages - 1 # 0
      BY PagesAssumption DEF Pages
    <3> QED BY <2>1, <2>3, <3>1 DEF KernelInUse
  <2>6. \A t \in DOMAIN pte', u \in Window : pte'[t][u] \in Yielded \cup {NotPresent}
    BY <2>2 DEF KernelInUse
  <2>7. got' = got
    BY <1>3 DEF FreePage
  <2> QED BY <2>4, <2>5, <2>6, <2>7 DEF KernelInUse
<1>4. ASSUME NEW new \in Spaces, SetupTaskPaging(new) PROVE KernelInUse'
  <2> DEFINE copied == [s \in DOMAIN pte \cup {new} |->
                          IF s = new THEN InitialTable ELSE pte[s]]
  <2>1. PICK frame \in FirstPhysicalPage : MapPage(copied, new, StackPage, frame)
    BY <1>4 DEF SetupTaskPaging
  <2>2. frame \in Yielded /\ frame \in Pages /\ StackPage \in Window /\ got' = got
    BY <1>4, SearchYields, YieldedPages, PagesAssumption DEF SetupTaskPaging
  <2>3. /\ DOMAIN copied = DOMAIN pte \cup {new}
        /\ \A t \in DOMAIN copied : copied[t] \in Entries
        /\ \A t \in DOMAIN copied, u \in Window : copied[t][u] \in Yielded \cup {NotPresent}
    <3>1. \A u \in Window : InitialTable[u] = NotPresent
      BY PagesAreBytes DEF InitialTable
    <3> QED BY <3>1, CopiedTypes DEF KernelInUse
  <2> HIDE DEF copied
  <2>4. /\ used' = [used EXCEPT ![frame] = TRUE]
        /\ pte' = [copied EXCEPT ![new][StackPage] = frame]
    BY <2>1 DEF MapPage
  <2>5. DOMAIN pte' = DOMAIN copied
        /\ \A t \in DOMAIN copied, u \in Window :
              pte'[t][u] = IF t = new /\ u = StackPage THEN frame ELSE copied[t][u]
    BY <2>3, <2>4, PagesAreBytes DEF Entries
  <2>6. \A b \in Bytes : used[b] => used'[b]
    BY <2>4 DEF TypeOK
  <2>7. \A t \in DOMAIN pte', u \in Window : pte'[t][u] \in Yielded \cup {NotPresent}
    BY <2>2, <2>3, <2>5
  <2>8. NPages - 1 \in Pages
    BY YieldedPages
  <2> QED BY <2>2, <2>6, <2>7, <2>8, PagesAreBytes DEF KernelInUse
<1>5. CASE UNCHANGED vars
  BY <1>5 DEF vars, KernelInUse
<1> QED BY <1>1, <1>2, <1>3, <1>4, <1>5 DEF Next

(* The search hands a frame of kernel memory out when the window is used   *)
(* up, and otherwise only page 0 or one that it handed out before.         *)
THEOREM SearchKeepsKernel == Spec => KernelFramesKept
<1>1. Init => KernelInUse
  <2> SUFFICES ASSUME Init PROVE KernelInUse
    OBVIOUS
  <2>1. used[NPages - 1] /\ \A v \in Pages \ Yielded : used[v]
    BY YieldedPages, PagesAssumption DEF Init, EnablePaging, Window, Pages
  <2>2. \A s \in DOMAIN pte, v \in Window : pte[s][v] = NotPresent
    BY PagesAreBytes DEF Init, EnablePaging, InitialTable
  <2> QED BY <2>1, <2>2 DEF Init, KernelInUse
<1>2. ASSUME TypeOK, KernelInUse, [Next]_vars, NEW c \in Callers,
             got[c] = Nothing, got'[c] \notin Window \cup {Nothing}
      PROVE  \/ \A f \in Window : used[f]
             \/ ~used[got'[c]] /\ got'[c] < Slack
             \/ ~used[0] /\ got'[c] = 0
  <2>1. got'[c] \in FirstPhysicalPage
    <3>1. ASSUME NEW d \in Callers, GetFrame(d) PROVE got'[c] \in FirstPhysicalPage
      BY <1>2, <3>1 DEF GetFrame, TypeOK
    <3>2. ASSUME NEW d \in Callers, NEW s \in DOMAIN pte, NEW v \in Window,
                 MapFrame(d, s, v)
          PROVE  FALSE
      BY <1>2, <3>2 DEF MapFrame, TypeOK
    <3>3. got' # got
      BY <1>2
    <3> QED BY <1>2, <3>1, <3>2, <3>3 DEF Next, FreePage, SetupTaskPaging, vars
  <2> QED BY <1>2, <2>1, SearchYields
<1> DEFINE Kept == \A c \in Callers :
               got[c] = Nothing /\ got'[c] \notin Window \cup {Nothing}
               => \/ \A f \in Window : used[f]
                  \/ ~used[got'[c]] /\ got'[c] < Slack
                  \/ ~used[0] /\ got'[c] = 0
<1>3. TypeOK /\ KernelInUse /\ [Next]_vars => Kept
  BY <1>2
<1> QED BY <1>1, <1>3, KernelInUseStep, TypeCorrect, PTL DEF Spec, KernelFramesKept
=============================================================================
