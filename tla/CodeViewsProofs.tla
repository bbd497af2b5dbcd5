--------------------------- MODULE CodeViewsProofs ---------------------------
(* The theorems of modules CodeViews and SubControl: that the sub runs code  *)
(* of the image that is live, and from an image that is admitted, for every  *)
(* memory, every candidates and images and every size of a granule.          *)
EXTENDS CodeViews, SubControl, TLAPS, WellFoundedInduction

-----------------------------------------------------------------------------
(* The inductive invariant.                                                  *)

Memory == [Banks -> [Cell -> Values]]
Views == Banks \cup {None}
Groups == [selected : {0} \cup CandIds, stale : {0} \cup CandIds,
           dirty : SUBSET Granule, all : BOOLEAN]
Bindings == [image : {0} \cup ImageIds, base : Int, dirty : SUBSET Granule,
             mutated : SUBSET Granule, order : Nat]

Types ==
    /\ program \in {"overlays", "dynamic"}
    /\ mem \in Memory /\ view \in Views
    /\ owed = NoStore \/ owed \in [bank : Banks, cell : Cell, value : Values]
    /\ group \in Groups /\ last \in {0} \cup CandIds
    /\ program = "dynamic" => group = NoGroup

\* What a group knows of memory m in view v: the selected candidate is live in
\* every granule that is not dirty, and a live candidate that overlaps it is
\* touched by a dirty granule.
Knows(m, v, s) ==
    s.selected # 0 /\ ~s.all =>
        /\ \A g \in GranulesOf(s.selected) \ s.dirty : GranuleLive(m, v, s.selected, g)
        /\ \A k \in CandIds \ {s.selected} :
              Overlaps(k, s.selected) /\ CandidateLive(m, v, k) => GranulesOf(k) \cap s.dirty # {}

\* The candidate that ran last is still selected, or its replacement is on record.
Remembers(s, l) == l # 0 => s.selected = l \/ (s.selected = 0 /\ s.stale # 0)

\* A granule that binding b holds for clean is its image in memory m and view v.
Clean(m, v, b) ==
    Active(b) => \A g \in Granule \ b.dirty :
        EqualsImage(m, v, b, {c \in Extent(b) : GranuleOf(c) = g})

OverlayInv ==
    /\ Types
    /\ Knows(mem, view, group)
    /\ Remembers(group, last)
    /\ RunsLiveImage

-----------------------------------------------------------------------------
\* A set of numbers that is not empty has a least one.
LEMMA LeastNat ==
  ASSUME NEW S \in SUBSET Nat, S # {}
  PROVE \E x \in S : \A y \in S : x <= y
<1>1. \A x, y \in Nat : <<y, x>> \in OpToRel(<, Nat) <=> y < x
  BY Zenon DEF OpToRel
<1>2. \E R : IsWellFoundedOn(R, Nat) /\ \A x, y \in Nat : <<y, x>> \in R <=> y < x
  BY <1>1, NatLessThanWellFounded, Zenon
<1>3. PICK R : IsWellFoundedOn(R, Nat) /\ \A x, y \in Nat : <<y, x>> \in R <=> y < x
  BY <1>2
<1>4. \E x \in S : \A y \in S : ~ (<<y, x>> \in R)
  BY <1>3, WFMin
<1>5. PICK x \in S : \A y \in S : ~ (<<y, x>> \in R)
  BY <1>4
<1>6. ASSUME NEW y \in S PROVE x <= y
  <2>1. ~(y < x)
    BY <1>3, <1>5, Zenon
  <2> QED BY <2>1
<1> QED BY <1>6

-----------------------------------------------------------------------------
(* Stores and overlays.                                                      *)

\* A store noted in a group leaves it a group.
LEMMA StoreTypes ==
    ASSUME NEW s \in Groups, NEW v, NEW bank, NEW cell \in Cell
    PROVE  OverlayNoteWrite(s, v, bank, cell) \in Groups
<1>1. GranuleOf(cell) \in Granule
  BY CodeViewsAssumption DEF GranuleOf, Granule, Cell
<1> QED BY <1>1 DEF OverlayNoteWrite, Groups

\* A store changes only what is seen of its own cell.
LEMMA StoreElsewhere ==
    ASSUME NEW m \in Memory, NEW v \in Views,
           NEW bank \in Banks, NEW cell \in Cell, NEW value \in Values,
           NEW c, v # bank \/ c # cell
    PROVE  LiveByte([m EXCEPT ![bank][cell] = value], v, c) = LiveByte(m, v, c)
BY DEF LiveByte, Memory, Views

\* A store changes what is live only in its own granule.
LEMMA StoreOtherGranule ==
    ASSUME NEW m \in Memory, NEW v \in Views,
           NEW bank \in Banks, NEW cell \in Cell, NEW value \in Values,
           NEW k, NEW g, v # bank \/ g # GranuleOf(cell)
    PROVE  GranuleLive([m EXCEPT ![bank][cell] = value], v, k, g) <=> GranuleLive(m, v, k, g)
BY StoreElsewhere DEF GranuleLive

\* What a group knows survives a store it is told of.
LEMMA StoreKnows ==
    ASSUME NEW m \in Memory, NEW v \in Views,
           NEW bank \in Banks, NEW cell \in Cell, NEW value \in Values,
           NEW s \in Groups, Knows(m, v, s)
    PROVE  Knows([m EXCEPT ![bank][cell] = value], v, OverlayNoteWrite(s, v, bank, cell))
<1> DEFINE n == [m EXCEPT ![bank][cell] = value]
           t == OverlayNoteWrite(s, v, bank, cell)
<1> SUFFICES ASSUME t.selected # 0, ~t.all
             PROVE  /\ \A g \in GranulesOf(t.selected) \ t.dirty : GranuleLive(n, v, t.selected, g)
                    /\ \A k \in CandIds \ {t.selected} :
                          Overlaps(k, t.selected) /\ CandidateLive(n, v, k) => GranulesOf(k) \cap t.dirty # {}
  BY DEF Knows
<1>1. t.selected = s.selected /\ t.all = s.all /\ s.dirty \subseteq t.dirty
  BY DEF OverlayNoteWrite, Groups
<1>2. v # bank \/ GranuleOf(cell) \in t.dirty
  BY <1>1 DEF OverlayNoteWrite, Groups
<1>3. ASSUME NEW k, NEW g, g \notin t.dirty
      PROVE  GranuleLive(n, v, k, g) <=> GranuleLive(m, v, k, g)
  BY <1>2, <1>3, StoreOtherGranule
<1>4. \A g \in GranulesOf(t.selected) \ t.dirty : GranuleLive(n, v, t.selected, g)
  BY <1>1, <1>3 DEF Knows
<1>5. ASSUME NEW k \in CandIds \ {t.selected}, Overlaps(k, t.selected), CandidateLive(n, v, k),
             GranulesOf(k) \cap t.dirty = {}
      PROVE  FALSE
  <2>1. CandidateLive(m, v, k)
    BY <1>3, <1>5 DEF CandidateLive
  <2> QED BY <1>1, <1>5, <2>1 DEF Knows
<1> HIDE DEF n, t
<1> QED BY <1>4, <1>5

-----------------------------------------------------------------------------
(* What has landed.                                                          *)

\* What a group knows survives the landing of what the CDC owed.
LEMMA LandedRight ==
    ASSUME Types, Knows(mem, view, group), program = "overlays"
    PROVE  /\ Landed \in Memory
           /\ LandedGroup \in Groups
           /\ Knows(Landed, view, LandedGroup)
           /\ LandedGroup.selected = group.selected /\ LandedGroup.stale = group.stale
<1>1. CASE owed = NoStore
  BY <1>1 DEF Landed, LandedGroup, Types
<1>2. CASE owed # NoStore
  <2>1. owed.bank \in Banks /\ owed.cell \in Cell /\ owed.value \in Values
    BY <1>2 DEF Types
  <2>2. /\ Landed = [mem EXCEPT ![owed.bank][owed.cell] = owed.value]
        /\ LandedGroup = OverlayNoteWrite(group, view, owed.bank, owed.cell)
    BY <1>2 DEF Landed, LandedGroup
  <2>3. Landed \in Memory
    BY <2>1, <2>2 DEF Types, Memory
  <2>4. LandedGroup \in Groups
    BY <2>1, <2>2, StoreTypes DEF Types
  <2>5. Knows(Landed, view, LandedGroup)
    BY <2>1, <2>2, StoreKnows DEF Types
  <2>6. LandedGroup.selected = group.selected /\ LandedGroup.stale = group.stale
    BY <2>2 DEF OverlayNoteWrite, Types, Groups
  <2> QED BY <2>3, <2>4, <2>5, <2>6
<1> QED BY <1>1, <1>2

-----------------------------------------------------------------------------
(* Dispatch of an overlay.                                                   *)

\* Candidate k is live and no other that overlaps it is.
Alone(m, v, k) ==
    /\ CandidateLive(m, v, k)
    /\ \A j \in CandIds \ {k} : Overlaps(j, k) => ~CandidateLive(m, v, j)

\* A selection that survives the check is live, and alone.
LEMMA ValidIsAlone ==
    ASSUME NEW m, NEW v, NEW s \in Groups, Knows(m, v, s), s.selected # 0,
           AnyDirty(s) => Revalidate(m, v, s) = "valid"
    PROVE  Alone(m, v, s.selected)
<1>1. CASE ~AnyDirty(s)
  <2>1. ~s.all /\ s.dirty = {}
    BY <1>1 DEF AnyDirty
  <2> QED BY <2>1 DEF Knows, Alone, CandidateLive
<1>2. CASE AnyDirty(s)
  <2>1. DirtyLive(m, v, s, s.selected) /\ BecameLive(m, v, s) = {}
    BY <1>2 DEF Revalidate
  <2>2. CandidateLive(m, v, s.selected)
    BY <2>1 DEF DirtyLive, Knows, CandidateLive
  <2>3. ASSUME NEW j \in CandIds \ {s.selected}, Overlaps(j, s.selected), CandidateLive(m, v, j)
        PROVE  j \in BecameLive(m, v, s)
    <3>1. DirtyTouches(s, j)
      BY <2>3 DEF DirtyTouches, Knows
    <3>2. DirtyLive(m, v, s, j)
      BY <2>3 DEF DirtyLive, CandidateLive
    <3> QED BY <2>3, <3>1, <3>2 DEF BecameLive
  <2> QED BY <2>1, <2>2, <2>3 DEF Alone
<1> QED BY <1>1, <1>2

\* What alone is live is known of a group without dirty granules.
LEMMA AloneIsKnown ==
    ASSUME NEW m, NEW v, NEW s, s.selected # 0 => Alone(m, v, s.selected)
    PROVE  Knows(m, v, s)
BY DEF Alone, Knows, CandidateLive

\* The check at the start of a dispatch keeps what is alone live and puts a
\* replaced candidate on record.
LEMMA CheckedRight ==
    ASSUME NEW m, NEW v, NEW s \in Groups, Knows(m, v, s),
           s.selected # 0 /\ AnyDirty(s) => Revalidate(m, v, s) # "ambiguous",
           NEW t, t = Checked(m, v, s)
    PROVE  /\ t \in Groups
           /\ t.selected # 0 => t.selected = s.selected /\ Alone(m, v, t.selected)
           /\ t.selected = 0 => \/ s.selected = 0 /\ t.stale = s.stale
                                \/ s.selected # 0 /\ t.stale = s.selected
<1>1. CASE s.selected = 0 \/ ~AnyDirty(s)
  <2>1. t = s
    BY <1>1 DEF Checked
  <2>2. s.selected # 0 => Alone(m, v, s.selected)
    BY <1>1, ValidIsAlone
  <2> QED BY <2>1, <2>2, Zenon
<1>2. CASE s.selected # 0 /\ AnyDirty(s) /\ Revalidate(m, v, s) = "invalid"
  BY <1>2 DEF Checked, Cleared, Groups
<1>3. CASE s.selected # 0 /\ AnyDirty(s) /\ Revalidate(m, v, s) # "invalid"
  <2>1. Revalidate(m, v, s) = "valid"
    BY <1>3 DEF Revalidate
  <2>2. t = Cleared(s)
    BY <1>3 DEF Checked
  <2>3. t \in Groups /\ t.selected = s.selected
    BY <2>2 DEF Cleared, Groups
  <2> QED BY <1>3, <2>1, <2>3, ValidIsAlone
<1> QED BY <1>1, <1>2, <1>3

\* A fresh selection is alone live, covers pc and, after a replacement, starts at a
\* root.
LEMMA FreshRight ==
    ASSUME NEW m, NEW v, NEW s, NEW pc, NEW f, f = Fresh(m, v, s, pc), f.k # 0
    PROVE  /\ f.k \in CandIds /\ Covers(f.k, pc) /\ Alone(m, v, f.k)
           /\ s.stale # 0 => pc \in Cand(f.k).roots
<1> DEFINE live == {k \in CandIds : CandidateLive(m, v, k)}
           here == {k \in live : Covers(k, pc)}
           k    == CHOOSE j \in here : \A i \in here : j <= i
<1>1. here # {} /\ f.k = k
  BY DEF Fresh
<1>2. ~(\E j \in live \ {k} : Overlaps(j, k)) /\ (s.stale # 0 => pc \in Cand(k).roots)
  BY DEF Fresh
<1>3. here \in SUBSET Nat
  BY ImagesAssumption DEF CandIds
<1>4. \E j \in here : \A i \in here : j <= i
  <2> HIDE DEF here
  <2> QED BY <1>1, <1>3, LeastNat
<1>5. k \in here
  BY <1>4
<1> QED BY <1>1, <1>2, <1>5 DEF Alone

\* A dispatch keeps what the group knows and remembers; what it runs is alone live
\* and, when the candidate that ran last is not live any more, entered at a root.
LEMMA DispatchRight ==
    ASSUME NEW m, NEW v, NEW s \in Groups, Knows(m, v, s), NEW pc,
           NEW l \in {0} \cup CandIds, Remembers(s, l), NEW d, d = Dispatched(m, v, s, pc)
    PROVE  /\ d.group \in Groups /\ Knows(m, v, d.group)
           /\ Remembers(d.group, IF d.by # 0 THEN d.by ELSE l)
           /\ d.by # 0 => /\ d.by \in CandIds /\ Covers(d.by, pc) /\ Alone(m, v, d.by)
                          /\ l # 0 /\ ~CandidateLive(m, v, l) => pc \in Cand(d.by).roots
<1>1. CASE s.selected # 0 /\ AnyDirty(s) /\ Revalidate(m, v, s) = "ambiguous"
  <2>1. d = [group |-> s, by |-> 0, why |-> "ambiguous_image"]
    BY <1>1 DEF Dispatched
  <2> QED BY <2>1
<1>2. CASE ~(s.selected # 0 /\ AnyDirty(s) /\ Revalidate(m, v, s) = "ambiguous")
  <2> DEFINE t == Checked(m, v, s)
             f == Fresh(m, v, t, pc)
  <2>1. /\ t \in Groups
        /\ t.selected # 0 => t.selected = s.selected /\ Alone(m, v, t.selected)
        /\ t.selected = 0 => \/ s.selected = 0 /\ t.stale = s.stale
                             \/ s.selected # 0 /\ t.stale = s.selected
    BY <1>2, CheckedRight
  <2>2. f.k # 0 => /\ f.k \in CandIds /\ Covers(f.k, pc) /\ Alone(m, v, f.k)
                   /\ t.stale # 0 => pc \in Cand(f.k).roots
    BY FreshRight
  <2>3. CASE t.selected # 0 /\ Covers(t.selected, pc)
    <3>1. d = IF pc \in Cand(t.selected).entries
              THEN [group |-> t, by |-> t.selected, why |-> "none"]
              ELSE [group |-> t, by |-> 0, why |-> "image_entry_not_compiled"]
      BY <1>2, <2>3 DEF Dispatched
    <3>2. d.group = t /\ (d.by = 0 \/ d.by = t.selected)
      BY <3>1
    <3>3. Knows(m, v, t)
      BY <2>1, AloneIsKnown
    <3>4. t.selected \in CandIds
      BY <2>1, <2>3 DEF Groups
    <3>5. l = 0 \/ l = t.selected
      BY <2>1, <2>3 DEF Remembers
    <3> HIDE DEF t, f
    <3>6. Remembers(d.group, IF d.by # 0 THEN d.by ELSE l)
      BY <2>3, <3>2, <3>5 DEF Remembers
    <3> QED BY <2>1, <2>3, <3>2, <3>3, <3>4, <3>5, <3>6 DEF Alone
  <2>4. CASE ~(t.selected # 0 /\ Covers(t.selected, pc)) /\ f.k # 0
    <3>1. d.group = Cleared([t EXCEPT !.selected = f.k, !.stale = 0]) /\ d.by = f.k
      BY <1>2, <2>4 DEF Dispatched
    <3> HIDE DEF t, f
    <3>2. d.group \in Groups /\ d.group.selected = f.k
      BY <2>1, <2>2, <2>4, <3>1 DEF Cleared, Groups
    <3>3. Knows(m, v, d.group)
      BY <2>2, <2>4, <3>2, AloneIsKnown
    <3>4. Remembers(d.group, IF d.by # 0 THEN d.by ELSE l)
      BY <2>4, <3>1, <3>2 DEF Remembers
    <3>5. ASSUME l # 0, ~CandidateLive(m, v, l) PROVE pc \in Cand(f.k).roots
      <4>1. t.selected # l
        BY <2>1, <3>5 DEF Alone
      <4>2. t.stale # 0
        BY <2>1, <3>5, <4>1 DEF Remembers
      <4> QED BY <2>2, <2>4, <4>2
    <3> QED BY <2>2, <2>4, <3>1, <3>2, <3>3, <3>4, <3>5
  <2>5. CASE ~(t.selected # 0 /\ Covers(t.selected, pc)) /\ f.k = 0
    <3>1. d.group = t /\ d.by = 0
      BY <1>2, <2>5 DEF Dispatched
    <3>2. Knows(m, v, t)
      BY <2>1, AloneIsKnown
    <3>3. Remembers(t, l)
      BY <2>1 DEF Remembers
    <3> QED BY <2>1, <3>1, <3>2, <3>3
  <2> QED BY <2>3, <2>4, <2>5
<1> QED BY <1>1, <1>2

-----------------------------------------------------------------------------
(* The steps, for the overlays.                                              *)

\* Nobody selects anything in a group that a program of dynamic images carries.
LEMMA NoGroupKnows == ASSUME NEW m, NEW v PROVE Knows(m, v, NoGroup) /\ NoGroup \in Groups
BY DEF Knows, NoGroup, Groups

\* A step that runs nothing leaves nothing to ask of RunsLiveImage.
LEMMA NothingRanIsFine == ASSUME ran' = NoRun PROVE RunsLiveImage'
BY DEF RunsLiveImage

\* A store of a processor is noted at once; one of the CDC is owed, and memory and
\* group stay as they are until it lands.
LEMMA StoreOverlays ==
    ASSUME OverlayInv, NEW bank \in Banks, NEW cell \in Cell, NEW value \in Values,
           Store(bank, cell, value) \/ DmaStores(bank, cell, value)
    PROVE  OverlayInv'
<1>1. CASE Store(bank, cell, value)
  <2>1. /\ mem' = [mem EXCEPT ![bank][cell] = value]
        /\ UNCHANGED <<program, view, owed, last>> /\ ran' = NoRun
        /\ group' = IF program = "overlays" THEN OverlayNoteWrite(group, view, bank, cell) ELSE group
    BY <1>1 DEF Store, Stored, NothingRan
  <2>2. mem' \in Memory
    BY <2>1 DEF OverlayInv, Types, Memory
  <2>3. group' \in Groups /\ group'.selected = group.selected /\ group'.stale = group.stale
    <3>1. CASE program = "overlays"
      BY <2>1, <3>1, StoreTypes DEF OverlayInv, Types, OverlayNoteWrite, Groups
    <3>2. CASE program # "overlays"
      BY <2>1, <3>2 DEF OverlayInv, Types
    <3> QED BY <3>1, <3>2
  <2>4. Knows(mem', view', group')
    <3>1. CASE program = "overlays"
      BY <2>1, <3>1, StoreKnows DEF OverlayInv, Types
    <3>2. CASE program # "overlays"
      BY <2>1, <3>2, NoGroupKnows DEF OverlayInv, Types
    <3> QED BY <3>1, <3>2
  <2> QED BY <2>1, <2>2, <2>3, <2>4, NothingRanIsFine DEF OverlayInv, Types, Remembers, Knows
<1>2. CASE DmaStores(bank, cell, value)
  <2>1. /\ owed' = [bank |-> bank, cell |-> cell, value |-> value]
        /\ UNCHANGED <<program, mem, view, group, last>> /\ ran' = NoRun
    BY <1>2 DEF DmaStores, NothingRan
  <2>2. Types'
    BY <2>1 DEF OverlayInv, Types
  <2>3. Knows(mem, view, group)' /\ Remembers(group, last)'
    BY <2>1 DEF OverlayInv
  <2> QED BY <2>1, <2>2, <2>3, NothingRanIsFine DEF OverlayInv
<1> QED BY <1>1, <1>2

\* What has landed is memory.
LEMMA LandedIsMemory == ASSUME Types PROVE Landed \in Memory
<1>1. CASE owed = NoStore
  BY <1>1 DEF Landed, Types
<1>2. CASE owed # NoStore
  BY <1>2 DEF Landed, Types, Memory
<1> QED BY <1>1, <1>2

\* Looking at the CDC lands what is owed.
LEMMA ObserveOverlays ==
    ASSUME OverlayInv, Observe
    PROVE  OverlayInv'
<1>1. /\ mem' = Landed /\ group' = LandedGroup /\ owed' = NoStore
      /\ UNCHANGED <<program, view, last>> /\ ran' = NoRun
  BY DEF Observe, NothingRan
<1>2. CASE program = "overlays"
  BY <1>1, <1>2, LandedRight, NothingRanIsFine DEF OverlayInv, Types, Remembers
<1>3. CASE program # "overlays"
  <2>1. group' = group /\ group = NoGroup
    BY <1>1, <1>3 DEF LandedGroup, OverlayInv, Types
  <2>2. Types'
    BY <1>1, <2>1, LandedIsMemory DEF OverlayInv, Types
  <2>3. Knows(mem, view, group)' /\ Remembers(group, last)'
    BY <1>1, <2>1, NoGroupKnows DEF OverlayInv
  <2> QED BY <1>1, <2>2, <2>3, NothingRanIsFine DEF OverlayInv
<1> QED BY <1>2, <1>3

\* After a view change everything is dirty, so the group claims nothing.
LEMMA ViewChangeOverlays ==
    ASSUME OverlayInv, NEW v \in Views, ViewChange(v)
    PROVE  OverlayInv'
<1>1. /\ mem' = Landed /\ owed' = NoStore /\ view' = v
      /\ UNCHANGED <<program, last>> /\ ran' = NoRun
      /\ group' = IF program = "overlays" THEN OverlayNoteViewChange(LandedGroup) ELSE group
  BY DEF ViewChange, NothingRan
<1>2. CASE program = "overlays"
  <2>1. /\ LandedGroup \in Groups
        /\ LandedGroup.selected = group.selected /\ LandedGroup.stale = group.stale
    BY <1>2, LandedRight DEF OverlayInv
  <2>2. /\ group' \in Groups /\ group'.all
        /\ group'.selected = group.selected /\ group'.stale = group.stale
    BY <1>1, <1>2, <2>1 DEF OverlayNoteViewChange, Groups
  <2>3. Types'
    BY <1>1, <1>2, <2>2, LandedIsMemory DEF OverlayInv, Types
  <2>4. Knows(mem, view, group)' /\ Remembers(group, last)'
    BY <1>1, <2>2 DEF OverlayInv, Knows, Remembers
  <2> QED BY <1>1, <2>3, <2>4, NothingRanIsFine DEF OverlayInv
<1>3. CASE program # "overlays"
  <2>1. group' = group /\ group = NoGroup
    BY <1>1, <1>3 DEF OverlayInv, Types
  <2>2. Types'
    BY <1>1, <2>1, LandedIsMemory DEF OverlayInv, Types
  <2>3. Knows(mem, view, group)' /\ Remembers(group, last)'
    BY <1>1, <2>1, NoGroupKnows DEF OverlayInv
  <2> QED BY <1>1, <2>2, <2>3, NothingRanIsFine DEF OverlayInv
<1> QED BY <1>2, <1>3

\* What a dispatch of the group at pc does to the state.
LEMMA DispatchOverlays ==
    ASSUME OverlayInv, NEW pc \in Cell, OverlayDispatch(pc)
    PROVE  /\ OverlayInv'
           /\ last # 0 /\ ran' # NoRun /\ ~CandidateLive(mem', view', last)
                => ran'.pc \in Cand(ran'.by).roots
<1> DEFINE d == Dispatched(Landed, view, LandedGroup, pc)
<1>1. /\ mem' = Landed /\ owed' = NoStore /\ group' = d.group
      /\ ran' = IF d.by # 0 THEN [by |-> d.by, pc |-> pc] ELSE NoRun
      /\ last' = IF d.by # 0 THEN d.by ELSE last
      /\ UNCHANGED <<program, view>> /\ program = "overlays"
  BY DEF OverlayDispatch
<1>2. /\ LandedGroup \in Groups /\ Knows(Landed, view, LandedGroup)
      /\ Remembers(LandedGroup, last) /\ last \in {0} \cup CandIds
  BY <1>1, LandedRight DEF OverlayInv, Types, Remembers
<1>3. /\ d.group \in Groups /\ Knows(Landed, view, d.group)
      /\ Remembers(d.group, IF d.by # 0 THEN d.by ELSE last)
      /\ d.by # 0 => /\ d.by \in CandIds /\ Covers(d.by, pc) /\ Alone(Landed, view, d.by)
                     /\ last # 0 /\ ~CandidateLive(Landed, view, last) => pc \in Cand(d.by).roots
  BY <1>2, DispatchRight
<1> HIDE DEF d
<1>4. Types'
  BY <1>1, <1>3, LandedIsMemory DEF OverlayInv, Types
<1>5. Knows(mem, view, group)' /\ Remembers(group, last)'
  BY <1>1, <1>3
<1>6. Landed' = mem'
  BY <1>1 DEF Landed
<1>7. RunsLiveImage'
  <2>1. CASE d.by = 0
    BY <1>1, <2>1, NothingRanIsFine
  <2>2. CASE d.by # 0
    <3>1. ran'.by = d.by /\ ran'.pc = pc
      BY <1>1, <2>2
    <3> QED BY <1>1, <1>3, <1>6, <2>2, <3>1 DEF RunsLiveImage, Alone
  <2> QED BY <2>1, <2>2
<1>8. ASSUME last # 0, ran' # NoRun, ~CandidateLive(mem', view', last)
      PROVE  ran'.pc \in Cand(ran'.by).roots
  <2>1. d.by # 0 /\ ran'.by = d.by /\ ran'.pc = pc
    BY <1>1, <1>8
  <2> QED BY <1>1, <1>3, <1>8, <2>1
<1> QED BY <1>4, <1>5, <1>7, <1>8 DEF OverlayInv

\* The steps of a program of dynamic images leave the group alone.
LEMMA DynamicOverlays ==
    ASSUME OverlayInv, 
           \/ \E i \in ImageIds : \E b \in 0 .. (Length(i) - 1) \div BlockCells : Deliver(i, b)
           \/ LedgerOverflows
           \/ \E pc \in Cell : DynamicDispatch(pc) \/ DynamicKnown(pc)
    PROVE  OverlayInv'
<1>1. /\ program = "dynamic" /\ UNCHANGED <<program, view, group, last>>
      /\ \/ UNCHANGED <<mem, owed>>
         \/ mem' = Landed /\ owed' = NoStore
  BY DEF Deliver, LedgerOverflows, DynamicDispatch, DynamicKnown, NothingRan
<1>2. Types'
  BY <1>1, LandedIsMemory DEF OverlayInv, Types
<1>3. Knows(mem, view, group)' /\ Remembers(group, last)'
  BY <1>1, NoGroupKnows DEF OverlayInv, Types
<1>4. RunsLiveImage'
  BY <1>1 DEF RunsLiveImage
<1> QED BY <1>2, <1>3, <1>4 DEF OverlayInv

\* The power-on state.
LEMMA OverlayInit == Init => OverlayInv
<1> SUFFICES ASSUME Init PROVE OverlayInv
  OBVIOUS
<1>1. mem \in Memory /\ view \in Views /\ group = NoGroup /\ ran = NoRun /\ last = 0 /\ owed = NoStore
      /\ program \in {"overlays", "dynamic"}
  BY DEF Init, Memory, Views
<1> QED BY <1>1, NoGroupKnows DEF OverlayInv, Types, Remembers, RunsLiveImage

\* Every step keeps what is said of the overlays.
LEMMA OverlayNext == OverlayInv /\ [Next]_vars => OverlayInv'
<1> SUFFICES ASSUME OverlayInv, [Next]_vars PROVE OverlayInv'
  OBVIOUS
<1>1. CASE UNCHANGED vars
  BY <1>1 DEF vars, OverlayInv, Types, RunsLiveImage, Landed
<1>2. CASE \E bank \in Banks, cell \in Cell, value \in Values :
              Store(bank, cell, value) \/ DmaStores(bank, cell, value)
  BY <1>2, StoreOverlays
<1>3. CASE Observe
  BY <1>3, ObserveOverlays
<1>4. CASE \E v \in Banks \cup {None} : ViewChange(v)
  BY <1>4, ViewChangeOverlays DEF Views
<1>5. CASE \E pc \in Cell : OverlayDispatch(pc)
  BY <1>5, DispatchOverlays
<1>6. CASE \/ \E i \in ImageIds : \E b \in 0 .. (Length(i) - 1) \div BlockCells : Deliver(i, b)
           \/ LedgerOverflows
           \/ \E pc \in Cell : DynamicDispatch(pc) \/ DynamicKnown(pc)
  BY <1>6, DynamicOverlays
<1> QED BY <1>1, <1>2, <1>3, <1>4, <1>5, <1>6 DEF Next

\* An instruction of an overlay runs only while every byte of its image is live, what
\* the CDC still owed included, and no overlapping image is: for any memory, candidates,
\* granules and order of stores, view changes and dispatches.
THEOREM OverlaysRunLive == Spec => []RunsLiveImage
<1>1. OverlayInv => RunsLiveImage
  BY DEF OverlayInv
<1> QED BY <1>1, OverlayInit, OverlayNext, PTL DEF Spec

\* When the image that ran last has been replaced, the next instruction of the group
\* that runs is a declared root of its image: an invalid selection is put on record
\* and only a root clears it.
THEOREM ReplacedEntersAtRoot == Spec => ReplacedIsEnteredAtRoot
<1>1. OverlayInv /\ [Next]_vars =>
        [last # 0 /\ ran' # NoRun /\ program = "overlays" /\ ~CandidateLive(mem', view', last)
            => ran'.pc \in Cand(ran'.by).roots]_vars
  <2> SUFFICES ASSUME OverlayInv, Next, last # 0, ran' # NoRun, program = "overlays",
                      ~CandidateLive(mem', view', last)
               PROVE  ran'.pc \in Cand(ran'.by).roots
    OBVIOUS
  <2>1. \E pc \in Cell : OverlayDispatch(pc)
    BY DEF Next, Store, DmaStores, Observe, ViewChange, Deliver, LedgerOverflows, DynamicDispatch,
           DynamicKnown, NothingRan
  <2> QED BY <2>1, DispatchOverlays
<1> QED BY <1>1, OverlayInit, OverlayNext, PTL DEF Spec, ReplacedIsEnteredAtRoot

-----------------------------------------------------------------------------
(* Dynamic images: what the bindings know.                                   *)

\* The bindings bs are well formed, none was used after o, and each is its image
\* wherever it holds a granule for clean.
Sane(m, v, bs, o) ==
    /\ bs \in [Slots -> Bindings]
    /\ \A k \in Slots : bs[k].order <= o /\ Clean(m, v, bs[k])

\* The instruction at pc is the image's.
Fits(m, v, b, pc) == pc \in Extent(b) /\ EqualsImage(m, v, b, InstrCellsAt(b, pc))

\* The cells from lo to hi are the image's.
GoodRun(m, v, r, pc) ==
    /\ r.image \in ImageIds /\ r.base \in Int /\ r.lo \in Int /\ r.hi \in Int
    /\ pc \in r.lo .. r.hi
    /\ \A c \in r.lo .. r.hi : Matches(m, v, r.image, r.base, c)

\* What a binding serves depends on its image and base alone.
LEMMA SameImage ==
    ASSUME NEW b, NEW c, b.image = c.image, b.base = c.base
    PROVE  /\ Extent(b) = Extent(c) /\ Active(b) = Active(c)
           /\ \A m, v, cs : EqualsImage(m, v, b, cs) <=> EqualsImage(m, v, c, cs)
           /\ \A pc : InstrCellsAt(b, pc) = InstrCellsAt(c, pc)
           /\ \A m, v, pc : Fits(m, v, b, pc) <=> Fits(m, v, c, pc)
           /\ \A m, v : b.dirty = c.dirty => (Clean(m, v, b) <=> Clean(m, v, c))
<1>1. Extent(b) = Extent(c) /\ Active(b) = Active(c)
  BY DEF Extent, Active
<1>2. \A m, v, cs : EqualsImage(m, v, b, cs) <=> EqualsImage(m, v, c, cs)
  BY DEF EqualsImage, ImageByte
<1>3. \A pc : InstrCellsAt(b, pc) = InstrCellsAt(c, pc)
  BY <1>1 DEF InstrCellsAt
<1>4. \A m, v, pc : Fits(m, v, b, pc) <=> Fits(m, v, c, pc)
  BY <1>1, <1>2, <1>3 DEF Fits
<1>5. \A m, v : b.dirty = c.dirty => (Clean(m, v, b) <=> Clean(m, v, c))
  BY <1>1, <1>2 DEF Clean
<1> QED BY <1>1, <1>2, <1>3, <1>4, <1>5

\* A cell lies in a granule.
LEMMA GranuleTyped == \A c \in Cell : GranuleOf(c) \in Granule
BY CodeViewsAssumption DEF GranuleOf, Granule, Cell

\* A store a binding is told of leaves clean only what it did not touch.
LEMMA NoteWriteRight ==
    ASSUME NEW m \in Memory, NEW v \in Views, NEW bank \in Banks, NEW cell \in Cell,
           NEW value \in Values, NEW b \in Bindings, Clean(m, v, b),
           NEW c, c = DynNoteWrite(b, v, bank, cell)
    PROVE  /\ c \in Bindings /\ c.order = b.order
           /\ Clean([m EXCEPT ![bank][cell] = value], v, c)
<1> DEFINE n == [m EXCEPT ![bank][cell] = value]
<1>1. /\ c \in Bindings /\ c.order = b.order /\ c.image = b.image /\ c.base = b.base
      /\ b.dirty \subseteq c.dirty
      /\ Active(b) /\ v = bank /\ cell \in Extent(b) => GranuleOf(cell) \in c.dirty
  BY GranuleTyped DEF DynNoteWrite, Bindings
<1>2. ASSUME Active(c), NEW g \in Granule \ c.dirty, NEW x \in Extent(c), GranuleOf(x) = g
      PROVE  LiveByte(n, v, x) = ImageByte(c, x)
  <2>1. x \in Extent(b) /\ Active(b) /\ ImageByte(c, x) = ImageByte(b, x)
    BY <1>1, <1>2, SameImage DEF ImageByte
  <2>2. LiveByte(m, v, x) = ImageByte(b, x)
    BY <1>1, <1>2, <2>1 DEF Clean, EqualsImage
  <2>3. v # bank \/ x # cell
    BY <1>1, <1>2, <2>1
  <2>4. LiveByte(n, v, x) = LiveByte(m, v, x)
    BY <2>3, StoreElsewhere
  <2> QED BY <2>1, <2>2, <2>4
<1> HIDE DEF n
<1>3. Clean(n, v, c)
  BY <1>2 DEF Clean, EqualsImage
<1> QED BY <1>1, <1>3 DEF n

\* A comparison makes a granule clean only when it is the image.
LEMMA ComparedRight ==
    ASSUME NEW m, NEW v, NEW b \in Bindings, Clean(m, v, b), NEW pc, NEW c, c = Compared(m, v, b, pc)
    PROVE  /\ c \in Bindings /\ c.order = b.order /\ c.image = b.image /\ c.base = b.base
           /\ Clean(m, v, c)
<1> DEFINE unknown == {GranuleOf(x) : x \in InstrCellsAt(b, pc)} \cap (b.dirty \ b.mutated)
           equal   == {g \in unknown : EqualsImage(m, v, b, {x \in Extent(b) : GranuleOf(x) = g})}
<1>1. c = [b EXCEPT !.dirty = @ \ equal, !.mutated = @ \cup (unknown \ equal)]
  BY DEF Compared
<1>2. unknown \subseteq Granule
  BY DEF Bindings
<1>3. \A g \in equal : EqualsImage(m, v, b, {x \in Extent(b) : GranuleOf(x) = g})
  OBVIOUS
<1> HIDE DEF unknown, equal
<1>4. /\ c \in Bindings /\ c.order = b.order /\ c.image = b.image /\ c.base = b.base
      /\ c.dirty = b.dirty \ equal
  BY <1>1, <1>2 DEF Bindings
<1>5. ASSUME Active(c), NEW g \in Granule \ c.dirty
      PROVE  EqualsImage(m, v, c, {x \in Extent(c) : GranuleOf(x) = g})
  <2>1. Active(b) /\ Extent(c) = Extent(b)
    BY <1>4, <1>5, SameImage
  <2>2. EqualsImage(m, v, b, {x \in Extent(b) : GranuleOf(x) = g})
    BY <1>3, <1>4, <1>5, <2>1 DEF Clean
  <2> QED BY <1>4, <2>1, <2>2, SameImage
<1> QED BY <1>4, <1>5 DEF Clean

\* What scd_dyn_instruction_is_image answers is so.
LEMMA IsImageRight ==
    ASSUME NEW m, NEW v, NEW b \in Bindings, Active(b), Clean(m, v, b), NEW pc, IsImage(m, v, b, pc)
    PROVE  EqualsImage(m, v, b, InstrCellsAt(b, pc))
<1> DEFINE c == Compared(m, v, b, pc)
<1>1. c \in Bindings /\ c.image = b.image /\ c.base = b.base /\ Clean(m, v, c)
  BY ComparedRight
<1>2. CASE {GranuleOf(x) : x \in InstrCellsAt(b, pc)} \cap c.dirty = {}
  <2> HIDE DEF c
  <2>1. Active(c) /\ Extent(c) = Extent(b)
    BY <1>1, SameImage
  <2>2. ASSUME NEW x \in InstrCellsAt(b, pc) PROVE LiveByte(m, v, x) = ImageByte(b, x)
    <3>1. x \in Extent(b) /\ GranuleOf(x) \in Granule \ c.dirty
      BY <1>2, GranuleTyped DEF InstrCellsAt, Extent
    <3>2. LiveByte(m, v, x) = ImageByte(c, x)
      BY <1>1, <2>1, <3>1 DEF Clean, EqualsImage
    <3> QED BY <1>1, <3>2 DEF ImageByte
  <2> QED BY <2>2 DEF EqualsImage
<1> QED BY <1>2 DEF IsImage

-----------------------------------------------------------------------------
(* The search.                                                               *)

\* Nothing matches outside the range, or when nothing is seen there.
LEMMA MatchesInRange ==
    ASSUME NEW m, NEW v, NEW i \in ImageIds, NEW base \in Int, NEW c \in Int,
           Matches(m, v, i, base, c)
    PROVE  c \in Cell
BY CodeViewsAssumption, ImagesAssumption DEF Matches, LiveByte, ImageIds, Length

\* The extension backwards ends, and all it passed matches.
LEMMA RunFromRight ==
    ASSUME NEW m, NEW v, NEW i \in ImageIds, NEW base \in Int, NEW anchor \in Cell,
           NEW l, l = RunFrom(m, v, i, base, anchor)
    PROVE  l \in 0 .. anchor /\ \A c \in l .. anchor - 1 : Matches(m, v, i, base, c)
<1> DEFINE P(x) == ~GoesOn(m, v, i, base, x - 1) /\ \A c \in x .. anchor - 1 : GoesOn(m, v, i, base, c)
           S == {n \in 0 .. anchor : ~GoesOn(m, v, i, base, anchor - n - 1)}
<1>1. anchor \in Nat
  BY CodeViewsAssumption DEF Cell
<1>2. S \in SUBSET Nat
  BY <1>1
<1>3. anchor \in S
  <2>1. ~Matches(m, v, i, base, -1)
    BY MatchesInRange DEF Cell
  <2>2. anchor - anchor - 1 = -1
    BY <1>1
  <2> QED BY <1>1, <2>1, <2>2 DEF GoesOn
<1>4. PICK n \in S : \A y \in S : n <= y
  <2> HIDE DEF S
  <2> QED BY <1>2, <1>3, LeastNat
<1>5. P(anchor - n) /\ anchor - n \in 0 .. anchor
  <2>1. ~GoesOn(m, v, i, base, anchor - n - 1)
    BY <1>4
  <2>2. ASSUME NEW c \in anchor - n .. anchor - 1 PROVE GoesOn(m, v, i, base, c)
    <3>1. anchor - c - 1 \in 0 .. anchor /\ anchor - c - 1 < n /\ anchor - (anchor - c - 1) - 1 = c
      BY <1>1
    <3>2. anchor - c - 1 \notin S
      <4> HIDE DEF S
      <4>1. n \in Nat /\ ~(n <= anchor - c - 1)
        BY <1>1, <1>2, <3>1
      <4> QED BY <1>4, <4>1
    <3> QED BY <3>1, <3>2
  <2> QED BY <1>1, <2>1, <2>2
<1>6. l \in 0 .. anchor /\ P(l)
  BY <1>5 DEF RunFrom
<1> QED BY <1>6 DEF GoesOn

\* The extension forwards ends, and all it passed matches.
LEMMA RunToRight ==
    ASSUME NEW m, NEW v, NEW i \in ImageIds, NEW base \in Int, NEW end \in Cell,
           NEW h, h = RunTo(m, v, i, base, end)
    PROVE  h \in end .. Cells /\ \A c \in end + 1 .. h : Matches(m, v, i, base, c)
<1> DEFINE P(x) == ~GoesOn(m, v, i, base, x + 1) /\ \A c \in end + 1 .. x : GoesOn(m, v, i, base, c)
           S == {n \in end .. Cells : ~GoesOn(m, v, i, base, n + 1)}
<1>1. end \in Nat /\ Cells \in Nat /\ end < Cells
  BY CodeViewsAssumption DEF Cell
<1>2. S \in SUBSET Nat
  BY <1>1
<1>3. Cells \in S
  <2>1. ~Matches(m, v, i, base, Cells + 1)
    BY <1>1, MatchesInRange DEF Cell
  <2> QED BY <1>1, <2>1 DEF GoesOn
<1>4. PICK n \in S : \A y \in S : n <= y
  <2> HIDE DEF S
  <2> QED BY <1>2, <1>3, LeastNat
<1>5. P(n) /\ n \in end .. Cells
  <2>1. ASSUME NEW c \in end + 1 .. n PROVE GoesOn(m, v, i, base, c)
    <3>1. c - 1 \in end .. Cells /\ c - 1 < n /\ c - 1 + 1 = c
      BY <1>1
    <3>2. c - 1 \notin S
      BY <1>1, <1>4, <3>1
    <3> QED BY <3>1, <3>2
  <2> QED BY <2>1
<1>6. h \in end .. Cells /\ P(h)
  BY <1>5 DEF RunTo
<1> QED BY <1>6 DEF GoesOn

\* Every cell of a run is the image's: the anchor, and what the extensions passed.
LEMMA RunsRight ==
    ASSUME NEW m, NEW v, NEW pc, NEW anchor \in Int, NEW r \in Runs(m, v, pc, anchor)
    PROVE  GoodRun(m, v, r, pc)
<1> DEFINE end == anchor + AnchorCells - 1
<1>1. PICK i \in ImageIds, base \in (-Cells) .. Cells :
        /\ \A c \in anchor .. end : Matches(m, v, i, base, c)
        /\ r = RunAt(m, v, i, base, anchor)
        /\ pc \in r.lo .. r.hi
  BY DEF Runs, ImageIds
<1>2. base \in Int /\ AnchorCells \in Nat \ {0} /\ end \in Int
  BY <1>1, CodeViewsAssumption
<1>3. anchor \in Cell /\ end \in Cell
  BY <1>1, <1>2, MatchesInRange
<1>4. /\ r.image = i /\ r.base = base
      /\ r.lo = RunFrom(m, v, i, base, anchor) /\ r.hi = RunTo(m, v, i, base, end)
  BY <1>1 DEF RunAt
<1>5. /\ r.lo \in 0 .. anchor /\ \A c \in r.lo .. anchor - 1 : Matches(m, v, i, base, c)
      /\ r.hi \in end .. Cells /\ \A c \in end + 1 .. r.hi : Matches(m, v, i, base, c)
  BY <1>2, <1>3, <1>4, RunFromRight, RunToRight
<1>6. \A c \in r.lo .. r.hi : Matches(m, v, i, base, c)
  BY <1>1, <1>2, <1>3, <1>5 DEF Cell
<1> QED BY <1>1, <1>2, <1>4, <1>5, <1>6 DEF GoodRun

\* A search that succeeds found such a run, and it holds pc.
LEMMA SearchRight ==
    ASSUME NEW m, NEW v, NEW pc \in Cell, NEW s, s = Search(m, v, pc), s.why = "none"
    PROVE  GoodRun(m, v, s.run, pc)
<1> DEFINE best == [k \in 0 .. 2 |-> Longest(Runs(m, v, pc, AnchorAt(k, pc)))]
           found == {k \in 0 .. 2 : best[k] # {} /\ \A r \in best[k] : RunLength(r) >= MinRun}
           alone == {k \in found : Cardinality(best[k]) = 1}
           first == CHOOSE k \in alone : \A j \in alone : k <= j
<1>1. alone # {} /\ s.run = CHOOSE r \in best[first] : TRUE
  BY DEF Search
<1>2. alone \in SUBSET Nat
  OBVIOUS
<1>3. first \in alone
  <2>1. \E k \in alone : \A j \in alone : k <= j
    <3> HIDE DEF alone
    <3> QED BY <1>1, <1>2, LeastNat
  <2> QED BY <2>1
<1>4. first \in 0 .. 2 /\ best[first] # {}
  BY <1>3
<1>5. s.run \in Runs(m, v, pc, AnchorAt(first, pc))
  BY <1>1, <1>4 DEF Longest
<1>6. AnchorAt(first, pc) \in Int
  <2> HIDE DEF first
  <2> QED BY <1>4, CodeViewsAssumption DEF AnchorAt, Cell
<1> QED BY <1>5, <1>6, RunsRight

\* A fresh binding is its image in every granule it holds for clean.
LEMMA BoundRight ==
    ASSUME NEW m, NEW v, NEW pc \in Cell, NEW r, GoodRun(m, v, r, pc), NEW o \in Nat,
           NEW b, b = Bound(r, o)
    PROVE  b \in Bindings /\ b.order = o /\ Active(b) /\ Clean(m, v, b) /\ pc \in Extent(b)
<1>1. /\ b.image = r.image /\ b.base = r.base /\ b.dirty = Granule \ Whole(r)
      /\ b \in Bindings /\ b.order = o
  BY DEF Bound, Bindings, GoodRun
<1>2. Active(b)
  BY <1>1, ImagesAssumption DEF Active, GoodRun, ImageIds
<1>3. pc \in Extent(b)
  BY <1>1 DEF Extent, GoodRun, Matches
<1>4. ASSUME NEW g \in Whole(r), NEW c \in Extent(b), GranuleOf(c) = g
      PROVE  LiveByte(m, v, c) = ImageByte(b, c)
  <2>1. c \in Nat /\ GranuleCells \in Nat \ {0} /\ r.lo \in Int /\ r.hi \in Int
    BY CodeViewsAssumption DEF Extent, Cell, GoodRun
  <2>2. g * GranuleCells <= c /\ c <= (g + 1) * GranuleCells - 1
    <3>1. g = c \div GranuleCells
      BY <1>4 DEF GranuleOf
    <3> QED BY <2>1, <3>1
  <2>3. g * GranuleCells >= r.lo /\ (g + 1) * GranuleCells - 1 <= r.hi
    BY DEF Whole
  <2>4. c \in r.lo .. r.hi
    <3>1. g \in Int /\ g * GranuleCells \in Int /\ (g + 1) * GranuleCells \in Int
      BY <2>1, <1>4 DEF Whole, Granule
    <3> QED BY <2>1, <2>2, <2>3, <3>1
  <2>5. Matches(m, v, r.image, r.base, c)
    BY <2>4 DEF GoodRun
  <2> QED BY <1>1, <2>5 DEF Matches, ImageByte
<1>5. Clean(m, v, b)
  BY <1>1, <1>4 DEF Clean, EqualsImage
<1> QED BY <1>1, <1>2, <1>3, <1>5

-----------------------------------------------------------------------------
(* Resolution.                                                               *)

\* The binding that is chosen covers pc and is its image there.
LEMMA FittingRight ==
    ASSUME NEW m, NEW v, NEW bs, NEW o \in Nat, Sane(m, v, bs, o), NEW pc,
           NEW f, f = Fitting(m, v, bs, pc), f # 0
    PROVE  f \in Slots /\ Active(bs[f]) /\ Fits(m, v, bs[f], pc)
<1> DEFINE fit == {k \in Covering(bs, pc) : IsImage(m, v, bs[k], pc)}
           S == {o - bs[k].order : k \in fit}
<1>1. fit # {} /\ f = CHOOSE k \in fit : \A j \in fit : bs[j].order <= bs[k].order
  BY DEF Fitting
<1>2. \A k \in fit : bs[k] \in Bindings /\ bs[k].order \in Nat /\ bs[k].order <= o
  BY DEF Sane, Covering, Bindings
<1>3. S \in SUBSET Nat /\ S # {}
  <2> HIDE DEF fit
  <2> QED BY <1>1, <1>2
<1>4. PICK x \in S : \A y \in S : x <= y
  <2> HIDE DEF S
  <2> QED BY <1>3, LeastNat
<1>5. \E k \in fit : \A j \in fit : bs[j].order <= bs[k].order
  <2> HIDE DEF fit
  <2>1. PICK k \in fit : x = o - bs[k].order
    BY <1>4
  <2>2. ASSUME NEW j \in fit PROVE bs[j].order <= bs[k].order
    <3>1. x <= o - bs[j].order
      BY <1>4
    <3> QED BY <1>2, <2>1, <3>1
  <2> QED BY <2>2
<1>6. f \in fit
  BY <1>1, <1>5
<1>7. f \in Slots /\ Active(bs[f]) /\ pc \in Extent(bs[f]) /\ IsImage(m, v, bs[f], pc)
  BY <1>6 DEF Covering
<1> QED BY <1>7, IsImageRight DEF Sane, Fits

\* Trying the bindings keeps them what they are.
LEMMA TriedRight ==
    ASSUME NEW m, NEW v, NEW bs, NEW o, Sane(m, v, bs, o), NEW pc,
           NEW ts, ts = Tried(m, v, bs, pc)
    PROVE  /\ Sane(m, v, ts, o)
           /\ \A k \in Slots : ts[k].image = bs[k].image /\ ts[k].base = bs[k].base
<1>1. ASSUME NEW k \in Slots
      PROVE  /\ ts[k] \in Bindings /\ ts[k].order <= o /\ Clean(m, v, ts[k])
             /\ ts[k].image = bs[k].image /\ ts[k].base = bs[k].base
  <2>1. ts[k] = bs[k] \/ ts[k] = Compared(m, v, bs[k], pc)
    BY DEF Tried
  <2>2. bs[k] \in Bindings /\ bs[k].order <= o /\ Clean(m, v, bs[k])
    BY DEF Sane
  <2> QED BY <2>1, <2>2, ComparedRight
<1>2. DOMAIN ts = Slots /\ ts = [k \in Slots |-> ts[k]]
  BY DEF Tried
<1> QED BY <1>1, <1>2 DEF Sane

\* A slot for a new binding.
LEMMA SlotRight ==
    ASSUME NEW m, NEW v, NEW bs, NEW o, Sane(m, v, bs, o), NEW r
    PROVE  SlotFor(bs, r) \in Slots
<1> DEFINE same == {k \in Slots : Active(bs[k]) /\ bs[k].image = r.image /\ bs[k].base = r.base}
           free == {k \in Slots : ~Active(bs[k])}
           S == {bs[k].order : k \in Slots}
<1>1. CASE same # {}
  <2>1. SlotFor(bs, r) = CHOOSE k \in same : TRUE
    BY <1>1 DEF SlotFor
  <2> QED BY <1>1, <2>1
<1>2. CASE same = {} /\ free # {}
  <2>1. SlotFor(bs, r) = CHOOSE k \in free : \A j \in free : k <= j
    BY <1>2 DEF SlotFor
  <2>2. free \in SUBSET Nat
    BY CodeViewsAssumption DEF Slots
  <2>3. \E k \in free : \A j \in free : k <= j
    <3> HIDE DEF free
    <3> QED BY <1>2, <2>2, LeastNat
  <2> QED BY <2>1, <2>3
<1>3. CASE same = {} /\ free = {}
  <2>1. SlotFor(bs, r) = CHOOSE k \in Slots : \A j \in Slots : bs[k].order <= bs[j].order
    BY <1>3 DEF SlotFor
  <2>2. S \in SUBSET Nat
    BY DEF Sane, Bindings
  <2>3. 1 \in Slots
    BY CodeViewsAssumption DEF Slots
  <2>4. PICK x \in S : \A y \in S : x <= y
    <3>1. S # {}
      BY <2>3
    <3> HIDE DEF S
    <3> QED BY <2>2, <3>1, LeastNat
  <2>5. \E k \in Slots : \A j \in Slots : bs[k].order <= bs[j].order
    BY <2>4
  <2> QED BY <2>1, <2>5
<1> QED BY <1>1, <1>2, <1>3

\* What a resolution promises: sane bindings, and of the slot that serves pc that it
\* is its image there.
Resolution(m, v, x, pc) ==
    /\ x.order \in Nat /\ Sane(m, v, x.binding, x.order)
    /\ x.by # 0 => x.by \in Slots /\ Fits(m, v, x.binding[x.by], pc)

\* Serving a binding that fits changes only when it was used.
LEMMA ServedRight ==
    ASSUME NEW m, NEW v, NEW bs, NEW o \in Nat, Sane(m, v, bs, o), NEW k \in Slots, NEW pc,
           Fits(m, v, bs[k], pc)
    PROVE  Resolution(m, v, Served(bs, k, o, pc), pc)
<1>1. CASE HasBody(bs[k], pc)
  <2> DEFINE x == Served(bs, k, o, pc)
             cs == [bs EXCEPT ![k].order = o + 1]
  <2>1. x.binding = cs /\ x.order = o + 1 /\ x.by = k
    BY <1>1 DEF Served
  <2>2. ASSUME NEW j \in Slots
        PROVE  /\ cs[j] \in Bindings /\ cs[j].order <= o + 1
               /\ cs[j].image = bs[j].image /\ cs[j].base = bs[j].base /\ cs[j].dirty = bs[j].dirty
    <3>1. bs[j] \in Bindings /\ bs[j].order <= o /\ bs \in [Slots -> Bindings]
      BY DEF Sane
    <3>2. CASE j = k
      <4>1. cs[j] = [bs[j] EXCEPT !.order = o + 1]
        BY <3>1, <3>2
      <4> QED BY <3>1, <4>1 DEF Bindings
    <3>3. CASE j # k
      <4>1. cs[j] = bs[j]
        BY <3>1, <3>3
      <4> QED BY <3>1, <4>1 DEF Bindings
    <3> QED BY <3>2, <3>3
  <2>3. cs = [j \in Slots |-> cs[j]]
    BY DEF Sane
  <2> HIDE DEF cs
  <2>4. \A j \in Slots : Clean(m, v, cs[j])
    BY <2>2, SameImage DEF Sane
  <2>5. Fits(m, v, cs[k], pc)
    BY <2>2, SameImage
  <2>6. Sane(m, v, cs, o + 1)
    BY <2>2, <2>3, <2>4 DEF Sane
  <2> HIDE DEF x
  <2>7. Resolution(m, v, x, pc)
    BY <2>1, <2>5, <2>6 DEF Resolution
  <2> QED BY <2>7 DEF x
<1>2. CASE ~HasBody(bs[k], pc)
  BY <1>2 DEF Served, Resolution
<1> QED BY <1>1, <1>2

\* A binding just installed serves only after its own comparison.
LEMMA InstalledRight ==
    ASSUME NEW m, NEW v, NEW bs, order \in Nat, Sane(m, v, bs, order), NEW k \in Slots,
           NEW pc \in Cell, NEW r, GoodRun(m, v, r, pc)
    PROVE  Resolution(m, v, Installed(m, v, bs, k, Bound(r, order + 1), pc), pc)
<1> DEFINE b == Bound(r, order + 1)
           c == Compared(m, v, b, pc)
           cs == [bs EXCEPT ![k] = c]
<1>1. b \in Bindings /\ b.order = order + 1 /\ Active(b) /\ Clean(m, v, b) /\ pc \in Extent(b)
  BY BoundRight
<1>2. c \in Bindings /\ c.order = order + 1 /\ c.image = b.image /\ c.base = b.base /\ Clean(m, v, c)
  BY <1>1, ComparedRight
<1>3. /\ cs \in [Slots -> Bindings] /\ cs[k] = c
      /\ \A j \in Slots : j # k => cs[j] = bs[j]
  <2> HIDE DEF c
  <2> QED BY <1>2 DEF Sane
<1>4. Sane(m, v, cs, order + 1)
  <2> HIDE DEF c, cs
  <2>1. ASSUME NEW j \in Slots PROVE cs[j].order <= order + 1 /\ Clean(m, v, cs[j])
    <3>1. CASE j = k
      BY <1>2, <1>3, <3>1
    <3>2. CASE j # k
      <4>1. bs[j].order \in Nat /\ bs[j].order <= order /\ Clean(m, v, bs[j])
        BY DEF Sane, Bindings
      <4> QED BY <1>3, <3>2, <4>1
    <3> QED BY <3>1, <3>2
  <2> QED BY <1>3, <2>1 DEF Sane
<1>5. CASE IsImage(m, v, b, pc)
  <2>1. Fits(m, v, b, pc)
    BY <1>1, <1>5, IsImageRight DEF Fits
  <2>2. Fits(m, v, c, pc)
    BY <1>2, <2>1, SameImage
  <2>3. Fits(m, v, cs[k], pc)
    BY <1>3, <2>2
  <2>4. Installed(m, v, bs, k, b, pc) = Served(cs, k, order + 1, pc)
    BY <1>5 DEF Installed
  <2> HIDE DEF b, c, cs
  <2>5. Resolution(m, v, Served(cs, k, order + 1, pc), pc)
    BY <1>4, <2>3, ServedRight
  <2> QED BY <2>4, <2>5 DEF b
<1>6. CASE ~IsImage(m, v, b, pc)
  <2>1. Installed(m, v, bs, k, b, pc)
          = [binding |-> cs, order |-> order + 1, by |-> 0, why |-> "instruction_differs"]
    BY <1>6 DEF Installed
  <2> HIDE DEF b, c, cs
  <2>2. Resolution(m, v, Installed(m, v, bs, k, b, pc), pc)
    BY <1>4, <2>1 DEF Resolution
  <2> QED BY <2>2 DEF b
<1> QED BY <1>5, <1>6

\* scd_dyn_resolve keeps its promise whichever way it goes.
LEMMA ResolutionsRight ==
    ASSUME NEW m, NEW v, NEW bs, order \in Nat, Sane(m, v, bs, order), NEW pc \in Cell,
           NEW x \in Resolutions(m, v, bs, pc)
    PROVE  Resolution(m, v, x, pc)
<1> DEFINE ts == Tried(m, v, bs, pc)
           f == Fitting(m, v, bs, pc)
           s == Search(m, v, pc)
<1>1. x = Resolved(m, v, ts, f, s, pc)
  BY DEF Resolutions
<1>2. /\ Sane(m, v, ts, order)
      /\ \A k \in Slots : ts[k].image = bs[k].image /\ ts[k].base = bs[k].base
  BY TriedRight
<1>3. f # 0 => f \in Slots /\ Fits(m, v, bs[f], pc)
  BY FittingRight
<1>4. s.why = "none" => GoodRun(m, v, s.run, pc)
  BY SearchRight
<1> HIDE DEF ts, f, s
<1>5. CASE f # 0
  <2>1. x = Served(ts, f, order, pc)
    BY <1>1, <1>5 DEF Resolved
  <2>2. Fits(m, v, ts[f], pc)
    BY <1>2, <1>3, <1>5, SameImage
  <2> QED BY <1>2, <1>3, <1>5, <2>1, <2>2, ServedRight
<1>6. CASE f = 0 /\ s.why # "none"
  <2>1. x = [binding |-> ts, order |-> order, by |-> 0, why |-> s.why]
    BY <1>1, <1>6 DEF Resolved
  <2> QED BY <1>2, <2>1 DEF Resolution
<1>7. CASE f = 0 /\ s.why = "none"
  <2>1. x = Installed(m, v, ts, SlotFor(ts, s.run), Bound(s.run, order + 1), pc)
    BY <1>1, <1>7 DEF Resolved
  <2>2. SlotFor(ts, s.run) \in Slots
    BY <1>2, SlotRight
  <2> QED BY <1>2, <1>4, <1>7, <2>1, <2>2, InstalledRight
<1> QED BY <1>5, <1>6, <1>7

-----------------------------------------------------------------------------
(* The steps, for the dynamic images.                                        *)

DynamicInv ==
    /\ order \in Nat
    /\ Sane(mem, view, binding, order)
    /\ program = "overlays" => binding = [k \in Slots |-> NoBinding]
    /\ program = "dynamic" /\ ran # NoRun => ran.by \in Slots
    /\ ServesImage

\* Slots that are all free know nothing.
LEMMA NoBindingIsSane ==
    ASSUME NEW m, NEW v, NEW o \in Nat
    PROVE  Sane(m, v, [k \in Slots |-> NoBinding], o)
<1>1. NoBinding \in Bindings /\ NoBinding.order <= o /\ ~Active(NoBinding)
  BY DEF NoBinding, Bindings, Active
<1> QED BY <1>1 DEF Sane, Clean

\* A store that every binding is told of leaves them sane.
LEMMA StoreSane ==
    ASSUME NEW m \in Memory, NEW v \in Views, NEW bank \in Banks, NEW cell \in Cell,
           NEW value \in Values, NEW bs, NEW o, Sane(m, v, bs, o)
    PROVE  Sane([m EXCEPT ![bank][cell] = value], v,
                [k \in Slots |-> DynNoteWrite(bs[k], v, bank, cell)], o)
<1> DEFINE n == [m EXCEPT ![bank][cell] = value]
           cs == [k \in Slots |-> DynNoteWrite(bs[k], v, bank, cell)]
<1>1. ASSUME NEW k \in Slots PROVE cs[k] \in Bindings /\ cs[k].order <= o /\ Clean(n, v, cs[k])
  <2>1. bs[k] \in Bindings /\ bs[k].order <= o /\ Clean(m, v, bs[k])
    BY DEF Sane
  <2>2. cs[k] = DynNoteWrite(bs[k], v, bank, cell)
    OBVIOUS
  <2> HIDE DEF cs
  <2> QED BY <2>1, <2>2, NoteWriteRight
<1>2. cs = [k \in Slots |-> cs[k]]
  OBVIOUS
<1> HIDE DEF n, cs
<1>3. Sane(n, v, cs, o)
  BY <1>1, <1>2 DEF Sane
<1> QED BY <1>3 DEF n, cs

\* So does what the CDC owed, when it lands.
LEMMA LandedSane ==
    ASSUME Types, DynamicInv
    PROVE  Sane(Landed, view, LandedBinding, order)
<1>1. CASE owed = NoStore
  BY <1>1 DEF Landed, LandedBinding, DynamicInv
<1>2. CASE owed # NoStore /\ program = "dynamic"
  <2>1. owed.bank \in Banks /\ owed.cell \in Cell /\ owed.value \in Values
    BY <1>2 DEF Types
  <2>2. /\ Landed = [mem EXCEPT ![owed.bank][owed.cell] = owed.value]
        /\ LandedBinding = [k \in Slots |-> DynNoteWrite(binding[k], view, owed.bank, owed.cell)]
    BY <1>2 DEF Landed, LandedBinding
  <2>3. mem \in Memory /\ view \in Views /\ Sane(mem, view, binding, order)
    BY DEF Types, DynamicInv
  <2>4. Sane([mem EXCEPT ![owed.bank][owed.cell] = owed.value], view,
             [k \in Slots |-> DynNoteWrite(binding[k], view, owed.bank, owed.cell)], order)
    BY <2>1, <2>3, StoreSane
  <2> QED BY <2>2, <2>4
<1>3. CASE owed # NoStore /\ program # "dynamic"
  <2>1. LandedBinding = [k \in Slots |-> NoBinding]
    BY <1>3 DEF LandedBinding, DynamicInv, Types
  <2> QED BY <2>1, NoBindingIsSane DEF DynamicInv
<1> QED BY <1>1, <1>2, <1>3

\* A binding told of a view change holds nothing for clean.
LEMMA ViewChangeSane ==
    ASSUME NEW m, NEW v, NEW n, NEW w, NEW bs, NEW o, Sane(m, v, bs, o)
    PROVE  Sane(n, w, [k \in Slots |-> DynNoteViewChange(bs[k])], o)
<1> DEFINE cs == [k \in Slots |-> DynNoteViewChange(bs[k])]
<1>1. ASSUME NEW k \in Slots PROVE cs[k] \in Bindings /\ cs[k].order <= o /\ Clean(n, w, cs[k])
  <2>1. bs[k] \in Bindings /\ bs[k].order <= o
    BY DEF Sane
  <2>2. CASE Active(bs[k])
    <3>1. cs[k] = [bs[k] EXCEPT !.dirty = Granule, !.mutated = {}]
      BY <2>2 DEF DynNoteViewChange
    <3>2. cs[k] \in Bindings /\ cs[k].order <= o /\ cs[k].dirty = Granule
      BY <2>1, <3>1 DEF Bindings
    <3> HIDE DEF cs
    <3> QED BY <3>2 DEF Clean
  <2>3. CASE ~Active(bs[k])
    BY <2>1, <2>3 DEF DynNoteViewChange, Clean
  <2> QED BY <2>2, <2>3
<1>2. cs = [k \in Slots |-> cs[k]]
  OBVIOUS
<1> HIDE DEF cs
<1>3. Sane(n, w, cs, o)
  BY <1>1, <1>2 DEF Sane
<1> QED BY <1>3 DEF cs

\* A step that runs nothing has only to keep the bindings sane.
LEMMA DynamicFrom ==
    ASSUME order' \in Nat, Sane(mem, view, binding, order)', ran' = NoRun,
           program' = "overlays" => binding' = [k \in Slots |-> NoBinding]
    PROVE  DynamicInv'
BY DEF DynamicInv, ServesImage

\* Stores.
LEMMA StoreDynamic ==
    ASSUME Types, DynamicInv, NEW bank \in Banks, NEW cell \in Cell, NEW value \in Values,
           Store(bank, cell, value) \/ DmaStores(bank, cell, value)
    PROVE  DynamicInv'
<1>1. CASE Store(bank, cell, value)
  <2>1. /\ mem' = [mem EXCEPT ![bank][cell] = value]
        /\ UNCHANGED <<program, view, order>> /\ ran' = NoRun
        /\ binding' = IF program = "dynamic"
                      THEN [k \in Slots |-> DynNoteWrite(binding[k], view, bank, cell)] ELSE binding
    BY <1>1 DEF Store, Stored, NothingRan
  <2>2. Sane(mem, view, binding, order)'
    <3>1. CASE program = "dynamic"
      <4>1. mem \in Memory /\ view \in Views /\ Sane(mem, view, binding, order)
        BY DEF Types, DynamicInv
      <4>2. Sane([mem EXCEPT ![bank][cell] = value], view,
                 [k \in Slots |-> DynNoteWrite(binding[k], view, bank, cell)], order)
        BY <4>1, StoreSane
      <4> QED BY <2>1, <3>1, <4>2
    <3>2. CASE program # "dynamic"
      BY <2>1, <3>2, NoBindingIsSane DEF Types, DynamicInv
    <3> QED BY <3>1, <3>2
  <2> QED BY <2>1, <2>2, DynamicFrom DEF DynamicInv
<1>2. CASE DmaStores(bank, cell, value)
  <2>1. UNCHANGED <<program, mem, view, binding, order>> /\ ran' = NoRun
    BY <1>2 DEF DmaStores, NothingRan
  <2> QED BY <2>1, DynamicFrom DEF DynamicInv, Sane
<1> QED BY <1>1, <1>2

\* Looking at the CDC.
LEMMA ObserveDynamic ==
    ASSUME Types, DynamicInv, Observe
    PROVE  DynamicInv'
<1>1. /\ mem' = Landed /\ binding' = LandedBinding
      /\ UNCHANGED <<program, view, order>> /\ ran' = NoRun
  BY DEF Observe, NothingRan
<1>2. Sane(mem, view, binding, order)'
  BY <1>1, LandedSane
<1>3. program = "overlays" => LandedBinding = binding
  BY DEF LandedBinding
<1> QED BY <1>1, <1>2, <1>3, DynamicFrom DEF DynamicInv

\* View changes.
LEMMA ViewChangeDynamic ==
    ASSUME Types, DynamicInv, NEW v \in Views, ViewChange(v)
    PROVE  DynamicInv'
<1>1. /\ view' = v /\ UNCHANGED <<program, order>> /\ ran' = NoRun
      /\ binding' = IF program = "dynamic"
                    THEN [k \in Slots |-> DynNoteViewChange(LandedBinding[k])] ELSE binding
  BY DEF ViewChange, NothingRan
<1>2. Sane(mem', view', binding', order)
  <2>1. CASE program = "dynamic"
    BY <1>1, <2>1, LandedSane, ViewChangeSane
  <2>2. CASE program # "dynamic"
    BY <1>1, <2>2, NoBindingIsSane DEF Types, DynamicInv
  <2> QED BY <2>1, <2>2
<1> QED BY <1>1, <1>2, DynamicFrom DEF DynamicInv

\* Delivered blocks are looked at by a search only.
LEMMA DeliverDynamic ==
    ASSUME DynamicInv,
           \/ \E i \in ImageIds : \E b \in 0 .. (Length(i) - 1) \div BlockCells : Deliver(i, b)
           \/ LedgerOverflows
    PROVE  DynamicInv'
<1>1. UNCHANGED <<program, mem, view, binding, order>> /\ ran' = NoRun
  BY DEF Deliver, LedgerOverflows, NothingRan
<1> QED BY <1>1, DynamicFrom DEF DynamicInv, Sane

\* A program of overlays has no bindings.
LEMMA OverlayDispatchDynamic ==
    ASSUME Types, DynamicInv, NEW pc \in Cell, OverlayDispatch(pc)
    PROVE  DynamicInv'
<1>1. program = "overlays" /\ UNCHANGED <<program, binding, order>>
  BY DEF OverlayDispatch
<1>2. binding' = [k \in Slots |-> NoBinding] /\ order' \in Nat
  BY <1>1 DEF DynamicInv
<1>3. Sane(mem, view, binding, order)'
  BY <1>2, NoBindingIsSane
<1> QED BY <1>1, <1>2, <1>3 DEF DynamicInv, ServesImage

\* A dispatch and a question of a computed jump resolve against what has landed.
LEMMA ResolveDynamic ==
    ASSUME Types, DynamicInv, NEW pc \in Cell, DynamicDispatch(pc) \/ DynamicKnown(pc)
    PROVE  DynamicInv'
<1>1. PICK x \in Resolutions(Landed, view, LandedBinding, pc) :
        /\ binding' = x.binding /\ order' = x.order
        /\ ran' = NoRun \/ (x.by # 0 /\ ran' = [by |-> x.by, pc |-> pc])
  BY DEF DynamicDispatch, DynamicKnown
<1>2. mem' = Landed /\ owed' = NoStore /\ UNCHANGED <<program, view>> /\ program = "dynamic"
  BY DEF DynamicDispatch, DynamicKnown
<1>3. Resolution(Landed, view, x, pc)
  BY LandedSane, ResolutionsRight DEF DynamicInv
<1>4. order' \in Nat /\ Sane(mem, view, binding, order)'
  BY <1>1, <1>2, <1>3 DEF Resolution
<1>5. Landed' = mem'
  BY <1>2 DEF Landed
<1>6. CASE ran' = NoRun
  BY <1>2, <1>4, <1>6, DynamicFrom
<1>7. CASE x.by # 0 /\ ran' = [by |-> x.by, pc |-> pc]
  <2>1. ran'.by \in Slots /\ ran'.pc = pc /\ Fits(mem', view', binding'[ran'.by], pc)
    BY <1>1, <1>2, <1>3, <1>7 DEF Resolution
  <2>2. ServesImage'
    BY <1>5, <2>1 DEF ServesImage, Fits
  <2> QED BY <1>2, <1>4, <2>1, <2>2 DEF DynamicInv
<1> QED BY <1>1, <1>6, <1>7

\* The power-on state.
LEMMA DynamicInit == Init => DynamicInv
<1> SUFFICES ASSUME Init PROVE DynamicInv
  OBVIOUS
<1>1. binding = [k \in Slots |-> NoBinding] /\ order \in Nat /\ ran = NoRun
  BY DEF Init
<1> QED BY <1>1, NoBindingIsSane DEF DynamicInv, ServesImage

\* Every step keeps what is said of the dynamic images.
LEMMA DynamicNext == Types /\ DynamicInv /\ [Next]_vars => DynamicInv'
<1> SUFFICES ASSUME Types, DynamicInv, [Next]_vars PROVE DynamicInv'
  OBVIOUS
<1>1. CASE UNCHANGED vars
  BY <1>1 DEF vars, DynamicInv, Sane, ServesImage, Landed
<1>2. CASE \E bank \in Banks, cell \in Cell, value \in Values :
              Store(bank, cell, value) \/ DmaStores(bank, cell, value)
  BY <1>2, StoreDynamic
<1>3. CASE Observe
  BY <1>3, ObserveDynamic
<1>4. CASE \E v \in Banks \cup {None} : ViewChange(v)
  BY <1>4, ViewChangeDynamic DEF Views
<1>5. CASE \E pc \in Cell : OverlayDispatch(pc)
  BY <1>5, OverlayDispatchDynamic
<1>6. CASE \/ \E i \in ImageIds : \E b \in 0 .. (Length(i) - 1) \div BlockCells : Deliver(i, b)
           \/ LedgerOverflows
  BY <1>6, DeliverDynamic
<1>7. CASE \E pc \in Cell : DynamicDispatch(pc) \/ DynamicKnown(pc)
  BY <1>7, ResolveDynamic
<1> QED BY <1>1, <1>2, <1>3, <1>4, <1>5, <1>6, <1>7 DEF Next

\* Both halves hold of every state.
LEMMA CodeViewsInvariant == Spec => [](OverlayInv /\ DynamicInv)
<1>1. OverlayInv => Types
  BY DEF OverlayInv
<1> QED BY <1>1, OverlayInit, OverlayNext, DynamicInit, DynamicNext, PTL DEF Spec

\* A granule a binding holds for clean equals its image in every byte the processor
\* sees, for any images, sizes and order of stores, view changes and searches: a new
\* binding holds only whole granules of its run for clean, and every cell of the run
\* was compared.
THEOREM CleanGranules == Spec => []CleanIsImage
<1>1. DynamicInv => CleanIsImage
  BY DEF DynamicInv, Sane, Clean, CleanIsImage
<1> QED BY <1>1, CodeViewsInvariant, PTL

\* A body of a dynamic image runs only where the bytes of the instruction are the
\* image's, what the CDC owed included.
THEOREM BodiesRunTheirImage == Spec => []ServesImage
<1>1. DynamicInv => ServesImage
  BY DEF DynamicInv
<1> QED BY <1>1, CodeViewsInvariant, PTL

-----------------------------------------------------------------------------
(* Module SubControl: the reset control and the runnable epoch.              *)

\* The power-on state satisfies the inductive invariant.
LEMMA ControlPowerOn == PowerOn => IInv
  BY NoImageAssumption
     DEF PowerOn, IInv, TypeOK, GrantIsReal, RunsVerifiedEntry, ResetLeavesEntry,
         Profiles, StopClasses, NotStopped

\* A write of SRES and SBRQ keeps the inductive invariant.
LEMMA ControlWrite ==
  ASSUME IInv, NEW vSres \in BOOLEAN, NEW vSbrq \in BOOLEAN, ResetControl(vSres, vSbrq)
  PROVE  IInv'
<1> DEFINE rise == vSres /\ ~sres
<1>1. /\ stopped' = (stopped /\ ~rise)
      /\ sub_wait' = (sub_wait /\ ~rise)
      /\ sub_halted' = (vSbrq \/ ~vSres)
      /\ sres' = vSres
      /\ sbrq' = ((vSbrq \/ ~vSres) /\ ~stopped')
      /\ prg_window' = IF Hold' # Hold THEN sbrq' ELSE prg_window
      /\ profile' = profile /\ prg_ram' = prg_ram
      /\ stop_class = "NONE"
  BY DEF ResetControl, ReadbackSbrq, WindowFollows, NotStopped
<1>2. CASE profile = "synthetic"
  <2>1. /\ entry' = IF rise THEN prg_ram ELSE entry
        /\ sub_pristine' = sub_pristine /\ stop_class' = stop_class
    BY <1>2 DEF ResetControl
  <2>2. TypeOK'
    BY <1>1, <1>2, <2>1 DEF IInv, TypeOK
  <2>3. GrantIsReal'
    BY <1>1 DEF IInv, TypeOK, GrantIsReal, Hold
  <2>4. RunsVerifiedEntry' /\ ResetLeavesEntry'
    BY <1>1, <1>2, <2>1, NoImageAssumption
       DEF IInv, TypeOK, RunsVerifiedEntry, ResetLeavesEntry, NotStopped
  <2> QED BY <2>2, <2>3, <2>4 DEF IInv
<1>3. CASE profile # "synthetic" /\ EpochNow(rise) /\ prg_ram \in Admitted
  <2>1. sub_pristine' = FALSE /\ entry' = prg_ram /\ stop_class' = stop_class
    BY <1>3 DEF ResetControl, RunnableEpoch
  <2>2. TypeOK'
    BY <1>1, <1>3, <2>1 DEF IInv, TypeOK
  <2>3. GrantIsReal'
    BY <1>1 DEF IInv, TypeOK, GrantIsReal, Hold
  <2>4. RunsVerifiedEntry' /\ ResetLeavesEntry'
    BY <1>1, <1>3, <2>1 DEF RunsVerifiedEntry, ResetLeavesEntry
  <2> QED BY <2>2, <2>3, <2>4 DEF IInv
<1>4. CASE profile # "synthetic" /\ EpochNow(rise) /\ prg_ram \notin Admitted
  <2>1. /\ sub_pristine' = FALSE /\ entry' = entry
        /\ stop_class' \in StopClasses \ {"NONE"}
    BY <1>4 DEF ResetControl, RunnableEpoch, StopClasses
  <2>2. TypeOK'
    BY <1>1, <1>4, <2>1 DEF IInv, TypeOK
  <2>3. GrantIsReal'
    BY <1>1 DEF IInv, TypeOK, GrantIsReal, Hold
  <2>4. RunsVerifiedEntry' /\ ResetLeavesEntry'
    BY <2>1 DEF RunsVerifiedEntry, ResetLeavesEntry, NotStopped
  <2> QED BY <2>2, <2>3, <2>4 DEF IInv
<1>5. CASE profile # "synthetic" /\ ~EpochNow(rise)
  <2>1. sub_pristine' = (rise \/ sub_pristine) /\ entry' = entry /\ stop_class' = stop_class
    BY <1>5 DEF ResetControl
  <2>2. TypeOK'
    BY <1>1, <1>5, <2>1 DEF IInv, TypeOK
  <2>3. GrantIsReal'
    BY <1>1 DEF IInv, TypeOK, GrantIsReal, Hold
  <2>4. ~sub_halted' => ~rise /\ ~sub_pristine
    BY <1>5 DEF EpochNow
  <2>5. RunsVerifiedEntry' /\ ResetLeavesEntry'
    BY <1>1, <1>5, <2>1, <2>4 DEF IInv, TypeOK, RunsVerifiedEntry, ResetLeavesEntry, NotStopped
  <2> QED BY <2>2, <2>3, <2>5 DEF IInv
<1> QED BY <1>2, <1>3, <1>4, <1>5

\* Everything else the two processors do keeps the inductive invariant.
LEMMA ControlRest ==
  ASSUME IInv,
         \/ MainWritesPrg \/ MainHandsOver \/ SubInstruction
         \/ SubEntersStop \/ SubWaits \/ SubAcceptsInterrupt
  PROVE  IInv'
<1>1. TypeOK'
  BY DEF IInv, TypeOK, control, MainWritesPrg, MainHandsOver, SubInstruction,
         SubEntersStop, SubWaits, SubAcceptsInterrupt
<1>2. GrantIsReal'
  <2>1. CASE MainWritesPrg \/ MainHandsOver \/ SubInstruction \/ SubWaits
    BY <2>1 DEF IInv, GrantIsReal, control, MainWritesPrg, MainHandsOver,
                SubInstruction, SubWaits
  <2>2. CASE SubEntersStop \/ SubAcceptsInterrupt
    BY <2>2 DEF IInv, GrantIsReal, control, SubEntersStop, SubAcceptsInterrupt,
                SubRuns, SubHeld
  <2> QED BY <2>1, <2>2
<1>3. RunsVerifiedEntry' /\ ResetLeavesEntry'
  BY DEF IInv, RunsVerifiedEntry, ResetLeavesEntry, NotStopped, control, MainWritesPrg,
         MainHandsOver, SubInstruction, SubEntersStop, SubWaits, SubAcceptsInterrupt
<1> QED BY <1>1, <1>2, <1>3 DEF IInv

\* Every step keeps the inductive invariant.
LEMMA ControlStep == IInv /\ [ControlNext]_control_vars => IInv'
<1> SUFFICES ASSUME IInv, [ControlNext]_control_vars PROVE IInv'
  OBVIOUS
<1>1. CASE UNCHANGED control_vars
  BY <1>1 DEF control_vars, control, IInv, TypeOK, GrantIsReal, RunsVerifiedEntry, ResetLeavesEntry, NotStopped
<1>2. CASE \E vSres, vSbrq \in BOOLEAN : ResetControl(vSres, vSbrq)
  BY <1>2, ControlWrite
<1>3. CASE \/ MainWritesPrg \/ MainHandsOver \/ SubInstruction
           \/ SubEntersStop \/ SubWaits \/ SubAcceptsInterrupt
  BY <1>3, ControlRest
<1> QED BY <1>1, <1>2, <1>3 DEF ControlNext

\* The reset control is safe for any images: the state has its types, PRG RAM has
\* one user at a time, what SBRQ reads is the grant main has, and a sub that can
\* run took its vectors from an admitted image.
THEOREM SubControlSafe ==
  ControlSpec => [](TypeOK /\ WindowIsExclusive /\ GrantIsReal /\ RunsVerifiedEntry)
<1>1. IInv => TypeOK /\ WindowIsExclusive /\ GrantIsReal /\ RunsVerifiedEntry
  BY DEF IInv, TypeOK, WindowIsExclusive, GrantIsReal
<1> QED BY <1>1, ControlPowerOn, ControlStep, PTL DEF ControlSpec

\* A sub that can run took its vectors from an admitted image (scd_sub_runnable_epoch).
THEOREM SubRunsAdmitted == ControlSpec => []RunsVerifiedEntry
  BY SubControlSafe, PTL

\* A step that takes new reset vectors in the BIOS-image profile takes them from
\* the image in PRG RAM, with the window closed.
LEMMA VectorStep ==
  ASSUME IInv, IInv', [ControlNext]_control_vars, profile # "synthetic", entry' # entry
  PROVE  ~prg_window' /\ entry' = prg_ram'
<1>1. PICK vSres \in BOOLEAN, vSbrq \in BOOLEAN : ResetControl(vSres, vSbrq)
  BY DEF ControlNext, control_vars, MainWritesPrg, MainHandsOver, SubInstruction, SubEntersStop,
         SubWaits, SubAcceptsInterrupt
<1>2. EpochNow(vSres /\ ~sres) /\ entry' = prg_ram
  BY <1>1 DEF ResetControl, RunnableEpoch
<1>3. prg_ram' = prg_ram /\ ~sub_halted'
  BY <1>1, <1>2 DEF ResetControl, EpochNow
<1>4. prg_window' = FALSE
  BY <1>3 DEF IInv, GrantIsReal, TypeOK
<1> QED BY <1>2, <1>3, <1>4

\* In the BIOS-image profile no reset vector is fetched while main could change
\* PRG RAM (VectorsFromOwnBus), for any images.
THEOREM VectorsAreStable == ControlSpec => VectorsFromOwnBus
<1>1. IInv /\ IInv' /\ [ControlNext]_control_vars =>
        [profile # "synthetic" /\ entry' # entry => ~prg_window' /\ entry' = prg_ram']_control_vars
  BY VectorStep
<1> QED BY <1>1, ControlPowerOn, ControlStep, PTL DEF ControlSpec, VectorsFromOwnBus
==============================================================================
