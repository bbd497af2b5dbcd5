------------------------------ MODULE CodeViews ------------------------------
(***************************************************************************)
(* Compiled code of overlapping or relocatable images, run only where the  *)
(* live memory holds the image (scd_overlay.c, scd_dynamic.c).             *)
(*                                                                         *)
(* Neither decides anew for every instruction.  A group of overlays keeps  *)
(* the selected candidate, a dynamic binding keeps the granules seen equal *)
(* to its image, and both are told of every store (SCD_OVERLAY_NOTE_WRITE)  *)
(* and of every change of what the processor sees.  Stores of the CDC are  *)
(* lazy: `owed' has happened for the program and lands when somebody looks.*)
(*                                                                         *)
(* One processor and one range of addresses.  A program carries overlays   *)
(* or dynamic images.  Cells stand for bytes, digests for the cells.       *)
(***************************************************************************)
EXTENDS Integers, FiniteSets

CONSTANTS
    Banks,         \* the banks of memory that can appear in the range
    Cells,         \* number of cells of the range
    GranuleCells,  \* cells of a granule
    Values,        \* what a cell can hold
    Candidates,    \* the group: a sequence of [lo, hi, bytes, roots, entries]
    Images,        \* the dynamic images: a sequence of [length, bytes, bodies], by offset
    BlockCells,    \* cells of a disc block
    AnchorCells,   \* cells that must match before a run is extended
    MinRun,        \* the shortest run that identifies an image
    InstrCells,    \* cells of an instruction
    MaxBindings,   \* bindings kept
    MaxOrder       \* bound: uses of bindings

Cell == 0 .. Cells - 1
Granule == 0 .. (Cells - 1) \div GranuleCells
GranuleOf(c) == c \div GranuleCells
None == -1

ASSUME CodeViewsAssumption ==
    /\ Banks \subseteq Nat
    /\ Cells \in Nat \ {0} /\ GranuleCells \in Nat \ {0}
    /\ MinRun \in Nat \ {0} /\ AnchorCells \in Nat \ {0}
    /\ MaxBindings \in Nat \ {0}
    /\ None \notin Values

\* Candidates and images are numbered from one; zero is none of them.
ASSUME ImagesAssumption ==
    /\ DOMAIN Candidates \subseteq Nat \ {0} /\ DOMAIN Images \subseteq Nat \ {0}
    /\ \A i \in DOMAIN Images :
          /\ Images[i].length \in Nat
          /\ \A o \in 0 .. Images[i].length - 1 : Images[i].bytes[o] \in Values

VARIABLES
    program,  \* "overlays" or "dynamic"
    mem,      \* the banks of the memory
    view,     \* the bank the processor sees in the range, or none
    owed,     \* a store of the CDC that has not landed
    group,    \* ScdOverlayState: selected, stale_from and what is dirty
    binding,  \* ScdDynamicBinding, by slot
    order,    \* dyn.order
    delivered,\* the disc blocks the CDC delivered, as <<image, block>>
    overflow, \* the ledger of delivered blocks overflowed
    last,     \* history: the candidate that ran last, of any program
    ran,      \* what the last step ran, if it was an instruction
    stop      \* the typed stop

vars == <<program, mem, view, owed, group, binding, order, delivered, overflow, last, ran, stop>>

NoRun == [by |-> None, pc |-> None]
NoStore == [bank |-> None, cell |-> None, value |-> None]

\* scd_code_byte: what the processor sees of memory m in view v.
LiveByte(m, v, c) == IF v = None \/ c \notin Cell THEN None ELSE m[v][c]

------------------------------------------------------------------------------
(* Overlays.                                                                *)
Cand(k) == Candidates[k]
CandRange(k) == Cand(k).lo .. Cand(k).hi - 1
CandIds == DOMAIN Candidates
Covers(k, pc) == pc \in CandRange(k)
Overlaps(j, k) == CandRange(j) \cap CandRange(k) # {}
GranulesOf(k) == {GranuleOf(c) : c \in CandRange(k)}

\* The part of a candidate in a granule is its image.
GranuleLive(m, v, k, g) ==
    \A c \in CandRange(k) : GranuleOf(c) = g => LiveByte(m, v, c) = Cand(k).bytes[c]

CandidateLive(m, v, k) == \A g \in GranulesOf(k) : GranuleLive(m, v, k, g)

NoGroup == [selected |-> 0, stale |-> 0, dirty |-> {}, all |-> FALSE]
AnyDirty(s) == s.all \/ s.dirty # {}
Cleared(s) == [s EXCEPT !.dirty = {}, !.all = FALSE]

OverlayNoteWrite(s, v, bank, cell) ==
    IF v = bank /\ ~s.all THEN [s EXCEPT !.dirty = @ \cup {GranuleOf(cell)}] ELSE s

OverlayNoteViewChange(s) == [s EXCEPT !.all = TRUE]

DirtyTouches(s, k) == s.all \/ GranulesOf(k) \cap s.dirty # {}

DirtyLive(m, v, s, k) ==
    IF s.all THEN CandidateLive(m, v, k)
    ELSE \A g \in s.dirty \cap GranulesOf(k) : GranuleLive(m, v, k, g)

\* scd_overlay_revalidate: over the dirty granules, and over the candidates
\* they touch.
BecameLive(m, v, s) ==
    {k \in CandIds : /\ k # s.selected /\ Overlaps(k, s.selected) /\ DirtyTouches(s, k)
                     /\ DirtyLive(m, v, s, k) /\ CandidateLive(m, v, k)}

Revalidate(m, v, s) ==
    CASE ~DirtyLive(m, v, s, s.selected) -> "invalid"
      [] DirtyLive(m, v, s, s.selected) /\ BecameLive(m, v, s) # {} -> "ambiguous"
      [] OTHER -> "valid"

\* Mutant: the replaced image is not remembered.
Checked_NotStale(m, v, s) ==
    IF s.selected # 0 /\ AnyDirty(s)
    THEN IF Revalidate(m, v, s) = "invalid"
         THEN Cleared([s EXCEPT !.selected = 0])
         ELSE Cleared(s)
    ELSE s

\* The group after the check at the start of a dispatch.
Checked(m, v, s) ==
    IF s.selected # 0 /\ AnyDirty(s)
    THEN IF Revalidate(m, v, s) = "invalid"
         THEN Cleared([s EXCEPT !.stale = s.selected, !.selected = 0])
         ELSE Cleared(s)
    ELSE s

\* A fresh selection among the live candidates that cover pc.
Fresh(m, v, s, pc) ==
    LET live == {k \in CandIds : CandidateLive(m, v, k)}
        here == {k \in live : Covers(k, pc)}
        k    == CHOOSE j \in here : \A i \in here : j <= i
    IN IF here = {} THEN [k |-> 0, why |-> "image_unknown"]
       ELSE IF Cardinality(here) > 1 \/ \E j \in live \ {k} : Overlaps(j, k)
       THEN [k |-> 0, why |-> "ambiguous_image"]
       ELSE IF s.stale # 0 /\ pc \notin Cand(k).roots
       THEN [k |-> 0, why |-> "stale_image_selection"]
       ELSE IF pc \notin Cand(k).entries THEN [k |-> 0, why |-> "image_entry_not_compiled"]
       ELSE [k |-> k, why |-> "none"]

\* What scd_overlay_dispatch does at pc: the group after it, the candidate
\* that runs, or the stop.
Dispatched(m, v, s, pc) ==
    LET t == Checked(m, v, s)
        f == Fresh(m, v, t, pc)
    IN IF s.selected # 0 /\ AnyDirty(s) /\ Revalidate(m, v, s) = "ambiguous"
       THEN [group |-> s, by |-> 0, why |-> "ambiguous_image"]
       ELSE IF t.selected # 0 /\ Covers(t.selected, pc)
       THEN IF pc \in Cand(t.selected).entries
            THEN [group |-> t, by |-> t.selected, why |-> "none"]
            ELSE [group |-> t, by |-> 0, why |-> "image_entry_not_compiled"]
       ELSE IF f.k # 0
       THEN [group |-> Cleared([t EXCEPT !.selected = f.k, !.stale = 0]),
             by |-> f.k, why |-> "none"]
       ELSE [group |-> t, by |-> 0, why |-> f.why]

------------------------------------------------------------------------------
(* Dynamic images.                                                          *)
Slots == 1 .. MaxBindings
ImageIds == DOMAIN Images
Length(i) == Images[i].length
Active(b) == b.image # 0
NoBinding == [image |-> 0, base |-> 0, dirty |-> {}, mutated |-> {}, order |-> 0]

\* The cells a binding serves: its image's extent within the range.
Extent(b) == {c \in Cell : c - b.base \in 0 .. Length(b.image) - 1}
ImageByte(b, c) == Images[b.image].bytes[c - b.base]

EqualsImage(m, v, b, cs) == \A c \in cs : LiveByte(m, v, c) = ImageByte(b, c)

\* Mutant: a store does not make a clean granule unknown.
DynNoteWrite_MutatedOnly(b, v, bank, cell) ==
    IF Active(b) /\ v = bank /\ cell \in Extent(b)
    THEN [b EXCEPT !.mutated = @ \ {GranuleOf(cell)}]
    ELSE b

DynNoteWrite(b, v, bank, cell) ==
    IF Active(b) /\ v = bank /\ cell \in Extent(b)
    THEN [b EXCEPT !.dirty = @ \cup {GranuleOf(cell)}, !.mutated = @ \ {GranuleOf(cell)}]
    ELSE b

DynNoteViewChange(b) == IF Active(b) THEN [b EXCEPT !.dirty = Granule, !.mutated = {}] ELSE b

\* scd_dyn_instruction_is_image: an unknown granule is compared once.
InstrCellsAt(b, pc) == Extent(b) \cap (pc .. pc + InstrCells - 1)

Compared(m, v, b, pc) ==
    LET unknown == {GranuleOf(c) : c \in InstrCellsAt(b, pc)} \cap (b.dirty \ b.mutated)
        equal   == {g \in unknown : EqualsImage(m, v, b, {c \in Extent(b) : GranuleOf(c) = g})}
    IN [b EXCEPT !.dirty = @ \ equal, !.mutated = @ \cup (unknown \ equal)]

IsImage(m, v, b, pc) ==
    \/ {GranuleOf(c) : c \in InstrCellsAt(b, pc)} \cap Compared(m, v, b, pc).dirty = {}
    \/ EqualsImage(m, v, b, InstrCellsAt(b, pc))

\* The bindings that cover pc are tried from the most recently used on: the
\* ones that no longer fit are compared and skipped, not dropped.
Covering(bs, pc) == {k \in Slots : Active(bs[k]) /\ pc \in Extent(bs[k])}

Fitting(m, v, bs, pc) ==
    LET fit == {k \in Covering(bs, pc) : IsImage(m, v, bs[k], pc)}
    IN IF fit = {} THEN 0 ELSE CHOOSE k \in fit : \A j \in fit : bs[j].order <= bs[k].order

Tried(m, v, bs, pc) ==
    LET f == Fitting(m, v, bs, pc)
    IN [k \in Slots |->
          IF k \in Covering(bs, pc) /\ (f = 0 \/ bs[k].order >= bs[f].order)
          THEN Compared(m, v, bs[k], pc) ELSE bs[k]]

\* A run: the anchor's cells match at this base, and it is extended both ways
\* while the live cells match and their blocks were delivered.
Matches(m, v, i, base, c) ==
    c - base \in 0 .. Length(i) - 1 /\ LiveByte(m, v, c) = Images[i].bytes[c - base]

GoesOn(m, v, i, base, c) ==
    Matches(m, v, i, base, c) /\ <<i, (c - base) \div BlockCells>> \in delivered

RunFrom(m, v, i, base, anchor) ==
    CHOOSE l \in 0 .. anchor :
        ~GoesOn(m, v, i, base, l - 1) /\ \A c \in l .. anchor - 1 : GoesOn(m, v, i, base, c)

RunTo(m, v, i, base, end) ==
    CHOOSE h \in end .. Cells :
        ~GoesOn(m, v, i, base, h + 1) /\ \A c \in end + 1 .. h : GoesOn(m, v, i, base, c)

RunAt(m, v, i, base, anchor) ==
    [image |-> i, base |-> base, lo |-> RunFrom(m, v, i, base, anchor),
     hi |-> RunTo(m, v, i, base, anchor + AnchorCells - 1)]

Runs(m, v, pc, anchor) ==
    LET at == {ib \in (DOMAIN Images) \X ((-Cells) .. Cells) :
                  /\ \E d \in delivered : d[1] = ib[1]
                  /\ \A c \in anchor .. anchor + AnchorCells - 1 : Matches(m, v, ib[1], ib[2], c)}
    IN {r \in {RunAt(m, v, ib[1], ib[2], anchor) : ib \in at} : pc \in r.lo .. r.hi}

RunLength(r) == r.hi - r.lo + 1
Longest(rs) == {r \in rs : \A q \in rs : RunLength(q) <= RunLength(r)}

\* scd_dyn_search: the anchor at pc, shifted back at the end of the memory,
\* then one and two anchors before pc.
AnchorAt(k, pc) ==
    IF k = 0 /\ pc + AnchorCells > Cells THEN Cells - AnchorCells ELSE pc - k * AnchorCells

Search(m, v, pc) ==
    LET best  == [k \in 0 .. 2 |-> Longest(Runs(m, v, pc, AnchorAt(k, pc)))]
        found == {k \in 0 .. 2 : best[k] # {} /\ \A r \in best[k] : RunLength(r) >= MinRun}
        alone == {k \in found : Cardinality(best[k]) = 1}
        first == CHOOSE k \in alone : \A j \in alone : k <= j
    IN IF LiveByte(m, v, pc) = None THEN [why |-> "not_executable"]
       ELSE IF overflow THEN [why |-> "ledger_overflow"]
       ELSE IF 0 \in found \ alone THEN [why |-> "ambiguous"]
       ELSE IF alone # {} THEN [why |-> "none", run |-> CHOOSE r \in best[first] : TRUE]
       ELSE [why |-> "no_source"]

\* scd_dyn_install: the same image at the same base, a free slot, or the least
\* recently used one; only the granules inside the run are known clean.
SlotFor(bs, r) ==
    LET same == {k \in Slots : Active(bs[k]) /\ bs[k].image = r.image /\ bs[k].base = r.base}
        free == {k \in Slots : ~Active(bs[k])}
    IN CASE same # {} -> CHOOSE k \in same : TRUE
         [] same = {} /\ free # {} -> CHOOSE k \in free : \A j \in free : k <= j
         [] OTHER -> CHOOSE k \in Slots : \A j \in Slots : bs[k].order <= bs[j].order

Whole(r) == {g \in Granule : g * GranuleCells >= r.lo /\ (g + 1) * GranuleCells - 1 <= r.hi}

\* Mutant: granules the run only touches are clean.
Bound_TouchedIsClean(r, o) ==
    [image |-> r.image, base |-> r.base,
     dirty |-> Granule \ {GranuleOf(c) : c \in r.lo .. r.hi}, mutated |-> {}, order |-> o]

Bound(r, o) == [image |-> r.image, base |-> r.base, dirty |-> Granule \ Whole(r),
                mutated |-> {}, order |-> o]

\* scd_dyn_resolve, from the bindings after the trial, the slot that fits and
\* the outcome of the search: the bindings and the order afterwards, and the
\* slot that serves pc or the refusal.
HasBody(b, pc) == pc - b.base \in Images[b.image].bodies

Served(bs, k, o, pc) ==
    IF HasBody(bs[k], pc)
    THEN [binding |-> [bs EXCEPT ![k].order = o + 1], order |-> o + 1, by |-> k, why |-> "none"]
    ELSE [binding |-> bs, order |-> o, by |-> 0, why |-> "body_not_compiled"]

Installed(m, v, bs, k, b, pc) ==
    IF IsImage(m, v, b, pc)
    THEN Served([bs EXCEPT ![k] = Compared(m, v, b, pc)], k, order + 1, pc)
    ELSE [binding |-> [bs EXCEPT ![k] = Compared(m, v, b, pc)], order |-> order + 1,
          by |-> 0, why |-> "instruction_differs"]

Resolved(m, v, bs, f, s, pc) ==
    CASE f # 0 -> Served(bs, f, order, pc)
      [] f = 0 /\ s.why # "none" -> [binding |-> bs, order |-> order, by |-> 0, why |-> s.why]
      [] OTHER -> Installed(m, v, bs, SlotFor(bs, s.run), Bound(s.run, order + 1), pc)

\* The one outcome of scd_dyn_resolve.
Resolutions(m, v, bs, pc) ==
    {Resolved(m, v, tried, f, s, pc) : tried \in {Tried(m, v, bs, pc)},
                                       f \in {Fitting(m, v, bs, pc)}, s \in {Search(m, v, pc)}}

------------------------------------------------------------------------------
(* Stores and view changes.                                                 *)
\* Memory, group and bindings after a store.
Stored(bank, cell, value) ==
    /\ mem' = [mem EXCEPT ![bank][cell] = value]
    /\ group' = IF program = "overlays" THEN OverlayNoteWrite(group, view, bank, cell) ELSE group
    /\ binding' = IF program = "dynamic"
                  THEN [k \in Slots |-> DynNoteWrite(binding[k], view, bank, cell)] ELSE binding

\* scd_cd_observe as a function of the state: what has landed after it.
Landed == IF owed = NoStore THEN mem ELSE [mem EXCEPT ![owed.bank][owed.cell] = owed.value]
LandedGroup ==
    IF owed = NoStore \/ program # "overlays" THEN group
    ELSE OverlayNoteWrite(group, view, owed.bank, owed.cell)
LandedBinding ==
    IF owed = NoStore \/ program # "dynamic" THEN binding
    ELSE [k \in Slots |-> DynNoteWrite(binding[k], view, owed.bank, owed.cell)]

Running == stop = "none"
NothingRan == ran' = NoRun /\ UNCHANGED <<program, order, last, stop>>

Store(bank, cell, value) ==
    /\ Running
    /\ Stored(bank, cell, value)
    /\ NothingRan /\ UNCHANGED <<view, owed, delivered, overflow>>

DmaStores(bank, cell, value) ==
    /\ Running
    /\ owed = NoStore
    /\ owed' = [bank |-> bank, cell |-> cell, value |-> value]
    /\ NothingRan /\ UNCHANGED <<mem, view, group, binding, delivered, overflow>>

Observe ==
    /\ Running
    /\ owed # NoStore
    /\ mem' = Landed /\ group' = LandedGroup /\ binding' = LandedBinding
    /\ owed' = NoStore
    /\ NothingRan /\ UNCHANGED <<view, delivered, overflow>>

\* A mode write: what is owed lands in the old view first.
ViewChange(v) ==
    /\ Running
    /\ v # view
    /\ mem' = Landed
    /\ owed' = NoStore
    /\ view' = v
    /\ group' = IF program = "overlays" THEN OverlayNoteViewChange(LandedGroup) ELSE group
    /\ binding' = IF program = "dynamic"
                  THEN [k \in Slots |-> DynNoteViewChange(LandedBinding[k])] ELSE binding
    /\ NothingRan /\ UNCHANGED <<delivered, overflow>>

\* The CDC decodes a block of an image, or the ledger is full.
Deliver(i, b) ==
    /\ Running /\ program = "dynamic"
    /\ delivered' = delivered \cup {<<i, b>>}
    /\ NothingRan /\ UNCHANGED <<mem, view, owed, group, binding, overflow>>

LedgerOverflows ==
    /\ Running /\ program = "dynamic"
    /\ overflow' = TRUE
    /\ NothingRan /\ UNCHANGED <<mem, view, owed, group, binding, delivered>>

------------------------------------------------------------------------------
\* Mutant: the CDC is not brought up to date before the comparison.
OverlayDispatch_NotObserved(pc) ==
    /\ Running /\ program = "overlays"
    /\ UNCHANGED <<mem, owed>>
    /\ LET d == Dispatched(mem, view, group, pc)
       IN /\ group' = d.group
          /\ ran' = IF d.by # 0 THEN [by |-> d.by, pc |-> pc] ELSE NoRun
          /\ last' = IF d.by # 0 THEN d.by ELSE last
          /\ stop' = d.why
    /\ UNCHANGED <<program, view, binding, order, delivered, overflow>>

(* Dispatch of the instruction at pc.                                       *)
OverlayDispatch(pc) ==
    /\ Running /\ program = "overlays"
    /\ mem' = Landed /\ owed' = NoStore
    /\ LET d == Dispatched(Landed, view, LandedGroup, pc)
       IN /\ group' = d.group
          /\ ran' = IF d.by # 0 THEN [by |-> d.by, pc |-> pc] ELSE NoRun
          /\ last' = IF d.by # 0 THEN d.by ELSE last
          /\ stop' = d.why
    /\ UNCHANGED <<program, view, binding, order, delivered, overflow>>

DynamicDispatch(pc) ==
    /\ Running /\ program = "dynamic" /\ order < MaxOrder
    /\ mem' = Landed /\ owed' = NoStore
    /\ \E r \in Resolutions(Landed, view, LandedBinding, pc) :
          /\ binding' = r.binding /\ order' = r.order
          /\ ran' = IF r.by # 0 THEN [by |-> r.by, pc |-> pc] ELSE NoRun
          /\ stop' = r.why
    /\ UNCHANGED <<program, view, group, delivered, overflow, last>>

\* scd_dynamic_known: a computed jump asks, and goes on when the answer is no.
DynamicKnown(pc) ==
    /\ Running /\ program = "dynamic" /\ order < MaxOrder
    /\ mem' = Landed /\ owed' = NoStore
    /\ \E r \in Resolutions(Landed, view, LandedBinding, pc) :
          binding' = r.binding /\ order' = r.order
    /\ ran' = NoRun
    /\ UNCHANGED <<program, view, group, delivered, overflow, last, stop>>

------------------------------------------------------------------------------
Init ==
    /\ program \in {"overlays", "dynamic"}
    /\ \E x \in Values : mem = [b \in Banks |-> [c \in Cell |-> x]]
    /\ view \in Banks
    /\ owed = NoStore
    /\ group = NoGroup
    /\ binding = [k \in Slots |-> NoBinding]
    /\ order = 0
    /\ delivered = {} /\ overflow = FALSE
    /\ last = 0
    /\ ran = NoRun
    /\ stop = "none"

Next ==
    \/ \E bank \in Banks, cell \in Cell, value \in Values :
          Store(bank, cell, value) \/ DmaStores(bank, cell, value)
    \/ Observe
    \/ \E v \in Banks \cup {None} : ViewChange(v)
    \/ \E i \in ImageIds : \E b \in 0 .. (Length(i) - 1) \div BlockCells : Deliver(i, b)
    \/ LedgerOverflows
    \/ \E pc \in Cell : OverlayDispatch(pc) \/ DynamicDispatch(pc) \/ DynamicKnown(pc)

Spec == Init /\ [][Next]_vars

------------------------------------------------------------------------------
(* Properties.                                                              *)

\* An instruction of an overlay runs only while every byte of its image is
\* live, what the CDC still owes included, and no other image fits the bytes.
RunsLiveImage ==
    program = "overlays" /\ ran # NoRun =>
        /\ Covers(ran.by, ran.pc) /\ CandidateLive(Landed, view, ran.by)
        /\ \A k \in CandIds \ {ran.by} : Overlaps(k, ran.by) => ~CandidateLive(Landed, view, k)

\* When the image that ran last has been replaced under the program, the next
\* instruction of the group that runs is a declared root of its own image.
ReplacedIsEnteredAtRoot ==
    [][last # 0 /\ ran' # NoRun /\ program = "overlays" /\ ~CandidateLive(mem', view', last)
         => ran'.pc \in Cand(ran'.by).roots]_vars

\* A granule a binding holds for clean equals the image in every byte the
\* processor sees there (scd_dyn_install, scd_dynamic_note_write).
CleanIsImage ==
    \A k \in Slots : LET b == binding[k] IN
        Active(b) => \A g \in Granule \ b.dirty :
            EqualsImage(mem, view, b, {c \in Extent(b) : GranuleOf(c) = g})

\* A body of a dynamic image runs only where the instruction's bytes are the
\* image's, whatever was stored, banked or delivered since it was identified.
ServesImage ==
    program = "dynamic" /\ ran # NoRun =>
        /\ ran.pc \in Extent(binding[ran.by])
        /\ EqualsImage(Landed, view, binding[ran.by], InstrCellsAt(binding[ran.by], ran.pc))

=============================================================================
