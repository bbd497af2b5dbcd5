------------------------------ MODULE Discovery ------------------------------
(***************************************************************************)
(* Static discovery of a Genesis program: which instructions the generated *)
(* program will hold (discover_m68k_general_startup of                     *)
(* platforms/genesis/machine/src/frontend.cpp, ADR-0026 to ADR-0028).      *)
(*                                                                         *)
(* A walk (module Walker) keeps a bounded number of instructions, so the   *)
(* program is cut into units that are walked one by one and stitched at    *)
(* their boundaries.  An inventory made offline proposes code entries; it  *)
(* is not trusted.  Three fixed points follow one another:                 *)
(*   admission  every proposal is walked with the others as boundaries;    *)
(*              one that does not decode or is cut is removed, and those   *)
(*              that stopped at it are walked again;                       *)
(*   synthesis  where a walk of a root is still cut, the address becomes a *)
(*              root of its own, up to a number of them;                   *)
(*   merge      every root is walked again and its result is merged; what  *)
(*              is wrong at a proposal is dropped, what is wrong elsewhere *)
(*              is reported, unless another root holds the instruction.    *)
(* A walk is taken one address at a time, the roots of a round in the      *)
(* order of the code.  Nothing runs concurrently: the hard part is that    *)
(* each walk depends on boundaries the others decide.                      *)
(*                                                                         *)
(* Left out: entries confirmed at run time, the horizontal interrupt and   *)
(* the exception handlers (further roots of the same kind), the order of   *)
(* the secondary issues, and what is done with the result (late proofs of  *)
(* computed jumps, blocks, pruning).                                       *)
(***************************************************************************)
EXTENDS Walker

CONSTANTS
    Images,     \* the programs: functions from Addr to Instructions
    Handlers,   \* the level 6 vectors: addresses, or Nowhere for none
    UnitCeiling \* m68k_fallthrough_continuation_unit_ceiling

ASSUME ImagesAssumption  == \A i \in Images : i \in [Addr -> Instructions]
ASSUME HandlerAssumption == Handlers \subseteq Addr \cup {Nowhere}

\* The reset entry.
Entry == 0

VARIABLES
    image,     \* the mapped image, constant
    irq,       \* irq6_handler_entry_value, constant
    prepass,   \* irq6_pre_pass_root, constant
    proposed,  \* candidate_seed_values, constant
    phase,     \* where discover_m68k_general_startup is
    todo,      \* roots still to be walked in this round
    root,      \* the root that is walked, Nowhere between walks
    w,         \* its walk
    admitted,  \* admitted_units
    removed,   \* removed_this_round
    deps,      \* dependency_by_candidate
    conts,     \* continuation_roots
    ctls,      \* synthesized_control_roots
    found,     \* discovered
    foundctl,  \* discovered_control
    held,      \* admitted_instruction_addresses_per_root: <<root, address>>
    edges,     \* merged_edges
    proven,    \* indirect_by_source
    primary,   \* primary_issue with its root: a sequence of at most one
    secondary  \* aggregated_secondary_issues with their roots: a set

program   == <<image, irq, prepass, proposed>>
walk      == <<todo, root, w>>
admission == <<admitted, removed, deps>>
synthesis == <<conts, ctls, found, foundctl>>
merged    == <<held, edges, proven, primary, secondary>>
vars      == <<program, phase, walk, admission, synthesis, merged>>

Idle == Start(Nowhere)
HasIrq == irq # Nowhere

\* The level 6 vector holds a word of 32 bits.  The handler to merge is the word without
\* its high byte, as the bus sees it; the pre-pass takes the whole word for an address, and
\* no root when the high byte is not zero.  Without proposals the reset entry is walked at
\* once.
Init ==
    /\ image \in Images /\ irq \in Handlers /\ prepass \in {irq, Nowhere}
    /\ proposed \in SUBSET (Addr \ {Entry})
    /\ phase = IF proposed = {} THEN "merge" ELSE "admission"
    /\ todo = IF proposed = {} THEN {Entry} ELSE proposed
    /\ root = Nowhere /\ w = Idle
    /\ admitted = proposed /\ removed = {} /\ deps = [c \in proposed |-> {}]
    /\ conts = {} /\ ctls = {} /\ found = {} /\ foundctl = {}
    /\ held = {} /\ edges = {} /\ proven = {} /\ primary = <<>> /\ secondary = {}

------------------------------------------------------------------------------
(* Walks.                                                                  *)

\* The boundaries of the walk: a round of admission sees the set it began with.
Units == IF phase = "admission" THEN (admitted \ {root}) \cup {Entry}
         ELSE (admitted \cup ctls \cup {Entry}) \ {root}
Conts == conts \ {root}

C == Context(image, root, Units, Conts)

\* The order of the roots: the entry, in a synthesis round the handler if it is one, the units, the
\* continuations, the controls, and ascending among them.
Rank(a) ==
    IF a = Entry THEN 0
    ELSE IF a = prepass /\ phase = "synthesis" THEN 1
    ELSE IF a \in admitted THEN 2
    ELSE IF a \in conts THEN 3 ELSE 4
Before(a, b) == Rank(a) < Rank(b) \/ (Rank(a) = Rank(b) /\ a <= b)

BeginWalk ==
    /\ root = Nowhere
    /\ \E r \in todo : /\ \A q \in todo : Before(r, q)
                      /\ root' = r /\ todo' = todo \ {r} /\ w' = Start(r)
    /\ UNCHANGED <<program, phase, admission, synthesis, merged>>

\* One address, or one of the sites that were put off.
VisitNext ==
    /\ root # Nowhere /\ ~Walked(w)
    /\ w' = WalkStep(w, C)
    /\ UNCHANGED <<program, phase, todo, root, admission, synthesis, merged>>

EndWalk   == root # Nowhere /\ Walked(w) /\ root' = Nowhere /\ w' = Idle /\ UNCHANGED todo
RoundDone == root = Nowhere /\ todo = {}
NextRound(roots) == todo' = roots /\ UNCHANGED <<root, w>>

\* candidate_walk_truncated and is_fatal_probe_failure.
Issues(v) == Range(v.issues)
Cut   == \E i \in Issues(w) : i.category \in {"budget", "fatal"}
Fatal == \E i \in Issues(w) : i.category = "fatal"

------------------------------------------------------------------------------
(* Admission of the proposals.                                             *)

\* probe_candidate: the boundaries a probe stopped at are what it depends on.
ProbeCandidate ==
    /\ phase = "admission" /\ EndWalk
    /\ IF root \in w.cache /\ ~Cut
       THEN deps' = [deps EXCEPT ![root] = w.stitched \cap proposed] /\ UNCHANGED removed
       ELSE removed' = removed \cup {root} /\ UNCHANGED deps
    /\ UNCHANGED <<program, phase, admitted, synthesis, merged>>

\* Mutant: the units that stopped at a removed one are not walked again.
Requeued_Never == {}

\* requeue.
Requeued == {c \in admitted \ removed : deps[c] \cap removed # {}}

\* round_roots of the pre-pass.
RoundRoots(units, continuations, controls) ==
    {Entry} \cup ({prepass} \cap Addr) \cup units \cup continuations \cup controls

\* The end of a round: removals are applied after every probe of the round.
AdmissionRound ==
    /\ phase = "admission" /\ RoundDone
    /\ admitted' = admitted \ removed /\ removed' = {}
    /\ IF Requeued # {} THEN NextRound(Requeued) /\ UNCHANGED phase
       ELSE NextRound(RoundRoots(admitted', conts, ctls)) /\ phase' = "synthesis"
    /\ UNCHANGED <<program, deps, synthesis, merged>>

------------------------------------------------------------------------------
(* Synthesis of roots where walks are cut.                                 *)

InspectRoot ==
    /\ phase = "synthesis" /\ EndWalk
    /\ found' = found \cup (w.contcut \ conts)
    /\ foundctl' = foundctl \cup (w.ctlcut \ (ctls \cup conts \cup admitted))
    /\ UNCHANGED <<program, phase, admission, conts, ctls, merged>>

\* The seeds of the merge, each once.
Seeds == {Entry} \cup admitted \cup conts \cup ctls

TooMany == Cardinality(conts) + Cardinality(ctls) + Cardinality(found) + Cardinality(foundctl)
             > UnitCeiling

\* The end of a round: done, too many units, or another round with the new roots.
SynthesisRound ==
    /\ phase = "synthesis" /\ RoundDone
    /\ found' = {} /\ foundctl' = {}
    /\ \/ /\ found \cup foundctl = {}
          /\ phase' = "merge" /\ NextRound(Seeds) /\ UNCHANGED <<conts, ctls>>
       \/ /\ found \cup foundctl # {} /\ TooMany
          /\ phase' = "rejected" /\ UNCHANGED <<walk, conts, ctls>>
       \/ /\ found \cup foundctl # {} /\ ~TooMany
          /\ conts' = conts \cup found /\ ctls' = ctls \cup foundctl
          /\ NextRound(RoundRoots(admitted, conts', ctls')) /\ UNCHANGED phase
    /\ UNCHANGED <<program, admission, merged>>

------------------------------------------------------------------------------
(* Merge.                                                                  *)

Seed(a) == [walk |-> "seed", at |-> a]
IrqRoot == [walk |-> "irq", at |-> irq]

\* A proposal that was not also synthesized: it comes from no one but the inventory.
OnlyProposed(r) == r.walk = "seed" /\ r.at \in proposed \ (conts \cup ctls)

\* carries_indirect_fact.
Preserved == {i \in Issues(w) : i.address \in w.proven \cup w.unproven}

WithRoot(i, r) == [issue |-> i, root |-> r]

\* merge_root_result with what it merges for any issues; the first one of the first
\* root that has one is the primary one.
MergeRootResult(r) ==
    /\ held' = held \cup {<<r, a>> : a \in w.kept}
    /\ edges' = edges \cup w.edges
    /\ proven' = proven \cup w.proven
MergeSecondary(r, issues) == secondary' = secondary \cup {WithRoot(i, r) : i \in issues}
MergeIssues(r) ==
    IF primary = <<>> /\ w.issues # <<>>
    THEN /\ primary' = <<WithRoot(Head(w.issues), r)>>
         /\ MergeSecondary(r, {w.issues[k] : k \in DOMAIN w.issues \ {1}})
    ELSE MergeSecondary(r, Issues(w)) /\ UNCHANGED primary

\* A proposal keeps, as secondary ones, only its issues at computed jumps.
MergeSeed ==
    /\ phase = "merge" /\ EndWalk
    /\ MergeRootResult(Seed(root))
    /\ IF OnlyProposed(Seed(root)) THEN MergeSecondary(Seed(root), Preserved) /\ UNCHANGED primary
       ELSE MergeIssues(Seed(root))
    /\ UNCHANGED <<program, phase, admission, synthesis>>

BeginIrq ==
    /\ phase = "merge" /\ RoundDone
    /\ IF HasIrq THEN phase' = "irq" /\ NextRound({irq})
       ELSE phase' = "supersede" /\ UNCHANGED walk
    /\ UNCHANGED <<program, admission, synthesis, merged>>

\* A fatal probe failure of the handler rejects the program.
MergeIrq ==
    /\ phase = "irq" /\ EndWalk
    /\ IF Fatal THEN phase' = "rejected" /\ UNCHANGED merged
       ELSE phase' = "supersede" /\ MergeRootResult(IrqRoot) /\ MergeIssues(IrqRoot)
    /\ UNCHANGED <<program, admission, synthesis>>

\* Mutant: the root the issue comes from counts as well.
Superseded_ByItself(i) ==
    /\ \E h \in held : h[2] = i.issue.address
    /\ ~ (image[i.issue.address].kind \in {"jmpa", "jsra"} /\ i.issue.address \notin proven)

\* issue_is_superseded: another root holds the instruction, and a computed jump is
\* proven by some root.
Superseded(i) ==
    /\ \E h \in held : h[1] # i.root /\ h[2] = i.issue.address
    /\ ~ (image[i.issue.address].kind \in {"jmpa", "jsra"} /\ i.issue.address \notin proven)

\* classify_frontier knows the category.
Classified(i) == i.issue.category \in {"budget", "unsupported", "operand", "unresolved"}

\* Superseded issues go; a superseded primary one is replaced by one that can be the
\* primary one, and stays when there are others and none can.
Supersede ==
    /\ phase = "supersede" /\ phase' = "done"
    /\ \E rest \in {{i \in secondary : ~Superseded(i)}} :
       \E able \in {{i \in rest : Classified(i)}} :
          IF primary # <<>> /\ Superseded(Head(primary)) /\ (rest = {} \/ able # {})
          THEN \/ rest = {} /\ primary' = <<>> /\ secondary' = {}
               \/ \E i \in able : primary' = <<i>> /\ secondary' = rest \ {i}
          ELSE secondary' = rest /\ UNCHANGED primary
    /\ UNCHANGED <<program, walk, admission, synthesis, held, edges, proven>>

------------------------------------------------------------------------------

Next ==
    \/ BeginWalk \/ VisitNext
    \/ ProbeCandidate \/ AdmissionRound \/ InspectRoot \/ SynthesisRound
    \/ MergeSeed \/ BeginIrq \/ MergeIrq \/ Supersede

Spec == Init /\ [][Next]_vars

------------------------------------------------------------------------------
(* What a program really reaches, from its image m alone.                  *)

NextOf(m, a)    == a + m[a].len
Decodable(m, a) == m[a].kind \notin {"illegal", "unsupported"} /\ NextOf(m, a) <= Size
Clean(m, a)     == Decodable(m, a) /\ m[a].kind # "operand"

\* Where control may go from a, computed jumps excepted.
Targets(m, a) ==
    CASE m[a].kind = "plain"                  -> {NextOf(m, a)}
      [] m[a].kind \in {"bra", "jmp"}         -> {m[a].target}
      [] m[a].kind \in {"bcc", "bne", "jsr"}  -> {m[a].target, NextOf(m, a)}
      [] OTHER                                -> {}

\* Where a walk may go from a: it also follows computed jumps.
Leads(m, a) ==
    CASE m[a].kind = "jmpa" -> {m[a].target}
      [] m[a].kind = "jsra" -> {m[a].target, NextOf(m, a)}
      [] OTHER              -> Targets(m, a)

\* A direct transfer with a target that is odd or unmapped is a stop.
Proceeds(m, a) ==
    /\ Clean(m, a)
    /\ m[a].kind \in {"bra", "jmp", "bcc", "bne", "jsr"} => m[a].target # Nowhere
    /\ m[a].kind \in {"bcc", "bne"} => NextOf(m, a) # Nowhere

Goes(m)    == [a \in Addr |-> IF Proceeds(m, a) THEN Targets(m, a) \cap Addr ELSE {}]
Follows(m) == [a \in Addr |-> IF Clean(m, a) THEN Leads(m, a) \cap Addr ELSE {}]

\* The addresses in every set that holds the roots and what its members go to.
Closure(roots, goes) ==
    {a \in Addr : \A S \in SUBSET Addr :
        roots \subseteq S /\ (\A b \in S : goes[b] \subseteq S) => a \in S}

\* What a program begins at, as far as the pre-pass knows it.
Origins == {Entry} \cup ({prepass} \cap Addr)
Reached == Closure(Origins, Goes(image))

\* Instructions overlap: a walk that comes to one of the addresses may then stop at a
\* branch into an instruction, or at an instruction with a target inside.
Overlap(m, addresses) ==
    \E a \in Addr : Decodable(m, a) /\ \E t \in addresses : t > a /\ t < NextOf(m, a)

\* A walk from the root may be stopped in that way.
Entangled(r) == Overlap(image, Closure({r}, Follows(image)))

Merged == {h[2] : h \in held}
Stops  == {primary[k].issue.address : k \in DOMAIN primary} \cup {i.issue.address : i \in secondary}

------------------------------------------------------------------------------
(* Properties.                                                             *)

\* A unit stays as complete as the probe that admitted it, although boundaries that
\* probe was given may have been removed since: until roots are synthesized, the walk
\* of an admitted unit decodes its entry and is not cut by the ceiling (ADR-0026, 7: a
\* unit that never reached a removed address is provably unaffected).  And once they
\* are, where the walk of a root of the pre-pass is cut when it is merged, the program
\* goes on with a root of its own: else a chain of instructions in the generated program
\* would have no end.  Only a handler the pre-pass did not know is merged without that.
UnitCompletes ==
    root # Nowhere /\ Walked(w) =>
        /\ phase \in {"synthesis", "merge"} /\ conts \cup ctls = {} /\ root \in admitted =>
              root \in w.cache /\ ~Cut
        /\ phase \in {"merge", "irq"} /\ proposed # {} /\ root \in RoundRoots(admitted, conts, ctls) =>
              w.contcut \subseteq conts /\ w.ctlcut \subseteq admitted \cup conts \cup ctls

\* When the build is accepted with an inventory, whatever is proposed, everything that
\* is reached from the reset entry, and from the handler if the pre-pass knows it, by
\* direct control flow is in the program: cutting it into units, stitching them and
\* raising new ones at the cuts loses nothing, and the ceiling of a walk is none of the
\* program.  (A handler the pre-pass does not know may lose code at a cut of its walk,
\* and StopIsReported says that this is reported.)
CoversProgram ==
    phase = "done" /\ proposed # {} /\ ~Overlap(image, Closure(Origins, Follows(image))) =>
        {a \in Reached : Clean(image, a)} \subseteq Merged

\* Roots that come from the reset entry or the handler.
Authoritative(r) == ~OnlyProposed(r)
HeldTwice(a) == \E g, h \in held : g # h /\ g[2] = a /\ h[2] = a

\* Nothing ends in silence: where an instruction of an authoritative root leads to
\* one the program does not hold, the result names a stop there and has a primary
\* issue, so the program is not taken for complete.  Two cases are excepted, in
\* which the code does drop the issue: an instruction with a bad target that two
\* roots hold, and a proposal admitted with an entry whose operand is rejected.
StopIsReported ==
    phase = "done" =>
        \A h \in held : Authoritative(h[1]) /\ ~Entangled(h[1].at) => \A t \in Targets(image, h[2]) :
            \/ t \in Merged
            \/ Stops \cap {h[2], t} # {} /\ primary # <<>>
            \/ HeldTwice(h[2]) /\ ~Proceeds(image, h[2])
            \/ t \in admitted /\ image[t].kind = "operand"
==============================================================================
