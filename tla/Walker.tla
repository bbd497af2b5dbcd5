------------------------------- MODULE Walker --------------------------------
(***************************************************************************)
(* One walk of the static control flow graph from an entry                 *)
(* (M68kStaticGraphWalker of libs/cpu/m68k/src/static_discovery.cpp).      *)
(*                                                                         *)
(* A worklist of addresses is drained first in, first out.  An address is  *)
(* decoded once, its operands and targets are checked, its successors are  *)
(* queued; what is wrong becomes an issue and the walk goes on with the    *)
(* other paths.  A walk keeps at most MaxInstructions instructions.  It    *)
(* does not go into the unit boundaries it is given (their bodies belong   *)
(* to walks of their own): control transfers stop at "units", steps to the *)
(* next instruction at "conts".                                            *)
(*                                                                         *)
(* An image is a function from word addresses to what an instruction that  *)
(* starts there would be; the address Size stands for every odd, unmapped  *)
(* or doubly mapped one.  A computed jump carries one candidate target and *)
(* the address of the instruction its register value comes from: the value *)
(* analysis proves the candidate when this walk has decoded that producer. *)
(* This is the (An) form; the (d8,PC,Xn) form is tried once and not put    *)
(* off, and the other forms are never proven.  Block entries and call      *)
(* frames repeat the edges and are left out, as are the return edges.      *)
(***************************************************************************)
EXTENDS Naturals, FiniteSets, SequencesExt

CONSTANTS
    Size,           \* words of the image
    MaxInstructions \* M68kStaticDiscoveryLimits.max_instructions

ASSUME SizeAssumption == Size \in Nat \ {0}
ASSUME CeilingAssumption == MaxInstructions \in Nat \ {0}

Addr    == 0 .. Size - 1
Nowhere == Size

Kinds == {"plain", "operand", "illegal", "unsupported", "rts",
          "bra", "bcc", "bne", "jmp", "jsr", "jmpa", "jsra"}
Instructions ==
    [kind : Kinds, len : 1..2, target : Addr \cup {Nowhere}, needs : Addr \cup {Nowhere}]

\* The state of a walk at its start: M68kStaticGraphWalker, run.
Start(entry) ==
    [queue    |-> <<entry>>, \* worklist_
     visited  |-> {},        \* visited_states_
     cache    |-> {},        \* decode_cache_: decoded, also when rejected afterwards
     kept     |-> {},        \* decode_order_; instructions_used_ is its size
     accepted |-> <<>>,      \* accepted_branch_targets_: <<target, source>>
     nexts    |-> {},        \* next_pc_reached_
     controls |-> {},        \* control_target_reached_
     contcut  |-> {},        \* fallthrough_continuation_frontier_
     ctlcut   |-> {},        \* resolved_control_target_frontier_
     stitched |-> {},        \* stitched_boundary_addresses_
     edges    |-> {},        \* edges_: <<source, target>>
     proven   |-> {},        \* sources of indirect_target_ea_sets_
     unproven |-> {},        \* sources of unproven_indirect_control_ea_sets_
     deferred |-> <<>>,      \* deferred_indirect_an_
     final    |-> FALSE,     \* indirect_an_final_pass_
     issues   |-> <<>>]      \* primary_issue_ and secondary_issues_

\* The context c of a walk: image, entry and the two boundary sets.
Context(image, entry, units, conts) ==
    [image |-> image, entry |-> entry, units |-> units, conts |-> conts]

NextPc(c, a) == a + c.image[a].len

Fail(w, category, address) ==
    [w EXCEPT !.issues = Append(@, [category |-> category, address |-> address])]

Failed(w, before) == w.issues # before.issues

------------------------------------------------------------------------------
(* Decoding.                                                               *)

\* decode_m68k_instruction on what instruction_source returns.
Decodes(c, a) ==
    a \in Addr /\ c.image[a].kind \notin {"illegal", "unsupported"} /\ NextPc(c, a) <= Size

\* M68kDiscoveryDecodeIssueKind: an instruction the decoder knows but does not support.
DecodeIssue(c, a) ==
    IF a \in Addr /\ c.image[a].kind = "unsupported" THEN "unsupported" ELSE "decode"

\* The ceiling: the address is probed, and kept as a frontier by how it was reached.
CeilingTrip(w, c, a) ==
    IF ~Decodes(c, a) THEN Fail(w, "fatal", a)
    ELSE Fail([w EXCEPT !.contcut = IF a \in w.nexts THEN @ \cup {a} ELSE @,
                        !.ctlcut  = IF a \in w.controls \ w.nexts THEN @ \cup {a} ELSE @],
              "budget", a)

\* The branch targets accepted so far that lie inside the instruction at a.
InsideOf(w, c, a) ==
    {k \in DOMAIN w.accepted : w.accepted[k][1] > a /\ w.accepted[k][1] < NextPc(c, a)}

\* decode_instruction.
DecodeInstruction(w, c, a) ==
    LET cached == [w EXCEPT !.cache = @ \cup {a}]
    IN  IF Cardinality(w.kept) = MaxInstructions THEN CeilingTrip(w, c, a)
        ELSE IF ~Decodes(c, a) THEN Fail(w, DecodeIssue(c, a), a)
        ELSE IF c.image[a].kind = "operand" THEN Fail(cached, "operand", a)
        ELSE IF InsideOf(w, c, a) # {}
        THEN Fail(cached, "mid", w.accepted[Min(InsideOf(w, c, a))][2])
        ELSE [cached EXCEPT !.kept = @ \cup {a}]

------------------------------------------------------------------------------
(* Successors.                                                             *)

\* Mutant: a target is not remembered as one.
EnqueueControlTarget_NotNoted(w, c, t) ==
    IF t # c.entry /\ t \in c.units THEN [w EXCEPT !.stitched = @ \cup {t}]
    ELSE [w EXCEPT !.queue = Append(@, t)]

\* enqueue_control_target.
EnqueueControlTarget(w, c, t) ==
    IF t # c.entry /\ t \in c.units THEN [w EXCEPT !.stitched = @ \cup {t}]
    ELSE [w EXCEPT !.controls = @ \cup {t}, !.queue = Append(@, t)]

\* enqueue_next_pc.
EnqueueNextPc(w, c, a) ==
    LET n == NextPc(c, a)
    IN  IF n # c.entry /\ n \in c.conts THEN [w EXCEPT !.edges = @ \cup {<<a, n>>}]
        ELSE [w EXCEPT !.nexts = @ \cup {n}, !.queue = Append(@, n)]

\* The nearest decoded instruction at or before t starts before t and contains it.
MidInstruction(w, c, t) ==
    \E b \in w.cache : b < t /\ t < NextPc(c, b) /\ \A d \in w.cache : d <= b \/ t < d

\* validate_branch_target.
ValidateBranchTarget(w, c, a, t) ==
    IF t = Nowhere THEN Fail(w, "target", a)
    ELSE IF MidInstruction(w, c, t) THEN Fail(w, "mid", a)
    ELSE [w EXCEPT !.accepted = Append(@, <<t, a>>)]

\* Two targets, in the order the kind checks them; the first failure ends it.
ValidateBoth(w, c, a, first, second) ==
    LET v == ValidateBranchTarget(w, c, a, first)
    IN  IF Failed(v, w) THEN v ELSE ValidateBranchTarget(v, c, a, second)

\* bne_short, branch and dbcc: fall through before the taken branch.
Conditional(w, c, a, v) ==
    LET t == c.image[a].target
        e == [v EXCEPT !.edges = @ \cup {<<a, NextPc(c, a)>>, <<a, t>>}]
    IN  IF Failed(v, w) THEN v ELSE EnqueueControlTarget(EnqueueNextPc(e, c, a), c, t)

Unconditional(w, c, a) ==
    LET t == c.image[a].target
        v == ValidateBranchTarget(w, c, a, t)
    IN  IF Failed(v, w) THEN v
        ELSE EnqueueControlTarget([v EXCEPT !.edges = @ \cup {<<a, t>>}], c, t)

\* jmp, jsr and bsr with a static target: the target is not compared with instructions.
Transfer(w, c, a, isCall) ==
    LET t == c.image[a].target
        v == EnqueueControlTarget([w EXCEPT !.edges = @ \cup {<<a, t>>}], c, t)
    IN  IF t = Nowhere THEN Fail(w, "target", a)
        ELSE IF isCall THEN EnqueueNextPc(v, c, a) ELSE v

\* process_indirect_control_an: a proof that fails is tried again when all is decoded.
IndirectControl(w, c, a, isCall) ==
    LET i     == c.image[a]
        known == i.needs \in w.cache
        e     == [w EXCEPT !.proven = @ \cup {a}, !.edges = @ \cup {<<a, i.target>>}]
    IN  IF ~known /\ ~w.final THEN [w EXCEPT !.deferred = Append(@, a)]
        ELSE IF ~known \/ i.target = Nowhere
        THEN Fail([w EXCEPT !.unproven = @ \cup {a}], "unresolved", a)
        ELSE EnqueueControlTarget(IF isCall THEN EnqueueNextPc(e, c, a) ELSE e, c, i.target)

\* The successors of an instruction, by its kind.
FollowInstruction(w, c, a) ==
    LET i == c.image[a]
        n == NextPc(c, a)
    IN  CASE i.kind = "plain" -> EnqueueNextPc(w, c, a)
          [] i.kind = "rts"   -> w
          [] i.kind = "bra"   -> Unconditional(w, c, a)
          [] i.kind = "bcc"   -> Conditional(w, c, a, ValidateBoth(w, c, a, i.target, n))
          [] i.kind = "bne"   -> Conditional(w, c, a, ValidateBoth(w, c, a, n, i.target))
          [] i.kind \in {"jmp", "jsr"}   -> Transfer(w, c, a, i.kind = "jsr")
          [] i.kind \in {"jmpa", "jsra"} -> IndirectControl(w, c, a, i.kind = "jsra")

\* process_one.
ProcessOne(w, c, a) ==
    LET v == DecodeInstruction(w, c, a)
    IN  IF Failed(v, w) THEN v ELSE FollowInstruction(v, c, a)

------------------------------------------------------------------------------
(* The loop of run.                                                        *)

\* One address of the worklist.
Visit(w, c) ==
    LET a    == Head(w.queue)
        rest == [w EXCEPT !.queue = Tail(@), !.visited = @ \cup {a}]
    IN  IF a \in w.visited THEN rest ELSE ProcessOne(rest, c, a)

\* When the worklist is empty the deferred sites are tried again, each of them before
\* the worklist is looked at again.
Retries(w) == w.deferred # <<>> /\ (w.queue = <<>> \/ w.final)
Retry(w, c) ==
    LET a == Head(w.deferred)
    IN  IndirectControl([w EXCEPT !.final = TRUE, !.deferred = Tail(@)], c, a,
                        c.image[a].kind = "jsra")

WalkStep(w, c) == IF Retries(w) THEN Retry(w, c) ELSE Visit(w, c)

Walked(w) == w.queue = <<>> /\ w.deferred = <<>>
==============================================================================
