--------------------------- MODULE DiscoveryProofs ---------------------------
(***************************************************************************)
(* Static discovery, for every image, inventory, handler, instruction      *)
(* ceiling and number of units.                                            *)
(*                                                                         *)
(* The rounds of the discovery are about whole walks that were made at     *)
(* different times within different boundaries.  So the walk of a context  *)
(* is made an object: Way(c), the states that its steps lead to from its   *)
(* start.  It has one end (WayEnd), what holds of each step holds of it    *)
(* (WayGood), and it is the same walk without the boundaries that it never *)
(* stopped at (WayTransfer): this is why the units that did not stop at a  *)
(* removed one need not be walked again.                                   *)
(*                                                                         *)
(* What is proved of a walk (Good, Entered, Whole) is that it keeps clean  *)
(* instructions only, decodes its entry first, and, within a set of        *)
(* addresses where no instruction contains another's target, loses         *)
(* nothing: what it comes to is kept, reported, or the place of a cut.     *)
(*                                                                         *)
(* The inductive invariants are DInv (the rounds up to the merge) and      *)
(* Results (what is merged).  They say of every root that its walk, made   *)
(* within the boundaries of now, ended as the record of it says.           *)
(***************************************************************************)
EXTENDS Discovery, TLAPS, WellFoundedInduction, FiniteSetTheorems

-----------------------------------------------------------------------------
(* Sets and sequences.                                                     *)

\* A set of naturals that is not empty has a least element.
LEMMA LeastNat ==
  ASSUME NEW X \in SUBSET Nat, X # {}
  PROVE \E x \in X : \A y \in X : x <= y
<1>1. \A x, y \in Nat : <<y, x>> \in OpToRel(<, Nat) <=> y < x
  BY Zenon DEF OpToRel
<1>2. PICK R : IsWellFoundedOn(R, Nat) /\ \A x, y \in Nat : <<y, x>> \in R <=> y < x
  BY <1>1, NatLessThanWellFounded, Zenon
<1>3. PICK x \in X : \A y \in X : ~ (<<y, x>> \in R)
  BY <1>2, WFMin
<1>4. ASSUME NEW y \in X PROVE x <= y
  <2>1. ~(y < x) BY <1>2, <1>3, Zenon
  <2> QED BY <2>1
<1> QED BY <1>4

\* What a sequence holds when something is appended to it,
LEMMA AppendRange ==
  ASSUME NEW S, NEW s \in Seq(S), NEW x \in S
  PROVE  /\ Append(s, x) \in Seq(S) /\ Append(s, x) # s
         /\ Range(Append(s, x)) = Range(s) \cup {x}
<1>1. DOMAIN s = 1 .. Len(s) /\ DOMAIN Append(s, x) = 1 .. Len(s) + 1 OBVIOUS
<1>2. \A k \in 1 .. Len(s) : Append(s, x)[k] = s[k] OBVIOUS
<1>3. Append(s, x)[Len(s) + 1] = x OBVIOUS
<1>4. Range(Append(s, x)) \subseteq Range(s) \cup {x} BY <1>1, <1>2, <1>3 DEF Range
<1>5. \A k \in DOMAIN s : k \in DOMAIN Append(s, x) /\ Append(s, x)[k] = s[k] BY <1>1, <1>2
<1>6. Range(s) \subseteq Range(Append(s, x)) BY <1>5 DEF Range
<1>7. Len(s) + 1 \in DOMAIN Append(s, x) BY <1>1
<1>8. x \in Range(Append(s, x)) BY <1>3, <1>7 DEF Range
<1>9. Len(Append(s, x)) = Len(s) + 1 /\ Append(s, x) \in Seq(S) OBVIOUS
<1> QED BY <1>4, <1>6, <1>8, <1>9

\* and when its first element is taken.
LEMMA TailRange ==
  ASSUME NEW S, NEW s \in Seq(S), s # <<>>
  PROVE  /\ Head(s) \in S /\ Tail(s) \in Seq(S)
         /\ Range(s) = {Head(s)} \cup Range(Tail(s))
<1>1. /\ Len(s) \in Nat /\ Len(s) > 0 /\ DOMAIN s = 1 .. Len(s)
      /\ DOMAIN Tail(s) = 1 .. Len(s) - 1 /\ Head(s) = s[1]
      /\ Tail(s) \in Seq(S) /\ Head(s) \in S
  OBVIOUS
<1>2. \A k \in 1 .. Len(s) - 1 : Tail(s)[k] = s[k + 1] OBVIOUS
<1>3. ASSUME NEW k \in DOMAIN s PROVE s[k] \in {Head(s)} \cup Range(Tail(s))
  <2>1. CASE k = 1 BY <1>1, <2>1
  <2>2. CASE k # 1
    <3>1. k - 1 \in 1 .. Len(s) - 1 /\ (k - 1) + 1 = k BY <1>1, <2>2
    <3>2. Tail(s)[k - 1] = s[k] BY <1>2, <3>1
    <3>3. k - 1 \in DOMAIN Tail(s) BY <1>1, <3>1
    <3> QED BY <3>2, <3>3 DEF Range
  <2> QED BY <2>1, <2>2
<1>4. ASSUME NEW k \in DOMAIN Tail(s) PROVE Tail(s)[k] \in Range(s)
  <2>1. k + 1 \in DOMAIN s /\ Tail(s)[k] = s[k + 1] BY <1>1, <1>2
  <2> QED BY <2>1 DEF Range
<1>5. 1 \in DOMAIN s BY <1>1
<1>6. Head(s) \in Range(s) BY <1>1, <1>5 DEF Range
<1>7. Range(s) \subseteq {Head(s)} \cup Range(Tail(s)) BY <1>3 DEF Range
<1>8. Range(Tail(s)) \subseteq Range(s) BY <1>4 DEF Range
<1> QED BY <1>1, <1>6, <1>7, <1>8

\* The empty sequence has no elements.
LEMMA NoneIn == Range(<<>>) = {}
BY DEF Range

-----------------------------------------------------------------------------
(* Walks.                                                                  *)

\* The places a walk may come to: the addresses, and Size for all others.
Places == 0 .. Size
Categories == {"budget", "fatal", "unsupported", "decode", "operand", "mid", "target", "unresolved"}
IssueType == [category : Categories, address : Places]

\* The type of a walk.
Walks ==
    [queue : Seq(Places), visited : SUBSET Places, cache : SUBSET Addr, kept : SUBSET Addr,
     accepted : Seq(Places \X Addr), nexts : SUBSET Places, controls : SUBSET Places,
     contcut : SUBSET Addr, ctlcut : SUBSET Addr, stitched : SUBSET Places,
     edges : SUBSET (Addr \X Places), proven : SUBSET Addr, unproven : SUBSET Addr,
     deferred : Seq(Addr), final : BOOLEAN, issues : Seq(IssueType)]

\* The type of a context.
Contexts ==
    [image : [Addr -> Instructions], entry : Addr, units : SUBSET Addr, conts : SUBSET Addr]

\* A place a walk need not visit, because it has, will, or is stopped by a boundary.
Covered(v, c, t) ==
    t \in v.visited \/ t \in Range(v.queue) \/ (t # c.entry /\ t \in c.units \cup c.conts)

\* An issue names the address.
Told(v, a) == \E i \in Issues(v) : i.address = a

\* What following the instruction a makes of a walk x.
Follow(x, v, c, a) ==
    /\ v \in Walks
    /\ v.visited = x.visited /\ v.cache = x.cache /\ v.kept = x.kept
    /\ v.contcut = x.contcut /\ v.ctlcut = x.ctlcut /\ v.final = x.final
    /\ Range(x.queue) \subseteq Range(v.queue) /\ x.nexts \subseteq v.nexts
    /\ x.controls \subseteq v.controls /\ x.stitched \subseteq v.stitched
    /\ Range(x.issues) \subseteq Range(v.issues)
    /\ v.nexts \cup v.controls \subseteq x.nexts \cup x.controls \cup Leads(c.image, a)
    /\ Range(v.queue) \subseteq Range(x.queue) \cup (Leads(c.image, a) \cap (v.nexts \cup v.controls))
    /\ Range(v.accepted) \subseteq Range(x.accepted) \cup (Leads(c.image, a) \X {a})
    /\ \/ Range(v.deferred) = Range(x.deferred)
       \/ Range(v.deferred) = Range(x.deferred) \cup {a} /\ c.image[a].kind \in {"jmpa", "jsra"}

\* A walk that is left as it is follows itself.
LEMMA FollowSame == ASSUME NEW x \in Walks, NEW c, NEW a PROVE Follow(x, x, c, a)
BY DEF Follow

\* Two changes that follow the same instruction are one that does.
LEMMA FollowTrans ==
  ASSUME NEW x, NEW y, NEW z, NEW c, NEW a, Follow(x, y, c, a), Follow(y, z, c, a)
  PROVE  Follow(x, z, c, a)
<1>1. /\ z \in Walks
      /\ z.visited = x.visited /\ z.cache = x.cache /\ z.kept = x.kept
      /\ z.contcut = x.contcut /\ z.ctlcut = x.ctlcut /\ z.final = x.final
  BY DEF Follow
<1>2. /\ Range(x.queue) \subseteq Range(z.queue) /\ x.nexts \subseteq z.nexts
      /\ x.controls \subseteq z.controls /\ x.stitched \subseteq z.stitched
      /\ Range(x.issues) \subseteq Range(z.issues)
  BY DEF Follow
<1>3. /\ z.nexts \cup z.controls \subseteq x.nexts \cup x.controls \cup Leads(c.image, a)
      /\ Range(z.queue) \subseteq Range(x.queue) \cup (Leads(c.image, a) \cap (z.nexts \cup z.controls))
  BY DEF Follow
<1>4. Range(z.accepted) \subseteq Range(x.accepted) \cup (Leads(c.image, a) \X {a})
  BY Zenon DEF Follow
<1>5. \/ Range(z.deferred) = Range(x.deferred)
      \/ Range(z.deferred) = Range(x.deferred) \cup {a} /\ c.image[a].kind \in {"jmpa", "jsra"}
  BY DEF Follow
<1> QED BY <1>1, <1>2, <1>3, <1>4, <1>5 DEF Follow

\* Following keeps what is covered and what is told.
LEMMA FollowCovers ==
  ASSUME NEW x, NEW v, NEW c, NEW a, Follow(x, v, c, a)
  PROVE  /\ \A t : Covered(x, c, t) => Covered(v, c, t)
         /\ \A t : Told(x, t) => Told(v, t)
BY DEF Follow, Covered, Told, Issues

\* The fields of a context.
LEMMA ContextFields ==
  ASSUME NEW c \in Contexts, NEW a \in Addr
  PROVE  /\ c.image[a].kind \in Kinds /\ c.image[a].target \in Places
         /\ c.image[a].len \in 1 .. 2 /\ c.image[a].needs \in Places
         /\ c.image[a] \in Instructions
         /\ NextPc(c, a) = NextOf(c.image, a) /\ NextPc(c, a) \in Nat
         /\ (Decodes(c, a) <=> Decodable(c.image, a))
         /\ a \in Nat /\ a # Size /\ a \in Places
BY SizeAssumption DEF Contexts, Instructions, Addr, Nowhere, Places, NextPc, NextOf, Decodes, Decodable

\* Where a clean instruction leads are places.
LEMMA LeadsArePlaces ==
  ASSUME NEW c \in Contexts, NEW a \in Addr, Clean(c.image, a)
  PROVE  /\ Leads(c.image, a) \subseteq Places /\ NextPc(c, a) \in Places
         /\ Targets(c.image, a) \subseteq Leads(c.image, a)
<1>1. NextOf(c.image, a) \in Places BY ContextFields, SizeAssumption DEF Clean, Decodable, Places
<1> QED BY <1>1, ContextFields DEF Leads, Targets

\* An issue at a place is told there and changes nothing else (add_issue).
LEMMA FailFollows ==
  ASSUME NEW x \in Walks, NEW c, NEW a, NEW category \in Categories, NEW b \in Places
  PROVE  /\ Follow(x, Fail(x, category, b), c, a)
         /\ Told(Fail(x, category, b), b)
         /\ Failed(Fail(x, category, b), x)
<1> DEFINE i == [category |-> category, address |-> b]
           v == Fail(x, category, b)
<1>1. i \in IssueType BY DEF IssueType
<1>2. v = [x EXCEPT !.issues = Append(x.issues, i)] BY DEF Fail
<1>3. x.issues \in Seq(IssueType) BY DEF Walks
<1>4. /\ Append(x.issues, i) \in Seq(IssueType) /\ Append(x.issues, i) # x.issues
      /\ Range(Append(x.issues, i)) = Range(x.issues) \cup {i}
  BY <1>1, <1>3, AppendRange
<1>5. v.issues = Append(x.issues, i) BY <1>2 DEF Walks
<1>6. v \in Walks BY <1>2, <1>4 DEF Walks
<1>7. /\ v.queue = x.queue /\ v.visited = x.visited /\ v.cache = x.cache /\ v.kept = x.kept
      /\ v.accepted = x.accepted /\ v.nexts = x.nexts /\ v.controls = x.controls
      /\ v.contcut = x.contcut /\ v.ctlcut = x.ctlcut /\ v.stitched = x.stitched
      /\ v.deferred = x.deferred /\ v.final = x.final
  BY <1>2 DEF Walks
<1>8. i \in Range(v.issues) /\ i.address = b BY <1>4, <1>5
<1> HIDE DEF v
<1>9. Follow(x, v, c, a) BY <1>4, <1>5, <1>6, <1>7 DEF Follow
<1>10. Told(v, b) /\ Failed(v, x) BY <1>4, <1>5, <1>8 DEF Told, Failed, Issues
<1> QED BY <1>9, <1>10 DEF v

\* enqueue_control_target covers the target: it is queued, or a boundary.
LEMMA ControlFollows ==
  ASSUME NEW x \in Walks, NEW c \in Contexts, NEW a \in Addr, NEW t \in Places,
         t \in Leads(c.image, a)
  PROVE  /\ Follow(x, EnqueueControlTarget(x, c, t), c, a)
         /\ Covered(EnqueueControlTarget(x, c, t), c, t)
<1> DEFINE v == EnqueueControlTarget(x, c, t)
<1>1. CASE t # c.entry /\ t \in c.units
  <2>1. v = [x EXCEPT !.stitched = x.stitched \cup {t}] BY <1>1 DEF EnqueueControlTarget
  <2>2. x.stitched \cup {t} \in SUBSET Places BY DEF Walks
  <2>5. v \in Walks BY <2>1, <2>2 DEF Walks
  <2>3. /\ v.queue = x.queue /\ v.visited = x.visited /\ v.cache = x.cache /\ v.kept = x.kept
        /\ v.accepted = x.accepted /\ v.nexts = x.nexts /\ v.controls = x.controls
        /\ v.contcut = x.contcut /\ v.ctlcut = x.ctlcut /\ v.stitched = x.stitched \cup {t}
        /\ v.deferred = x.deferred /\ v.final = x.final /\ v.issues = x.issues
    BY <2>1 DEF Walks
  <2> HIDE DEF v
  <2>4. Follow(x, v, c, a) /\ Covered(v, c, t) BY <1>1, <2>5, <2>3 DEF Follow, Covered
  <2> QED BY <2>4 DEF v
<1>2. CASE ~(t # c.entry /\ t \in c.units)
  <2>1. v = [x EXCEPT !.controls = x.controls \cup {t}, !.queue = Append(x.queue, t)]
    BY <1>2 DEF EnqueueControlTarget
  <2>2. x.queue \in Seq(Places) BY DEF Walks
  <2>3. /\ Append(x.queue, t) \in Seq(Places)
        /\ Range(Append(x.queue, t)) = Range(x.queue) \cup {t}
    BY <2>2, AppendRange
  <2>7. x.controls \cup {t} \in SUBSET Places BY DEF Walks
  <2>4. v \in Walks BY <2>1, <2>3, <2>7 DEF Walks
  <2>5. /\ v.queue = Append(x.queue, t) /\ v.visited = x.visited /\ v.cache = x.cache
        /\ v.kept = x.kept /\ v.accepted = x.accepted /\ v.nexts = x.nexts
        /\ v.controls = x.controls \cup {t}
        /\ v.contcut = x.contcut /\ v.ctlcut = x.ctlcut /\ v.stitched = x.stitched
        /\ v.deferred = x.deferred /\ v.final = x.final /\ v.issues = x.issues
    BY <2>1 DEF Walks
  <2> HIDE DEF v
  <2>6. Follow(x, v, c, a) /\ Covered(v, c, t) BY <2>3, <2>4, <2>5 DEF Follow, Covered
  <2> QED BY <2>6 DEF v
<1> QED BY <1>1, <1>2

\* enqueue_next_pc covers the next instruction: it is queued, or a boundary.
LEMMA NextFollows ==
  ASSUME NEW x \in Walks, NEW c \in Contexts, NEW a \in Addr, NextPc(c, a) \in Places,
         NextPc(c, a) \in Leads(c.image, a)
  PROVE  /\ Follow(x, EnqueueNextPc(x, c, a), c, a)
         /\ Covered(EnqueueNextPc(x, c, a), c, NextPc(c, a))
<1> DEFINE v == EnqueueNextPc(x, c, a)
           n == NextPc(c, a)
<1>0. n \in Places /\ n \in Leads(c.image, a) OBVIOUS
<1> HIDE DEF n
<1>1. CASE n # c.entry /\ n \in c.conts
  <2>1. v = [x EXCEPT !.edges = x.edges \cup {<<a, n>>}] BY <1>1 DEF EnqueueNextPc, n
  <2>4. x.edges \cup {<<a, n>>} \in SUBSET (Addr \X Places) BY <1>0 DEF Walks
  <2>2. v \in Walks BY <2>1, <2>4 DEF Walks
  <2>3. /\ v.queue = x.queue /\ v.visited = x.visited /\ v.cache = x.cache /\ v.kept = x.kept
        /\ v.accepted = x.accepted /\ v.nexts = x.nexts /\ v.controls = x.controls
        /\ v.contcut = x.contcut /\ v.ctlcut = x.ctlcut /\ v.stitched = x.stitched
        /\ v.deferred = x.deferred /\ v.final = x.final /\ v.issues = x.issues
    BY <2>1 DEF Walks
  <2> HIDE DEF v
  <2>5. Follow(x, v, c, a) /\ Covered(v, c, n) BY <1>1, <2>2, <2>3 DEF Follow, Covered
  <2> QED BY <2>5 DEF v, n
<1>2. CASE ~(n # c.entry /\ n \in c.conts)
  <2>1. v = [x EXCEPT !.nexts = x.nexts \cup {n}, !.queue = Append(x.queue, n)]
    BY <1>2 DEF EnqueueNextPc, n
  <2>2. x.queue \in Seq(Places) BY DEF Walks
  <2>3. /\ Append(x.queue, n) \in Seq(Places)
        /\ Range(Append(x.queue, n)) = Range(x.queue) \cup {n}
    BY <1>0, <2>2, AppendRange
  <2>7. x.nexts \cup {n} \in SUBSET Places BY <1>0 DEF Walks
  <2>4. v \in Walks BY <2>1, <2>3, <2>7 DEF Walks
  <2>5. /\ v.queue = Append(x.queue, n) /\ v.visited = x.visited /\ v.cache = x.cache
        /\ v.kept = x.kept /\ v.accepted = x.accepted /\ v.nexts = x.nexts \cup {n}
        /\ v.controls = x.controls
        /\ v.contcut = x.contcut /\ v.ctlcut = x.ctlcut /\ v.stitched = x.stitched
        /\ v.deferred = x.deferred /\ v.final = x.final /\ v.issues = x.issues
    BY <2>1 DEF Walks
  <2> HIDE DEF v
  <2>6. Follow(x, v, c, a) /\ Covered(v, c, n) BY <1>0, <2>3, <2>4, <2>5 DEF Follow, Covered
  <2> QED BY <2>6 DEF v, n
<1> QED BY <1>1, <1>2

\* Edges are only recorded.
LEMMA EdgesFollow ==
  ASSUME NEW x \in Walks, NEW c, NEW a, NEW e \in SUBSET (Addr \X Places)
  PROVE  Follow(x, [x EXCEPT !.edges = e], c, a) /\ [x EXCEPT !.edges = e].issues = x.issues
<1> DEFINE v == [x EXCEPT !.edges = e]
<1>1. v \in Walks BY DEF Walks
<1>2. /\ v.queue = x.queue /\ v.visited = x.visited /\ v.cache = x.cache /\ v.kept = x.kept
      /\ v.accepted = x.accepted /\ v.nexts = x.nexts /\ v.controls = x.controls
      /\ v.contcut = x.contcut /\ v.ctlcut = x.ctlcut /\ v.stitched = x.stitched
      /\ v.deferred = x.deferred /\ v.final = x.final /\ v.issues = x.issues
  BY DEF Walks
<1> HIDE DEF v
<1>3. Follow(x, v, c, a) BY <1>1, <1>2 DEF Follow
<1> QED BY <1>2, <1>3 DEF v

\* An accepted target is only recorded.
LEMMA AcceptFollows ==
  ASSUME NEW x \in Walks, NEW c, NEW a \in Addr, NEW t \in Places, t \in Leads(c.image, a)
  PROVE  /\ Follow(x, [x EXCEPT !.accepted = Append(@, <<t, a>>)], c, a)
         /\ [x EXCEPT !.accepted = Append(@, <<t, a>>)].issues = x.issues
<1> DEFINE v == [x EXCEPT !.accepted = Append(x.accepted, <<t, a>>)]
<1>1. x.accepted \in Seq(Places \X Addr) /\ <<t, a>> \in Places \X Addr BY DEF Walks
<1>2. /\ Append(x.accepted, <<t, a>>) \in Seq(Places \X Addr)
      /\ Range(Append(x.accepted, <<t, a>>)) = Range(x.accepted) \cup {<<t, a>>}
  BY <1>1, AppendRange
<1>3. v \in Walks BY <1>2 DEF Walks
<1>4. /\ v.queue = x.queue /\ v.visited = x.visited /\ v.cache = x.cache /\ v.kept = x.kept
      /\ v.accepted = Append(x.accepted, <<t, a>>) /\ v.nexts = x.nexts
      /\ v.controls = x.controls
      /\ v.contcut = x.contcut /\ v.ctlcut = x.ctlcut /\ v.stitched = x.stitched
      /\ v.deferred = x.deferred /\ v.final = x.final /\ v.issues = x.issues
  BY DEF Walks
<1> HIDE DEF v
<1>5. <<t, a>> \in Leads(c.image, a) \X {a} OBVIOUS
<1>6. Range(v.accepted) \subseteq Range(x.accepted) \cup (Leads(c.image, a) \X {a})
  BY <1>2, <1>4, <1>5
<1>7. Follow(x, v, c, a) BY <1>3, <1>4, <1>6 DEF Follow
<1> QED BY <1>4, <1>7 DEF v

-----------------------------------------------------------------------------
(* Following an instruction.                                               *)

\* What a branch is validated for: following it is as wanted if no target of the
\* instruction lies in a decoded one.
Outcome(x, v, c, a) ==
    /\ Follow(x, v, c, a)
    /\ (\A t \in Leads(c.image, a) : ~MidInstruction(x, c, t)) =>
          IF Proceeds(c.image, a) THEN \A t \in Targets(c.image, a) : Covered(v, c, t)
          ELSE Told(v, a)

\* validate_branch_target fails, with an issue at the branch, exactly if the target is no
\* address or lies in a decoded instruction.
LEMMA ValidateFollows ==
  ASSUME NEW x \in Walks, NEW c \in Contexts, NEW a \in Addr, NEW t \in Places,
         t \in Leads(c.image, a)
  PROVE  LET v == ValidateBranchTarget(x, c, a, t)
         IN  /\ Follow(x, v, c, a)
             /\ Failed(v, x) => Told(v, a)
             /\ Failed(v, x) <=> (t = Nowhere \/ MidInstruction(x, c, t))
<1> DEFINE v == ValidateBranchTarget(x, c, a, t)
<1>0. a \in Places /\ "target" \in Categories /\ "mid" \in Categories
  BY ContextFields DEF Categories
<1>1. CASE t = Nowhere
  <2>1. v = Fail(x, "target", a) BY <1>1 DEF ValidateBranchTarget
  <2> HIDE DEF v
  <2>2. Follow(x, v, c, a) /\ Told(v, a) /\ Failed(v, x) BY <1>0, <2>1, FailFollows
  <2> QED BY <1>1, <2>2 DEF v
<1>2. CASE t # Nowhere /\ MidInstruction(x, c, t)
  <2>1. v = Fail(x, "mid", a) BY <1>2 DEF ValidateBranchTarget
  <2> HIDE DEF v
  <2>2. Follow(x, v, c, a) /\ Told(v, a) /\ Failed(v, x) BY <1>0, <2>1, FailFollows
  <2> QED BY <1>2, <2>2 DEF v
<1>3. CASE t # Nowhere /\ ~MidInstruction(x, c, t)
  <2>1. v = [x EXCEPT !.accepted = Append(@, <<t, a>>)] BY <1>3 DEF ValidateBranchTarget
  <2> HIDE DEF v
  <2>2. Follow(x, v, c, a) /\ ~Failed(v, x) BY <2>1, AcceptFollows DEF Failed
  <2> QED BY <1>3, <2>2 DEF v
<1> QED BY <1>1, <1>2, <1>3

\* Following keeps what is decoded.
LEMMA FollowMid ==
  ASSUME NEW x, NEW v, NEW c, NEW a, Follow(x, v, c, a), NEW t
  PROVE  MidInstruction(v, c, t) <=> MidInstruction(x, c, t)
BY DEF Follow, MidInstruction

\* What follows a walk is a walk.
LEMMA FollowType ==
  ASSUME NEW x, NEW v, NEW c, NEW a, Follow(x, v, c, a)
  PROVE  v \in Walks
BY DEF Follow

\* So it is for two targets, the first failure ending it.
LEMMA ValidateBothFollows ==
  ASSUME NEW x \in Walks, NEW c \in Contexts, NEW a \in Addr, NEW t \in Places, NEW u \in Places,
         t \in Leads(c.image, a), u \in Leads(c.image, a)
  PROVE  LET v == ValidateBoth(x, c, a, t, u)
         IN  /\ Follow(x, v, c, a)
             /\ Failed(v, x) => Told(v, a)
             /\ (~MidInstruction(x, c, t) /\ ~MidInstruction(x, c, u)) =>
                   (Failed(v, x) <=> (t = Nowhere \/ u = Nowhere))
<1> DEFINE y == ValidateBranchTarget(x, c, a, t)
           v == ValidateBoth(x, c, a, t, u)
           z == ValidateBranchTarget(y, c, a, u)
<1>1. /\ Follow(x, y, c, a) /\ (Failed(y, x) => Told(y, a))
      /\ Failed(y, x) <=> (t = Nowhere \/ MidInstruction(x, c, t))
  BY ValidateFollows
<1>2. CASE Failed(y, x)
  <2>1. v = y BY <1>2 DEF ValidateBoth
  <2> HIDE DEF v, y
  <2> QED BY <1>1, <1>2, <2>1 DEF v
<1>3. CASE ~Failed(y, x)
  <2>1. v = z BY <1>3 DEF ValidateBoth
  <2>2. y.issues = x.issues BY <1>3 DEF Failed
  <2> HIDE DEF v, y
  <2>3. y \in Walks BY <1>1, FollowType
  <2>4. /\ Follow(y, z, c, a) /\ (Failed(z, y) => Told(z, a))
        /\ Failed(z, y) <=> (u = Nowhere \/ MidInstruction(y, c, u))
    BY <2>3, ValidateFollows
  <2>5. MidInstruction(y, c, u) <=> MidInstruction(x, c, u) BY <1>1, FollowMid
  <2> HIDE DEF z
  <2>6. Failed(z, y) <=> Failed(z, x) BY <2>2 DEF Failed
  <2>7. Follow(x, z, c, a) BY <1>1, <2>4, FollowTrans
  <2> QED BY <1>1, <1>3, <2>1, <2>4, <2>5, <2>6, <2>7 DEF v
<1> QED BY <1>2, <1>3

\* The two targets of a branch that falls through.
LEMMA ConditionalFollows ==
  ASSUME NEW x \in Walks, NEW c \in Contexts, NEW a \in Addr, Clean(c.image, a),
         c.image[a].kind \in {"bcc", "bne"}
  PROVE  Outcome(x, FollowInstruction(x, c, a), c, a)
<1> DEFINE t == c.image[a].target
           n == NextPc(c, a)
           v == IF c.image[a].kind = "bcc" THEN ValidateBoth(x, c, a, t, n)
                ELSE ValidateBoth(x, c, a, n, t)
           z == FollowInstruction(x, c, a)
<1>1. /\ t \in Places /\ n \in Places /\ Leads(c.image, a) = {t, n}
      /\ Targets(c.image, a) = {t, n} /\ n = NextOf(c.image, a)
      /\ Proceeds(c.image, a) <=> (t # Nowhere /\ n # Nowhere)
  BY ContextFields, LeadsArePlaces DEF Leads, Targets, Proceeds
<1>2. z = Conditional(x, c, a, v) BY DEF FollowInstruction
<1>3. /\ Follow(x, v, c, a) /\ (Failed(v, x) => Told(v, a))
      /\ (~MidInstruction(x, c, t) /\ ~MidInstruction(x, c, n)) =>
            (Failed(v, x) <=> (t = Nowhere \/ n = Nowhere))
  <2>1. CASE c.image[a].kind = "bcc" BY <1>1, <2>1, ValidateBothFollows
  <2>2. CASE c.image[a].kind = "bne"
    <3>1. v = ValidateBoth(x, c, a, n, t) BY <2>2
    <3> HIDE DEF t, n, v
    <3> QED BY <1>1, <3>1, ValidateBothFollows
  <2> QED BY <2>1, <2>2
<1> DEFINE e == [v EXCEPT !.edges = @ \cup {<<a, n>>, <<a, t>>}]
           g == EnqueueNextPc(e, c, a)
           h == EnqueueControlTarget(g, c, t)
<1>4. CASE Failed(v, x)
  <2>1. z = v BY <1>2, <1>4 DEF Conditional
  <2> HIDE DEF v, z, t, n
  <2> QED BY <1>1, <1>3, <1>4, <2>1 DEF Outcome, z
<1>5. CASE ~Failed(v, x)
  <2>1. z = h BY <1>2, <1>5 DEF Conditional
  <2> HIDE DEF v, z, t, n
  <2>2. v \in Walks BY <1>3, FollowType
  <2>3. v.edges \cup {<<a, n>>, <<a, t>>} \in SUBSET (Addr \X Places) BY <1>1, <2>2 DEF Walks
  <2>4. Follow(v, e, c, a) BY <2>2, <2>3, EdgesFollow
  <2> HIDE DEF e
  <2>5. e \in Walks BY <2>4, FollowType
  <2>6. Follow(e, g, c, a) /\ Covered(g, c, n) BY <1>1, <2>5, NextFollows DEF n
  <2> HIDE DEF g
  <2>7. g \in Walks BY <2>6, FollowType
  <2>8. Follow(g, h, c, a) /\ Covered(h, c, t) BY <1>1, <2>7, ControlFollows
  <2> HIDE DEF h
  <2>9. Covered(h, c, n) BY <2>6, <2>8, FollowCovers
  <2>10. Follow(v, g, c, a) BY <2>4, <2>6, FollowTrans
  <2>11. Follow(v, h, c, a) BY <2>10, <2>8, FollowTrans
  <2>12. Follow(x, h, c, a) BY <1>3, <2>11, FollowTrans
  <2> QED BY <1>1, <1>3, <1>5, <2>1, <2>8, <2>9, <2>12 DEF Outcome, z
<1> QED BY <1>4, <1>5

\* A branch.
LEMMA UnconditionalFollows ==
  ASSUME NEW x \in Walks, NEW c \in Contexts, NEW a \in Addr, Clean(c.image, a),
         c.image[a].kind = "bra"
  PROVE  Outcome(x, FollowInstruction(x, c, a), c, a)
<1> DEFINE t == c.image[a].target
           v == ValidateBranchTarget(x, c, a, t)
           z == FollowInstruction(x, c, a)
           e == [v EXCEPT !.edges = @ \cup {<<a, t>>}]
           h == EnqueueControlTarget(e, c, t)
<1>1. /\ t \in Places /\ Leads(c.image, a) = {t} /\ Targets(c.image, a) = {t}
      /\ Proceeds(c.image, a) <=> t # Nowhere
  BY ContextFields, LeadsArePlaces DEF Leads, Targets, Proceeds
<1>2. z = Unconditional(x, c, a) BY DEF FollowInstruction
<1>3. /\ Follow(x, v, c, a) /\ (Failed(v, x) => Told(v, a))
      /\ (Failed(v, x) <=> (t = Nowhere \/ MidInstruction(x, c, t)))
  BY <1>1, ValidateFollows
<1>4. CASE Failed(v, x)
  <2>1. z = v BY <1>2, <1>4 DEF Unconditional
  <2> HIDE DEF v, z, t
  <2> QED BY <1>1, <1>3, <1>4, <2>1 DEF Outcome, z
<1>5. CASE ~Failed(v, x)
  <2>1. z = h BY <1>2, <1>5 DEF Unconditional
  <2> HIDE DEF v, z, t
  <2>2. v \in Walks BY <1>3, FollowType
  <2>3. v.edges \cup {<<a, t>>} \in SUBSET (Addr \X Places) BY <1>1, <2>2 DEF Walks
  <2>4. Follow(v, e, c, a) BY <2>2, <2>3, EdgesFollow
  <2> HIDE DEF e
  <2>5. e \in Walks BY <2>4, FollowType
  <2>8. Follow(e, h, c, a) /\ Covered(h, c, t) BY <1>1, <2>5, ControlFollows
  <2> HIDE DEF h
  <2>11. Follow(v, h, c, a) BY <2>4, <2>8, FollowTrans
  <2>12. Follow(x, h, c, a) BY <1>3, <2>11, FollowTrans
  <2> QED BY <1>1, <1>3, <1>5, <2>1, <2>8, <2>12 DEF Outcome, z
<1> QED BY <1>4, <1>5

\* A jump or a call.
LEMMA TransferFollows ==
  ASSUME NEW x \in Walks, NEW c \in Contexts, NEW a \in Addr, Clean(c.image, a),
         c.image[a].kind \in {"jmp", "jsr"}
  PROVE  Outcome(x, FollowInstruction(x, c, a), c, a)
<1> DEFINE t == c.image[a].target
           n == NextPc(c, a)
           z == FollowInstruction(x, c, a)
           e == [x EXCEPT !.edges = @ \cup {<<a, t>>}]
           h == EnqueueControlTarget(e, c, t)
           g == EnqueueNextPc(h, c, a)
<1>1. /\ t \in Places /\ n \in Places /\ t \in Leads(c.image, a)
      /\ Proceeds(c.image, a) <=> t # Nowhere
      /\ c.image[a].kind = "jmp" => Targets(c.image, a) = {t}
      /\ c.image[a].kind = "jsr" => Targets(c.image, a) = {t, n} /\ n \in Leads(c.image, a)
  BY ContextFields, LeadsArePlaces DEF Leads, Targets, Proceeds
<1>2. z = IF t = Nowhere THEN Fail(x, "target", a)
          ELSE IF c.image[a].kind = "jsr" THEN g ELSE h
  BY DEF FollowInstruction, Transfer
<1> HIDE DEF t, n, z
<1>3. CASE t = Nowhere
  <2>1. a \in Places /\ "target" \in Categories BY ContextFields DEF Categories
  <2>2. Follow(x, z, c, a) /\ Told(z, a) BY <1>2, <1>3, <2>1, FailFollows
  <2> QED BY <1>1, <1>3, <2>2 DEF Outcome, z
<1>4. CASE t # Nowhere
  <2>3. x.edges \cup {<<a, t>>} \in SUBSET (Addr \X Places) BY <1>1 DEF Walks
  <2>4. Follow(x, e, c, a) BY <2>3, EdgesFollow
  <2> HIDE DEF e
  <2>5. e \in Walks BY <2>4, FollowType
  <2>8. Follow(e, h, c, a) /\ Covered(h, c, t) BY <1>1, <2>5, ControlFollows
  <2> HIDE DEF h
  <2>9. h \in Walks BY <2>8, FollowType
  <2>10. Follow(x, h, c, a) BY <2>4, <2>8, FollowTrans
  <2>11. CASE c.image[a].kind = "jmp"
    <3>1. z = h BY <1>2, <1>4, <2>11
    <3> QED BY <1>1, <1>4, <2>8, <2>10, <2>11, <3>1 DEF Outcome, z
  <2>12. CASE c.image[a].kind = "jsr"
    <3>1. z = g BY <1>2, <1>4, <2>12
    <3>2. Follow(h, g, c, a) /\ Covered(g, c, n) BY <1>1, <2>9, <2>12, NextFollows DEF n
    <3> HIDE DEF g
    <3>3. Covered(g, c, t) BY <2>8, <3>2, FollowCovers
    <3>4. Follow(x, g, c, a) BY <2>10, <3>2, FollowTrans
    <3> QED BY <1>1, <1>4, <2>12, <3>1, <3>2, <3>3, <3>4 DEF Outcome, z
  <2> QED BY <2>11, <2>12
<1> QED BY <1>3, <1>4

\* A computed jump or call.
LEMMA IndirectFollows ==
  ASSUME NEW x \in Walks, NEW c \in Contexts, NEW a \in Addr, Clean(c.image, a),
         c.image[a].kind \in {"jmpa", "jsra"}
  PROVE  Follow(x, IndirectControl(x, c, a, c.image[a].kind = "jsra"), c, a)
<1> DEFINE t == c.image[a].target
           n == NextPc(c, a)
           z == IndirectControl(x, c, a, c.image[a].kind = "jsra")
           e == [x EXCEPT !.proven = @ \cup {a}, !.edges = @ \cup {<<a, t>>}]
           g == IF c.image[a].kind = "jsra" THEN EnqueueNextPc(e, c, a) ELSE e
           known == c.image[a].needs \in x.cache
<1>1. /\ t \in Places /\ n \in Places /\ t \in Leads(c.image, a)
      /\ c.image[a].kind = "jsra" => n \in Leads(c.image, a)
  BY ContextFields, LeadsArePlaces DEF Leads
<1>2. z = IF ~known /\ ~x.final THEN [x EXCEPT !.deferred = Append(@, a)]
          ELSE IF ~known \/ t = Nowhere
          THEN Fail([x EXCEPT !.unproven = @ \cup {a}], "unresolved", a)
          ELSE EnqueueControlTarget(g, c, t)
  BY DEF IndirectControl
<1> HIDE DEF t, n, z, known
<1>3. CASE ~known /\ ~x.final
  <2>1. z = [x EXCEPT !.deferred = Append(x.deferred, a)] BY <1>2, <1>3
  <2>2. x.deferred \in Seq(Addr) BY DEF Walks
  <2>3. /\ Append(x.deferred, a) \in Seq(Addr)
        /\ Range(Append(x.deferred, a)) = Range(x.deferred) \cup {a}
    BY <2>2, AppendRange
  <2>4. z \in Walks BY <2>1, <2>3 DEF Walks
  <2>5. /\ z.queue = x.queue /\ z.visited = x.visited /\ z.cache = x.cache /\ z.kept = x.kept
        /\ z.accepted = x.accepted /\ z.nexts = x.nexts /\ z.controls = x.controls
        /\ z.contcut = x.contcut /\ z.ctlcut = x.ctlcut /\ z.stitched = x.stitched
        /\ z.deferred = Append(x.deferred, a) /\ z.final = x.final /\ z.issues = x.issues
    BY <2>1 DEF Walks
  <2>6. Follow(x, z, c, a) BY <2>3, <2>4, <2>5 DEF Follow
  <2> QED BY <2>6 DEF z
<1>4. CASE ~(~known /\ ~x.final) /\ (~known \/ t = Nowhere)
  <2> DEFINE y == [x EXCEPT !.unproven = x.unproven \cup {a}]
  <2>1. z = Fail(y, "unresolved", a) BY <1>2, <1>4
  <2>2. x.unproven \cup {a} \in SUBSET Addr BY DEF Walks
  <2>3. y \in Walks BY <2>2 DEF Walks
  <2>4. /\ y.queue = x.queue /\ y.visited = x.visited /\ y.cache = x.cache /\ y.kept = x.kept
        /\ y.accepted = x.accepted /\ y.nexts = x.nexts /\ y.controls = x.controls
        /\ y.contcut = x.contcut /\ y.ctlcut = x.ctlcut /\ y.stitched = x.stitched
        /\ y.deferred = x.deferred /\ y.final = x.final /\ y.issues = x.issues
    BY DEF Walks
  <2> HIDE DEF y
  <2>5. Follow(x, y, c, a) BY <2>3, <2>4 DEF Follow
  <2>6. a \in Places /\ "unresolved" \in Categories BY ContextFields DEF Categories
  <2>7. Follow(y, z, c, a) BY <2>1, <2>3, <2>6, FailFollows
  <2>8. Follow(x, z, c, a) BY <2>5, <2>7, FollowTrans
  <2> QED BY <2>8 DEF z
<1>5. CASE ~(~known /\ ~x.final) /\ ~(~known \/ t = Nowhere)
  <2>1. z = EnqueueControlTarget(g, c, t) BY <1>2, <1>5
  <2>2. x.edges \cup {<<a, t>>} \in SUBSET (Addr \X Places) /\ x.proven \cup {a} \in SUBSET Addr
    BY <1>1 DEF Walks
  <2>3. e \in Walks BY <2>2 DEF Walks
  <2>4. /\ e.queue = x.queue /\ e.visited = x.visited /\ e.cache = x.cache /\ e.kept = x.kept
        /\ e.accepted = x.accepted /\ e.nexts = x.nexts /\ e.controls = x.controls
        /\ e.contcut = x.contcut /\ e.ctlcut = x.ctlcut /\ e.stitched = x.stitched
        /\ e.deferred = x.deferred /\ e.final = x.final /\ e.issues = x.issues
    BY DEF Walks
  <2> HIDE DEF e
  <2>5. Follow(x, e, c, a) BY <2>3, <2>4 DEF Follow
  <2>6. Follow(e, g, c, a)
    <3>1. CASE c.image[a].kind = "jsra" BY <1>1, <2>3, <3>1, NextFollows DEF n
    <3>2. CASE c.image[a].kind # "jsra" BY <2>3, <3>2, FollowSame
    <3> QED BY <3>1, <3>2
  <2> HIDE DEF g
  <2>7. g \in Walks BY <2>6, FollowType
  <2>8. Follow(g, z, c, a) BY <1>1, <2>1, <2>7, ControlFollows
  <2>9. Follow(x, g, c, a) BY <2>5, <2>6, FollowTrans
  <2>10. Follow(x, z, c, a) BY <2>8, <2>9, FollowTrans
  <2> QED BY <2>10 DEF z
<1> QED BY <1>3, <1>4, <1>5

\* Every kind of instruction.
LEMMA InstructionFollows ==
  ASSUME NEW x \in Walks, NEW c \in Contexts, NEW a \in Addr, Clean(c.image, a)
  PROVE  Outcome(x, FollowInstruction(x, c, a), c, a)
<1> DEFINE z == FollowInstruction(x, c, a)
           k == c.image[a].kind
<1>0. k \in Kinds \ {"illegal", "unsupported", "operand"}
  BY ContextFields DEF Clean, Decodable
<1>1. CASE k \in {"bcc", "bne"} BY <1>1, ConditionalFollows
<1>2. CASE k = "bra" BY <1>2, UnconditionalFollows
<1>3. CASE k \in {"jmp", "jsr"} BY <1>3, TransferFollows
<1>4. CASE k \in {"jmpa", "jsra"}
  <2>1. z = IndirectControl(x, c, a, k = "jsra") BY <1>4 DEF FollowInstruction
  <2>2. Follow(x, z, c, a) BY <1>4, <2>1, IndirectFollows
  <2>3. Targets(c.image, a) = {} /\ Proceeds(c.image, a) BY <1>4 DEF Targets, Proceeds
  <2> QED BY <2>2, <2>3 DEF Outcome
<1>5. CASE k = "rts"
  <2>1. z = x BY <1>5 DEF FollowInstruction
  <2>2. Targets(c.image, a) = {} /\ Proceeds(c.image, a) BY <1>5 DEF Targets, Proceeds
  <2> QED BY <2>1, <2>2, FollowSame DEF Outcome
<1>6. CASE k = "plain"
  <2>1. z = EnqueueNextPc(x, c, a) BY <1>6 DEF FollowInstruction
  <2>2. /\ Targets(c.image, a) = {NextPc(c, a)} /\ Leads(c.image, a) = {NextPc(c, a)}
        /\ Proceeds(c.image, a)
    BY <1>6, ContextFields DEF Targets, Leads, Proceeds
  <2>3. Follow(x, z, c, a) /\ Covered(z, c, NextPc(c, a))
    BY <2>1, <2>2, LeadsArePlaces, NextFollows
  <2> HIDE DEF z
  <2>4. Outcome(x, z, c, a) BY <2>2, <2>3 DEF Outcome
  <2> QED BY <2>4 DEF z
<1> QED BY <1>0, <1>1, <1>2, <1>3, <1>4, <1>5, <1>6 DEF Kinds

-----------------------------------------------------------------------------
(* Decoding an instruction.                                                *)

CleanAt(c, a) == a \in Addr /\ Clean(c.image, a)

\* What decoding at a makes of a walk x: the instruction is kept, or is not.
Kept(x, y, a) ==
    /\ y.kept = x.kept \cup {a} /\ y.cache = x.cache \cup {a} /\ y.issues = x.issues
    /\ y.contcut = x.contcut /\ y.ctlcut = x.ctlcut
NotKept(x, y, c, a) ==
    /\ Failed(y, x) /\ y.kept = x.kept
    /\ y.cache = x.cache \/ (Decodes(c, a) /\ y.cache = x.cache \cup {a})
    /\ x.contcut \subseteq y.contcut /\ x.ctlcut \subseteq y.ctlcut
    /\ \A b \in (y.contcut \cup y.ctlcut) \ (x.contcut \cup x.ctlcut) : b = a /\ Decodes(c, a)
    /\ Range(x.issues) \subseteq Range(y.issues)
    /\ (~Decodes(c, a) \/ InsideOf(x, c, a) = {}) =>
          /\ Told(y, a)
          /\ CleanAt(c, a) => Cardinality(x.kept) = MaxInstructions
          /\ CleanAt(c, a) /\ a \in x.nexts \cup x.controls => a \in y.contcut \cup y.ctlcut
Decoding(x, y, c, a) ==
    /\ y \in Walks
    /\ y.queue = x.queue /\ y.visited = x.visited /\ y.accepted = x.accepted
    /\ y.nexts = x.nexts /\ y.controls = x.controls /\ y.stitched = x.stitched
    /\ y.deferred = x.deferred /\ y.final = x.final
    /\ (CleanAt(c, a) /\ Kept(x, y, a)) \/ NotKept(x, y, c, a)

\* Only addresses decode.
LEMMA DecodesAt ==
  ASSUME NEW c \in Contexts, NEW a, Decodes(c, a)
  PROVE  a \in Addr /\ Decodable(c.image, a)
BY ContextFields DEF Decodes

\* A failure, in its fields.
LEMMA FailFields ==
  ASSUME NEW x \in Walks, NEW category \in Categories, NEW b \in Places
  PROVE  LET v == Fail(x, category, b)
         IN  /\ v \in Walks /\ Told(v, b) /\ Failed(v, x) /\ Range(x.issues) \subseteq Range(v.issues)
             /\ v.queue = x.queue /\ v.visited = x.visited /\ v.cache = x.cache /\ v.kept = x.kept
             /\ v.accepted = x.accepted /\ v.nexts = x.nexts /\ v.controls = x.controls
             /\ v.contcut = x.contcut /\ v.ctlcut = x.ctlcut /\ v.stitched = x.stitched
             /\ v.deferred = x.deferred /\ v.final = x.final
<1> DEFINE v == Fail(x, category, b)
<1>1. Follow(x, v, {}, {}) /\ Told(v, b) /\ Failed(v, x) BY FailFollows
<1>2. v = [x EXCEPT !.issues = Append(@, [category |-> category, address |-> b])] BY DEF Fail
<1>3. /\ v.queue = x.queue /\ v.visited = x.visited /\ v.cache = x.cache /\ v.kept = x.kept
      /\ v.accepted = x.accepted /\ v.nexts = x.nexts /\ v.controls = x.controls
      /\ v.contcut = x.contcut /\ v.ctlcut = x.ctlcut /\ v.stitched = x.stitched
      /\ v.deferred = x.deferred /\ v.final = x.final
  BY <1>2 DEF Walks
<1>4. v \in Walks /\ Range(x.issues) \subseteq Range(v.issues) BY <1>1 DEF Follow
<1> HIDE DEF v
<1>5. /\ v \in Walks /\ Told(v, b) /\ Failed(v, x) /\ Range(x.issues) \subseteq Range(v.issues)
  BY <1>1, <1>4
<1> QED BY <1>3, <1>5 DEF v

\* The ceiling.
LEMMA CeilingDecodes ==
  ASSUME NEW x \in Walks, NEW c \in Contexts, NEW a \in Places,
         Cardinality(x.kept) = MaxInstructions
  PROVE  Decoding(x, CeilingTrip(x, c, a), c, a)
<1> DEFINE y == CeilingTrip(x, c, a)
<1>0. "fatal" \in Categories /\ "budget" \in Categories BY DEF Categories
<1>1. CASE ~Decodes(c, a)
  <2>1. y = Fail(x, "fatal", a) BY <1>1 DEF CeilingTrip
  <2>2. ~CleanAt(c, a) BY <1>1, ContextFields DEF CleanAt, Clean
  <2> HIDE DEF y
  <2>3. /\ y \in Walks /\ Told(y, a) /\ Failed(y, x) /\ Range(x.issues) \subseteq Range(y.issues)
        /\ y.queue = x.queue /\ y.visited = x.visited /\ y.cache = x.cache /\ y.kept = x.kept
        /\ y.accepted = x.accepted /\ y.nexts = x.nexts /\ y.controls = x.controls
        /\ y.contcut = x.contcut /\ y.ctlcut = x.ctlcut /\ y.stitched = x.stitched
        /\ y.deferred = x.deferred /\ y.final = x.final
    BY <1>0, <2>1, FailFields
  <2>4. NotKept(x, y, c, a) BY <2>2, <2>3 DEF NotKept
  <2>5. Decoding(x, y, c, a) BY <2>3, <2>4 DEF Decoding
  <2> QED BY <2>5 DEF y
<1>2. CASE Decodes(c, a)
  <2> DEFINE m == [x EXCEPT !.contcut = IF a \in x.nexts THEN @ \cup {a} ELSE @,
                            !.ctlcut  = IF a \in x.controls \ x.nexts THEN @ \cup {a} ELSE @]
  <2>1. y = Fail(m, "budget", a) BY <1>2 DEF CeilingTrip
  <2>2. a \in Addr BY <1>2, DecodesAt
  <2>3. x.contcut \cup {a} \in SUBSET Addr /\ x.ctlcut \cup {a} \in SUBSET Addr
    BY <2>2 DEF Walks
  <2>4. m \in Walks BY <2>3 DEF Walks
  <2>5. /\ m.queue = x.queue /\ m.visited = x.visited /\ m.cache = x.cache /\ m.kept = x.kept
        /\ m.accepted = x.accepted /\ m.nexts = x.nexts /\ m.controls = x.controls
        /\ m.contcut = (IF a \in x.nexts THEN x.contcut \cup {a} ELSE x.contcut)
        /\ m.ctlcut = (IF a \in x.controls \ x.nexts THEN x.ctlcut \cup {a} ELSE x.ctlcut)
        /\ m.stitched = x.stitched /\ m.issues = x.issues
        /\ m.deferred = x.deferred /\ m.final = x.final
    BY DEF Walks
  <2> HIDE DEF y, m
  <2>6. /\ y \in Walks /\ Told(y, a) /\ Failed(y, m) /\ Range(m.issues) \subseteq Range(y.issues)
        /\ y.queue = m.queue /\ y.visited = m.visited /\ y.cache = m.cache /\ y.kept = m.kept
        /\ y.accepted = m.accepted /\ y.nexts = m.nexts /\ y.controls = m.controls
        /\ y.contcut = m.contcut /\ y.ctlcut = m.ctlcut /\ y.stitched = m.stitched
        /\ y.deferred = m.deferred /\ y.final = m.final
    BY <1>0, <2>1, <2>4, FailFields
  <2>7. Failed(y, x) BY <2>5, <2>6 DEF Failed
  <2>8. NotKept(x, y, c, a) BY <1>2, <2>5, <2>6, <2>7 DEF NotKept
  <2>9. Decoding(x, y, c, a) BY <2>5, <2>6, <2>8 DEF Decoding
  <2> QED BY <2>9 DEF y
<1> QED BY <1>1, <1>2

\* Decoding.
LEMMA InstructionDecodes ==
  ASSUME NEW x \in Walks, NEW c \in Contexts, NEW a \in Places
  PROVE  Decoding(x, DecodeInstruction(x, c, a), c, a)
<1> DEFINE y == DecodeInstruction(x, c, a)
           m == [x EXCEPT !.cache = @ \cup {a}]
<1>0. {"unsupported", "decode", "operand", "mid"} \subseteq Categories BY DEF Categories
<1>1. CASE Cardinality(x.kept) = MaxInstructions
  <2>1. y = CeilingTrip(x, c, a) BY <1>1 DEF DecodeInstruction
  <2> QED BY <1>1, <2>1, CeilingDecodes
<1>2. CASE Cardinality(x.kept) # MaxInstructions /\ ~Decodes(c, a)
  <2>1. y = Fail(x, DecodeIssue(c, a), a) BY <1>2 DEF DecodeInstruction
  <2>2. ~CleanAt(c, a) BY <1>2, ContextFields DEF CleanAt, Clean
  <2>3. DecodeIssue(c, a) \in Categories BY <1>0 DEF DecodeIssue
  <2> HIDE DEF y
  <2>4. /\ y \in Walks /\ Told(y, a) /\ Failed(y, x) /\ Range(x.issues) \subseteq Range(y.issues)
        /\ y.queue = x.queue /\ y.visited = x.visited /\ y.cache = x.cache /\ y.kept = x.kept
        /\ y.accepted = x.accepted /\ y.nexts = x.nexts /\ y.controls = x.controls
        /\ y.contcut = x.contcut /\ y.ctlcut = x.ctlcut /\ y.stitched = x.stitched
        /\ y.deferred = x.deferred /\ y.final = x.final
    BY <2>1, <2>3, FailFields
  <2>5. NotKept(x, y, c, a) BY <2>2, <2>4 DEF NotKept
  <2>6. Decoding(x, y, c, a) BY <2>4, <2>5 DEF Decoding
  <2> QED BY <2>6 DEF y
<1>3. CASE Cardinality(x.kept) # MaxInstructions /\ Decodes(c, a)
  <2>1. a \in Addr /\ Decodable(c.image, a) BY <1>3, DecodesAt
  <2>2. x.cache \cup {a} \in SUBSET Addr /\ x.kept \cup {a} \in SUBSET Addr BY <2>1 DEF Walks
  <2>3. m \in Walks BY <2>2 DEF Walks
  <2>4. /\ m.queue = x.queue /\ m.visited = x.visited /\ m.cache = x.cache \cup {a}
        /\ m.kept = x.kept
        /\ m.accepted = x.accepted /\ m.nexts = x.nexts /\ m.controls = x.controls
        /\ m.contcut = x.contcut /\ m.ctlcut = x.ctlcut
        /\ m.stitched = x.stitched /\ m.issues = x.issues
        /\ m.deferred = x.deferred /\ m.final = x.final
    BY DEF Walks
  <2>5. y = IF c.image[a].kind = "operand" THEN Fail(m, "operand", a)
            ELSE IF InsideOf(x, c, a) # {}
            THEN Fail(m, "mid", x.accepted[Min(InsideOf(x, c, a))][2])
            ELSE [m EXCEPT !.kept = @ \cup {a}]
    BY <1>3 DEF DecodeInstruction
  <2> HIDE DEF y, m
  <2>6. CASE c.image[a].kind = "operand"
    <3>1. /\ y \in Walks /\ Told(y, a) /\ Failed(y, m) /\ Range(m.issues) \subseteq Range(y.issues)
          /\ y.queue = m.queue /\ y.visited = m.visited /\ y.cache = m.cache /\ y.kept = m.kept
          /\ y.accepted = m.accepted /\ y.nexts = m.nexts /\ y.controls = m.controls
          /\ y.contcut = m.contcut /\ y.ctlcut = m.ctlcut /\ y.stitched = m.stitched
          /\ y.deferred = m.deferred /\ y.final = m.final
      BY <1>0, <2>3, <2>5, <2>6, FailFields
    <3>2. ~CleanAt(c, a) /\ Failed(y, x) BY <2>4, <2>6, <3>1 DEF CleanAt, Clean, Failed
    <3>3. NotKept(x, y, c, a) BY <1>3, <2>4, <3>1, <3>2 DEF NotKept
    <3>4. Decoding(x, y, c, a) BY <2>4, <3>1, <3>3 DEF Decoding
    <3> QED BY <3>4 DEF y
  <2>7. CASE c.image[a].kind # "operand" /\ InsideOf(x, c, a) # {}
    <3>1. InsideOf(x, c, a) \in SUBSET Nat /\ InsideOf(x, c, a) \subseteq DOMAIN x.accepted
      BY DEF InsideOf, Walks
    <3>2. PICK k \in InsideOf(x, c, a) : \A j \in InsideOf(x, c, a) : k <= j
      BY <2>7, <3>1, LeastNat
    <3>3. Min(InsideOf(x, c, a)) \in InsideOf(x, c, a) BY <3>2 DEF Min
    <3>4. Min(InsideOf(x, c, a)) \in DOMAIN x.accepted BY <3>1, <3>3
    <3>5. x.accepted[Min(InsideOf(x, c, a))] \in Places \X Addr BY <3>4 DEF Walks
    <3> DEFINE b == x.accepted[Min(InsideOf(x, c, a))][2]
    <3>11. b \in Addr BY <3>5
    <3>12. y = Fail(m, "mid", b) /\ "mid" \in Categories BY <1>0, <2>5, <2>7
    <3> HIDE DEF b
    <3>6. b \in Places BY <3>11, SizeAssumption DEF Places, Addr
    <3>7. /\ y \in Walks /\ Failed(y, m) /\ Range(m.issues) \subseteq Range(y.issues)
          /\ y.queue = m.queue /\ y.visited = m.visited /\ y.cache = m.cache /\ y.kept = m.kept
          /\ y.accepted = m.accepted /\ y.nexts = m.nexts /\ y.controls = m.controls
          /\ y.contcut = m.contcut /\ y.ctlcut = m.ctlcut /\ y.stitched = m.stitched
          /\ y.deferred = m.deferred /\ y.final = m.final
      BY <2>3, <3>12, <3>6, FailFields
    <3>8. Failed(y, x) BY <2>4, <3>7 DEF Failed
    <3>9. NotKept(x, y, c, a) BY <1>3, <2>4, <2>7, <3>7, <3>8 DEF NotKept
    <3>10. Decoding(x, y, c, a) BY <2>4, <3>7, <3>9 DEF Decoding
    <3> QED BY <3>10 DEF y
  <2>8. CASE c.image[a].kind # "operand" /\ InsideOf(x, c, a) = {}
    <3>1. y = [m EXCEPT !.kept = x.kept \cup {a}] BY <2>4, <2>5, <2>8
    <3>2. y \in Walks BY <2>2, <2>3, <3>1 DEF Walks
    <3>3. /\ y.queue = m.queue /\ y.visited = m.visited /\ y.cache = m.cache
          /\ y.kept = x.kept \cup {a}
          /\ y.accepted = m.accepted /\ y.nexts = m.nexts /\ y.controls = m.controls
          /\ y.contcut = m.contcut /\ y.ctlcut = m.ctlcut
          /\ y.stitched = m.stitched /\ y.issues = m.issues
          /\ y.deferred = m.deferred /\ y.final = m.final
      BY <2>3, <3>1 DEF Walks
    <3>4. CleanAt(c, a) BY <2>1, <2>8 DEF CleanAt, Clean
    <3>5. Kept(x, y, a) BY <2>4, <3>3 DEF Kept
    <3>6. Decoding(x, y, c, a) BY <2>4, <3>2, <3>3, <3>4, <3>5 DEF Decoding
    <3> QED BY <3>6 DEF y
  <2> QED BY <2>6, <2>7, <2>8
<1> QED BY <1>1, <1>2, <1>3

-----------------------------------------------------------------------------
(* What holds of a walk.                                                   *)

\* A set that has the entry of a walk and all that the walk may follow.
Encloses(F, c) ==
    /\ F \in SUBSET Addr /\ c.entry \in F
    /\ \A b \in F : Follows(c.image)[b] \subseteq F

\* What holds of every walk.
Good(v, c, F) ==
    /\ v \in Walks
    /\ Range(v.queue) \cup v.visited \cup v.nexts \cup v.controls \subseteq F \cup {Size}
    /\ Range(v.accepted) \subseteq (F \cup {Size}) \X Addr
    /\ v.kept \subseteq v.cache /\ v.cache \subseteq v.visited
    /\ \A b \in v.cache \cup v.contcut \cup v.ctlcut : Decodable(c.image, b)
    /\ \A b \in v.kept : Clean(c.image, b)
    /\ \A b \in Range(v.deferred) : b \in v.kept /\ c.image[b].kind \in {"jmpa", "jsra"}
    /\ Range(v.queue) \cup v.visited \subseteq v.nexts \cup v.controls \cup {c.entry}

\* The entry is decoded first, when nothing can be in its way.
Entered(v, c) ==
    /\ c.entry \in v.visited
    /\ c.entry \in v.kept \/ Told(v, c.entry)
    /\ Clean(c.image, c.entry) => c.entry \in v.kept

\* An address that was visited is kept or told, and a clean one is kept or a cut.
Treated(v, c, b) ==
    /\ b \in v.kept \/ Told(v, b)
    /\ CleanAt(c, b) => b \in v.kept \cup v.contcut \cup v.ctlcut
\* What a kept instruction leads to is covered, or its failure told.
Led(v, c, b) ==
    IF Proceeds(c.image, b) THEN \A t \in Targets(c.image, b) : Covered(v, c, t) ELSE Told(v, b)

\* What holds of a walk that meets no overlap: nothing it came to is lost.
Whole(v, c) ==
    /\ \A b \in v.visited : Treated(v, c, b)
    /\ \A b \in v.kept : Led(v, c, b)

\* Following an instruction that is kept,
LEMMA FollowGood ==
  ASSUME NEW c \in Contexts, NEW F, Encloses(F, c), NEW x, Good(x, c, F), NEW a \in x.kept,
         NEW v, Follow(x, v, c, a)
  PROVE  Good(v, c, F)
<1>1. a \in Addr /\ a \in F /\ Clean(c.image, a)
  <2>1. a \in Addr BY DEF Good, Walks
  <2>2. a \in F \cup {Size} BY DEF Good
  <2> QED BY <2>1, <2>2, ContextFields DEF Good
<1>2. Leads(c.image, a) \subseteq F \cup {Size}
  <2>1. Follows(c.image)[a] = Leads(c.image, a) \cap Addr BY <1>1 DEF Follows
  <2>2. Follows(c.image)[a] \subseteq F BY <1>1 DEF Encloses
  <2>3. Leads(c.image, a) \subseteq Addr \cup {Size}
    BY <1>1, LeadsArePlaces, SizeAssumption DEF Places, Addr
  <2> QED BY <2>1, <2>2, <2>3
<1>3. v \in Walks /\ v.visited = x.visited /\ v.cache = x.cache /\ v.kept = x.kept
      /\ v.contcut = x.contcut /\ v.ctlcut = x.ctlcut
  BY DEF Follow
<1>4. Range(v.queue) \cup v.visited \cup v.nexts \cup v.controls \subseteq F \cup {Size}
  BY <1>2 DEF Follow, Good
<1>5. Range(v.accepted) \subseteq (F \cup {Size}) \X Addr
  <2>1. Leads(c.image, a) \X {a} \subseteq (F \cup {Size}) \X Addr BY <1>1, <1>2
  <2>2. Range(v.accepted) \subseteq Range(x.accepted) \cup (Leads(c.image, a) \X {a})
    BY DEF Follow
  <2>3. Range(x.accepted) \subseteq (F \cup {Size}) \X Addr BY DEF Good
  <2> QED BY <2>1, <2>2, <2>3
<1>6. \A b \in Range(v.deferred) : b \in v.kept /\ c.image[b].kind \in {"jmpa", "jsra"}
  BY <1>3 DEF Follow, Good
<1>7. Range(v.queue) \cup v.visited \subseteq v.nexts \cup v.controls \cup {c.entry}
  BY DEF Follow, Good
<1>8. /\ v.kept \subseteq v.cache /\ v.cache \subseteq v.visited
      /\ \A b \in v.cache \cup v.contcut \cup v.ctlcut : Decodable(c.image, b)
      /\ \A b \in v.kept : Clean(c.image, b)
  BY <1>3 DEF Good
<1> QED BY <1>3, <1>4, <1>5, <1>6, <1>7, <1>8 DEF Good

\* and loses nothing.
LEMMA FollowWhole ==
  ASSUME NEW c, NEW x, NEW a, NEW v, Follow(x, v, c, a)
  PROVE  /\ Entered(x, c) => Entered(v, c)
         /\ \A b : Treated(x, c, b) => Treated(v, c, b)
         /\ \A b : Led(x, c, b) => Led(v, c, b)
<1>1. v.visited = x.visited /\ v.kept = x.kept /\ v.contcut = x.contcut /\ v.ctlcut = x.ctlcut
  BY DEF Follow
<1>2. \A t : (Covered(x, c, t) => Covered(v, c, t)) /\ (Told(x, t) => Told(v, t))
  BY FollowCovers
<1> QED BY <1>1, <1>2 DEF Entered, Treated, Led

\* No instruction a walk without overlap comes to contains a target.
LEMMA NothingInside ==
  ASSUME NEW c \in Contexts, NEW F, Encloses(F, c), NEW x, Good(x, c, F), ~Overlap(c.image, F)
  PROVE  /\ \A t \in F \cup {Size} : ~MidInstruction(x, c, t)
         /\ \A a \in Addr : Decodable(c.image, a) => InsideOf(x, c, a) = {}
<1>1. ASSUME NEW a \in Addr, Decodable(c.image, a), NEW t \in F \cup {Size}, a < t, t < NextPc(c, a)
      PROVE  FALSE
  <2>1. NextPc(c, a) = NextOf(c.image, a) /\ NextPc(c, a) \in Nat BY ContextFields
  <2>2. NextPc(c, a) <= Size BY <1>1, <2>1 DEF Decodable
  <2>3. t # Size BY <1>1, <2>1, <2>2, SizeAssumption
  <2>4. t \in F BY <2>3
  <2>5. t > a BY <1>1, <2>4 DEF Encloses, Addr
  <2> QED BY <1>1, <2>1, <2>4, <2>5 DEF Overlap
<1>2. \A b \in x.cache : b \in Addr /\ Decodable(c.image, b) BY DEF Good, Walks
<1>3. ASSUME NEW t \in F \cup {Size} PROVE ~MidInstruction(x, c, t)
  BY <1>1, <1>2 DEF MidInstruction
<1>4. ASSUME NEW a \in Addr, Decodable(c.image, a) PROVE InsideOf(x, c, a) = {}
  <2>1. ASSUME NEW k \in InsideOf(x, c, a) PROVE FALSE
    <3>1. k \in DOMAIN x.accepted /\ x.accepted[k][1] > a /\ x.accepted[k][1] < NextPc(c, a)
      BY DEF InsideOf
    <3>2. x.accepted[k] \in Range(x.accepted) BY <3>1 DEF Range
    <3>3. x.accepted[k] \in (F \cup {Size}) \X Addr BY <3>2 DEF Good
    <3> DEFINE t == x.accepted[k][1]
    <3>4. t \in F \cup {Size} BY <3>3
    <3>5. t > a /\ t < NextPc(c, a) BY <3>1
    <3> HIDE DEF t
    <3>6. t \in Nat /\ a \in Nat BY <3>4, SizeAssumption DEF Encloses, Addr
    <3> QED BY <1>1, <1>4, <3>4, <3>5, <3>6
  <2> QED BY <2>1
<1> QED BY <1>3, <1>4

\* Decoding.
LEMMA DecodeGood ==
  ASSUME NEW c \in Contexts, NEW F, Encloses(F, c), NEW x, Good(x, c, F), NEW a \in x.visited,
         NEW y, Decoding(x, y, c, a)
  PROVE  Good(y, c, F)
<1>1. /\ y \in Walks
      /\ y.queue = x.queue /\ y.visited = x.visited /\ y.accepted = x.accepted
      /\ y.nexts = x.nexts /\ y.controls = x.controls /\ y.deferred = x.deferred
  BY DEF Decoding
<1>2. CASE CleanAt(c, a) /\ Kept(x, y, a)
  <2>1. Decodable(c.image, a) /\ Clean(c.image, a) BY <1>2 DEF CleanAt, Clean
  <2>2. /\ y.kept = x.kept \cup {a} /\ y.cache = x.cache \cup {a}
        /\ y.contcut = x.contcut /\ y.ctlcut = x.ctlcut
    BY <1>2 DEF Kept
  <2>3. y.kept \subseteq y.cache /\ y.cache \subseteq y.visited BY <1>1, <2>2 DEF Good
  <2>4. \A b \in y.cache \cup y.contcut \cup y.ctlcut : Decodable(c.image, b)
    BY <2>1, <2>2 DEF Good
  <2>5. \A b \in y.kept : Clean(c.image, b) BY <2>1, <2>2 DEF Good
  <2>6. \A b \in Range(y.deferred) : b \in y.kept /\ c.image[b].kind \in {"jmpa", "jsra"}
    BY <1>1, <2>2 DEF Good
  <2>7. /\ Range(y.queue) \cup y.visited \cup y.nexts \cup y.controls \subseteq F \cup {Size}
        /\ Range(y.accepted) \subseteq (F \cup {Size}) \X Addr
        /\ Range(y.queue) \cup y.visited \subseteq y.nexts \cup y.controls \cup {c.entry}
    BY <1>1 DEF Good
  <2> QED BY <1>1, <2>3, <2>4, <2>5, <2>6, <2>7 DEF Good
<1>3. CASE NotKept(x, y, c, a)
  <2>1. y.kept = x.kept /\ (y.cache = x.cache \/ (Decodes(c, a) /\ y.cache = x.cache \cup {a}))
    BY <1>3 DEF NotKept
  <2>2. \A b \in (y.contcut \cup y.ctlcut) \ (x.contcut \cup x.ctlcut) : b = a /\ Decodes(c, a)
    BY <1>3 DEF NotKept
  <2>3. Decodes(c, a) => Decodable(c.image, a) BY DecodesAt
  <2>4. y.kept \subseteq y.cache /\ y.cache \subseteq y.visited BY <1>1, <2>1 DEF Good
  <2>5. \A b \in y.cache \cup y.contcut \cup y.ctlcut : Decodable(c.image, b)
    BY <2>1, <2>2, <2>3 DEF Good
  <2>6. \A b \in y.kept : Clean(c.image, b) BY <2>1 DEF Good
  <2>7. \A b \in Range(y.deferred) : b \in y.kept /\ c.image[b].kind \in {"jmpa", "jsra"}
    BY <1>1, <2>1 DEF Good
  <2>8. /\ Range(y.queue) \cup y.visited \cup y.nexts \cup y.controls \subseteq F \cup {Size}
        /\ Range(y.accepted) \subseteq (F \cup {Size}) \X Addr
        /\ Range(y.queue) \cup y.visited \subseteq y.nexts \cup y.controls \cup {c.entry}
    BY <1>1 DEF Good
  <2> QED BY <1>1, <2>4, <2>5, <2>6, <2>7, <2>8 DEF Good
<1> QED BY <1>2, <1>3 DEF Decoding

\* Decoding changes nothing for the other addresses.
LEMMA DecodeOthers ==
  ASSUME NEW c, NEW x, NEW a, NEW y, Decoding(x, y, c, a)
  PROVE  /\ \A b : (Covered(x, c, b) => Covered(y, c, b)) /\ (Told(x, b) => Told(y, b))
         /\ \A b : Treated(x, c, b) => Treated(y, c, b)
         /\ \A b : Led(x, c, b) => Led(y, c, b)
         /\ Entered(x, c) => Entered(y, c)
<1>1. y.visited = x.visited /\ y.queue = x.queue BY DEF Decoding
<1>2. /\ x.kept \subseteq y.kept /\ x.contcut \subseteq y.contcut /\ x.ctlcut \subseteq y.ctlcut
      /\ Range(x.issues) \subseteq Range(y.issues)
  BY DEF Decoding, Kept, NotKept
<1>3. \A b : (Covered(x, c, b) => Covered(y, c, b)) /\ (Told(x, b) => Told(y, b))
  BY <1>1, <1>2 DEF Covered, Told, Issues
<1>4. \A b : Treated(x, c, b) => Treated(y, c, b) BY <1>2, <1>3 DEF Treated
<1>5. \A b : Led(x, c, b) => Led(y, c, b) BY <1>3 DEF Led
<1>6. Entered(x, c) => Entered(y, c) BY <1>1, <1>2, <1>3 DEF Entered
<1> QED BY <1>3, <1>4, <1>5, <1>6

\* One address of the worklist that was not visited: x is the walk without it.
LEMMA ProcessGood ==
  ASSUME NEW c \in Contexts, NEW F, Encloses(F, c), NEW x, Good(x, c, F), NEW a \in x.visited
  PROVE  /\ Good(ProcessOne(x, c, a), c, F)
         /\ Entered(x, c) => Entered(ProcessOne(x, c, a), c)
         /\ x.stitched \subseteq ProcessOne(x, c, a).stitched
<1> DEFINE y == DecodeInstruction(x, c, a)
           v == ProcessOne(x, c, a)
           f == FollowInstruction(y, c, a)
<1>1. x \in Walks /\ a \in Places BY DEF Good, Walks
<1>2. Decoding(x, y, c, a) BY <1>1, InstructionDecodes
<1>3. v = IF Failed(y, x) THEN y ELSE f BY DEF ProcessOne
<1> HIDE DEF v, y
<1>4. Good(y, c, F) /\ (Entered(x, c) => Entered(y, c)) /\ y.stitched = x.stitched
  BY <1>2, DecodeGood, DecodeOthers DEF Decoding
<1>5. CASE Failed(y, x) BY <1>3, <1>4, <1>5 DEF v
<1>6. CASE ~Failed(y, x)
  <2>1. CleanAt(c, a) /\ a \in y.kept BY <1>2, <1>6 DEF Decoding, NotKept, Kept
  <2>2. a \in Addr /\ Clean(c.image, a) /\ y \in Walks BY <1>4, <2>1 DEF CleanAt, Good
  <2>3. Follow(y, f, c, a) BY <2>2, InstructionFollows DEF Outcome
  <2> HIDE DEF f
  <2>4. Good(f, c, F) BY <1>4, <2>1, <2>3, FollowGood
  <2>5. Entered(y, c) => Entered(f, c) BY <2>3, FollowWhole
  <2>6. y.stitched \subseteq f.stitched BY <2>3 DEF Follow
  <2> QED BY <1>3, <1>4, <1>6, <2>4, <2>5, <2>6 DEF v
<1> QED BY <1>5, <1>6

\* process_one loses nothing in a program without overlap: the address is kept, told, or
\* the place of a cut, and what a kept one leads to is covered.
LEMMA ProcessWhole ==
  ASSUME NEW c \in Contexts, NEW F, Encloses(F, c), NEW x, Good(x, c, F), NEW a \in x.visited,
         ~Overlap(c.image, F),
         Cardinality(x.kept) # MaxInstructions \/ a \in x.nexts \cup x.controls,
         \A b \in x.visited \ {a} : Treated(x, c, b),
         \A b \in x.kept : Led(x, c, b)
  PROVE  Whole(ProcessOne(x, c, a), c)
<1> DEFINE y == DecodeInstruction(x, c, a)
           v == ProcessOne(x, c, a)
           f == FollowInstruction(y, c, a)
<1>1. x \in Walks /\ a \in Places BY DEF Good, Walks
<1>2. Decoding(x, y, c, a) BY <1>1, InstructionDecodes
<1>3. v = IF Failed(y, x) THEN y ELSE f BY DEF ProcessOne
<1> HIDE DEF v, y
<1>4. Good(y, c, F) BY <1>2, DecodeGood
<1>5. /\ \A b \in x.visited \ {a} : Treated(y, c, b)
      /\ \A b \in x.kept : Led(y, c, b)
  BY <1>2, DecodeOthers
<1>6. y.visited = x.visited BY <1>2 DEF Decoding
<1>7. CASE NotKept(x, y, c, a)
  <2>1. ~Decodes(c, a) \/ InsideOf(x, c, a) = {} BY DecodesAt, NothingInside
  <2>2. /\ Told(y, a) /\ y.kept = x.kept /\ Failed(y, x)
        /\ CleanAt(c, a) => a \in y.contcut \cup y.ctlcut
    BY <1>7, <2>1 DEF NotKept
  <2>3. Treated(y, c, a) BY <2>2 DEF Treated
  <2> QED BY <1>3, <1>5, <1>6, <2>2, <2>3 DEF Whole, v
<1>8. CASE CleanAt(c, a) /\ Kept(x, y, a)
  <2>1. y.kept = x.kept \cup {a} /\ y.issues = x.issues BY <1>8 DEF Kept
  <2>2. ~Failed(y, x) BY <2>1 DEF Failed
  <2>3. a \in Addr /\ Clean(c.image, a) /\ y \in Walks BY <1>4, <1>8 DEF CleanAt, Good
  <2>4. Outcome(y, f, c, a) BY <2>3, InstructionFollows
  <2> HIDE DEF f
  <2>5. Follow(y, f, c, a) BY <2>4 DEF Outcome
  <2>6. \A t \in Leads(c.image, a) : ~MidInstruction(y, c, t)
    <3>1. a \in F BY <1>4, <2>3, ContextFields, <1>6 DEF Good
    <3>2. Follows(c.image)[a] = Leads(c.image, a) \cap Addr BY <2>3 DEF Follows
    <3>3. Follows(c.image)[a] \subseteq F BY <3>1 DEF Encloses
    <3>4. Leads(c.image, a) \subseteq Addr \cup {Size}
      BY <2>3, LeadsArePlaces, SizeAssumption DEF Places, Addr
    <3>5. Leads(c.image, a) \subseteq F \cup {Size} BY <3>2, <3>3, <3>4
    <3> QED BY <1>4, <3>5, NothingInside
  <2>7. Led(f, c, a) BY <2>4, <2>6 DEF Outcome, Led
  <2>8. f.kept = y.kept /\ f.visited = y.visited BY <2>5 DEF Follow
  <2>9. Treated(f, c, a) BY <2>1, <2>8 DEF Treated
  <2>10. /\ \A b \in x.visited \ {a} : Treated(f, c, b)
         /\ \A b \in x.kept : Led(f, c, b)
    BY <1>5, <2>5, FollowWhole
  <2>11. Whole(f, c) BY <1>6, <2>1, <2>7, <2>8, <2>9, <2>10 DEF Whole
  <2> QED BY <1>3, <2>2, <2>11 DEF v
<1> QED BY <1>2, <1>7, <1>8 DEF Decoding

-----------------------------------------------------------------------------
(* The steps of a walk.                                                    *)

\* A walk that has not begun, or is under way.
GoodWalk(v, c, F) == Good(v, c, F) /\ (v = Start(c.entry) \/ Entered(v, c))

\* All this holds of the start of a walk.
LEMMA StartGood ==
  ASSUME NEW c \in Contexts, NEW F, Encloses(F, c)
  PROVE  Start(c.entry) \in Walks /\ GoodWalk(Start(c.entry), c, F) /\ Whole(Start(c.entry), c)
<1> DEFINE v == Start(c.entry)
<1>1. c.entry \in Addr /\ c.entry \in Places /\ c.entry \in F
  BY ContextFields DEF Contexts, Encloses
<1>2. /\ v.queue = <<c.entry>> /\ v.visited = {} /\ v.cache = {} /\ v.kept = {}
      /\ v.accepted = <<>> /\ v.nexts = {} /\ v.controls = {} /\ v.contcut = {}
      /\ v.ctlcut = {} /\ v.deferred = <<>>
  BY DEF Start
<1>3. v \in Walks BY <1>1 DEF Walks, Start
<1>4. /\ Range(v.queue) = {c.entry} /\ Range(v.accepted) = {} /\ Range(v.deferred) = {}
  BY <1>2, NoneIn DEF Range
<1> HIDE DEF v
<1>5. Good(v, c, F) BY <1>1, <1>2, <1>3, <1>4 DEF Good
<1>6. Whole(v, c) BY <1>2 DEF Whole
<1> QED BY <1>3, <1>5, <1>6 DEF GoodWalk, v

\* The walk without the address it takes next.
Popped(s) == [s EXCEPT !.queue = Tail(@), !.visited = @ \cup {Head(s.queue)}]

\* A walk whose next address was taken from the worklist, in its fields.
LEMMA PoppedFields ==
  ASSUME NEW s \in Walks, s.queue # <<>>
  PROVE  LET x == Popped(s) a == Head(s.queue)
         IN  /\ x \in Walks /\ a \in Places /\ a \in Range(s.queue)
             /\ Range(s.queue) = {a} \cup Range(x.queue) /\ x.visited = s.visited \cup {a}
             /\ x.cache = s.cache /\ x.kept = s.kept /\ x.accepted = s.accepted
             /\ x.nexts = s.nexts /\ x.controls = s.controls /\ x.contcut = s.contcut
             /\ x.ctlcut = s.ctlcut /\ x.stitched = s.stitched /\ x.deferred = s.deferred
             /\ x.issues = s.issues
<1> DEFINE x == Popped(s)
           a == Head(s.queue)
<1>1. s.queue \in Seq(Places) BY DEF Walks
<1>2. a \in Places /\ Tail(s.queue) \in Seq(Places) /\ Range(s.queue) = {a} \cup Range(Tail(s.queue))
  BY <1>1, TailRange
<1>3. s.visited \cup {a} \in SUBSET Places BY <1>2 DEF Walks
<1> HIDE DEF a
<1>4. x = [s EXCEPT !.queue = Tail(s.queue), !.visited = s.visited \cup {a}] BY DEF Popped, a
<1>5. x \in Walks BY <1>2, <1>3, <1>4 DEF Walks
<1>6. /\ x.queue = Tail(s.queue) /\ x.visited = s.visited \cup {a}
      /\ x.cache = s.cache /\ x.kept = s.kept /\ x.accepted = s.accepted
      /\ x.nexts = s.nexts /\ x.controls = s.controls /\ x.contcut = s.contcut
      /\ x.ctlcut = s.ctlcut /\ x.stitched = s.stitched /\ x.deferred = s.deferred
      /\ x.issues = s.issues
  BY <1>4 DEF Walks
<1> HIDE DEF x
<1> QED BY <1>2, <1>5, <1>6 DEF x, a

\* Taking an address from the worklist keeps what holds of a walk.
LEMMA PoppedGood ==
  ASSUME NEW c, NEW F, NEW s, Good(s, c, F), s.queue # <<>>
  PROVE  /\ Good(Popped(s), c, F)
         /\ Entered(s, c) => Entered(Popped(s), c)
         /\ \A b : Treated(s, c, b) => Treated(Popped(s), c, b)
         /\ \A b : Led(s, c, b) => Led(Popped(s), c, b)
<1> DEFINE x == Popped(s)
           a == Head(s.queue)
<1>1. /\ x \in Walks /\ a \in Places /\ a \in Range(s.queue)
      /\ Range(s.queue) = {a} \cup Range(x.queue) /\ x.visited = s.visited \cup {a}
      /\ x.cache = s.cache /\ x.kept = s.kept /\ x.accepted = s.accepted
      /\ x.nexts = s.nexts /\ x.controls = s.controls /\ x.contcut = s.contcut
      /\ x.ctlcut = s.ctlcut /\ x.stitched = s.stitched /\ x.deferred = s.deferred
      /\ x.issues = s.issues
  BY PoppedFields DEF Good
<1> HIDE DEF x, a
<1>2. Good(x, c, F) BY <1>1 DEF Good
<1>3. \A t : (Covered(s, c, t) => Covered(x, c, t)) /\ (Told(s, t) => Told(x, t))
  BY <1>1 DEF Covered, Told, Issues
<1>4. Entered(s, c) => Entered(x, c) BY <1>1, <1>3 DEF Entered
<1>5. \A b : Treated(s, c, b) => Treated(x, c, b) BY <1>1, <1>3 DEF Treated
<1>6. \A b : Led(s, c, b) => Led(x, c, b) BY <1>3 DEF Led
<1> QED BY <1>2, <1>4, <1>5, <1>6 DEF x

\* Nothing is in the way of the entry.
LEMMA EntryDecodes ==
  ASSUME NEW c \in Contexts, NEW F, Encloses(F, c), NEW s, s = Start(c.entry)
  PROVE  Entered(ProcessOne(Popped(s), c, c.entry), c)
<1> DEFINE x == Popped(s)
           a == c.entry
           y == DecodeInstruction(x, c, a)
           v == ProcessOne(x, c, a)
           f == FollowInstruction(y, c, a)
<1>1. s \in Walks /\ Good(s, c, F) BY StartGood DEF GoodWalk
<1>2. s.queue = <<a>> /\ s.visited = {} /\ s.kept = {} /\ s.accepted = <<>> BY DEF Start
<1>3. Head(s.queue) = a /\ s.queue # <<>> BY <1>2
<1>4. Good(x, c, F) BY <1>1, <1>3, PoppedGood
<1>5. x \in Walks /\ x.visited = {a} /\ x.kept = {} /\ x.accepted = <<>>
  BY <1>1, <1>2, <1>3, PoppedFields
<1>6. a \in Addr /\ a \in Places BY ContextFields DEF Contexts
<1> HIDE DEF x
<1>7. Decoding(x, y, c, a) BY <1>5, <1>6, InstructionDecodes
<1>8. v = IF Failed(y, x) THEN y ELSE f BY DEF ProcessOne
<1>9. InsideOf(x, c, a) = {} BY <1>5 DEF InsideOf
<1>10. Cardinality(x.kept) # MaxInstructions BY <1>5, FS_EmptySet, CeilingAssumption
<1> HIDE DEF y, v
<1>11. y.visited = x.visited BY <1>7 DEF Decoding
<1>12. CASE NotKept(x, y, c, a)
  <2>1. Failed(y, x) /\ Told(y, a) /\ ~CleanAt(c, a) BY <1>9, <1>10, <1>12 DEF NotKept
  <2> QED BY <1>5, <1>6, <1>8, <1>11, <2>1 DEF Entered, v, x, CleanAt
<1>13. CASE CleanAt(c, a) /\ Kept(x, y, a)
  <2>1. ~Failed(y, x) /\ a \in y.kept /\ y \in Walks
    BY <1>7, <1>13 DEF Kept, Failed, Decoding
  <2>2. Follow(y, f, c, a) BY <1>6, <1>13, <2>1, InstructionFollows DEF CleanAt, Outcome
  <2> HIDE DEF f
  <2>3. f.visited = y.visited /\ f.kept = y.kept BY <2>2 DEF Follow
  <2>4. Entered(f, c) BY <1>5, <1>11, <2>1, <2>3 DEF Entered
  <2> QED BY <1>8, <2>1, <2>4 DEF v, x
<1> QED BY <1>7, <1>12, <1>13 DEF Decoding

\* A site that is tried again.
Retaken(s) == [s EXCEPT !.final = TRUE, !.deferred = Tail(@)]

\* So does taking a site that was put off.
LEMMA RetakenGood ==
  ASSUME NEW c, NEW F, NEW s, Good(s, c, F), s.deferred # <<>>
  PROVE  LET x == Retaken(s) a == Head(s.deferred)
         IN  /\ Good(x, c, F) /\ a \in x.kept /\ c.image[a].kind \in {"jmpa", "jsra"}
             /\ Entered(s, c) => Entered(x, c)
             /\ Whole(s, c) => Whole(x, c)
             /\ x.stitched = s.stitched
<1> DEFINE x == Retaken(s)
           a == Head(s.deferred)
<1>1. s.deferred \in Seq(Addr) /\ s \in Walks BY DEF Good, Walks
<1>2. /\ Tail(s.deferred) \in Seq(Addr)
      /\ Range(s.deferred) = {a} \cup Range(Tail(s.deferred))
  BY <1>1, TailRange
<1>3. x \in Walks BY <1>1, <1>2 DEF Walks, Retaken
<1>4. /\ x.deferred = Tail(s.deferred)
      /\ x.queue = s.queue /\ x.visited = s.visited
      /\ x.cache = s.cache /\ x.kept = s.kept /\ x.accepted = s.accepted
      /\ x.nexts = s.nexts /\ x.controls = s.controls /\ x.contcut = s.contcut
      /\ x.ctlcut = s.ctlcut /\ x.stitched = s.stitched /\ x.issues = s.issues
  BY <1>1 DEF Walks, Retaken
<1> HIDE DEF x, a
<1>5. \A b \in Range(s.deferred) : b \in s.kept /\ c.image[b].kind \in {"jmpa", "jsra"}
  BY DEF Good
<1>6. Good(x, c, F) BY <1>2, <1>3, <1>4, <1>5 DEF Good
<1>7. \A t : (Covered(s, c, t) <=> Covered(x, c, t)) /\ (Told(s, t) <=> Told(x, t))
  BY <1>4 DEF Covered, Told, Issues
<1>8. Entered(s, c) => Entered(x, c) BY <1>4, <1>7 DEF Entered
<1>9. \A b : (Treated(s, c, b) => Treated(x, c, b)) /\ (Led(s, c, b) => Led(x, c, b))
  BY <1>4, <1>7 DEF Treated, Led
<1>10. Whole(s, c) => Whole(x, c) BY <1>4, <1>9 DEF Whole
<1>11. a \in x.kept /\ c.image[a].kind \in {"jmpa", "jsra"} BY <1>2, <1>4, <1>5
<1> QED BY <1>4, <1>6, <1>8, <1>10, <1>11 DEF x, a

\* A step of a walk keeps all this.
LEMMA StepGood ==
  ASSUME NEW c \in Contexts, NEW F, Encloses(F, c), NEW s, GoodWalk(s, c, F), ~Walked(s)
  PROVE  /\ GoodWalk(WalkStep(s, c), c, F)
         /\ s.stitched \subseteq WalkStep(s, c).stitched
         /\ ~Overlap(c.image, F) /\ Whole(s, c) => Whole(WalkStep(s, c), c)
<1>0. Good(s, c, F) /\ s \in Walks BY DEF GoodWalk, Good
<1>1. CASE Retries(s)
  <2> DEFINE x == Retaken(s)
             a == Head(s.deferred)
             v == IndirectControl(x, c, a, c.image[a].kind = "jsra")
  <2>1. WalkStep(s, c) = v BY <1>1 DEF WalkStep, Retry, Retaken
  <2>2. s.deferred # <<>> BY <1>1 DEF Retries
  <2>3. /\ Good(x, c, F) /\ a \in x.kept /\ c.image[a].kind \in {"jmpa", "jsra"}
        /\ Entered(s, c) => Entered(x, c)
        /\ Whole(s, c) => Whole(x, c)
        /\ x.stitched = s.stitched
    BY <1>0, <2>2, RetakenGood
  <2>4. s # Start(c.entry) BY <2>2 DEF Start
  <2> HIDE DEF x, a
  <2>5. x \in Walks /\ a \in Addr /\ Clean(c.image, a) BY <2>3 DEF Good, Walks
  <2>6. Follow(x, v, c, a) BY <2>3, <2>5, IndirectFollows
  <2> HIDE DEF v
  <2>7. Good(v, c, F) BY <2>3, <2>6, FollowGood
  <2>8. Entered(v, c) BY <2>3, <2>4, <2>6, FollowWhole DEF GoodWalk
  <2>9. v.visited = x.visited /\ v.kept = x.kept /\ x.stitched \subseteq v.stitched
    BY <2>6 DEF Follow
  <2>10. \A b : (Treated(x, c, b) => Treated(v, c, b)) /\ (Led(x, c, b) => Led(v, c, b))
    BY <2>6, FollowWhole
  <2>11. Whole(s, c) => Whole(v, c) BY <2>3, <2>9, <2>10 DEF Whole
  <2> QED BY <2>1, <2>3, <2>7, <2>8, <2>9, <2>11 DEF GoodWalk
<1>2. CASE ~Retries(s)
  <2> DEFINE x == Popped(s)
             a == Head(s.queue)
             v == ProcessOne(x, c, a)
  <2>1. s.queue # <<>> BY <1>2 DEF Retries, Walked
  <2>2. WalkStep(s, c) = IF a \in s.visited THEN x ELSE v BY <1>2 DEF WalkStep, Visit, Popped
  <2>3. /\ Good(x, c, F)
        /\ Entered(s, c) => Entered(x, c)
        /\ \A b : Treated(s, c, b) => Treated(x, c, b)
        /\ \A b : Led(s, c, b) => Led(x, c, b)
    BY <1>0, <2>1, PoppedGood
  <2>4. /\ a \in Range(s.queue) /\ x.visited = s.visited \cup {a} /\ x.kept = s.kept
        /\ x.stitched = s.stitched /\ x.nexts = s.nexts /\ x.controls = s.controls
    BY <1>0, <2>1, PoppedFields
  <2>5. s = Start(c.entry) => s.visited = {} /\ s.kept = {} /\ a = c.entry BY DEF Start
  <2>11. s = Start(c.entry) => Entered(v, c) BY <2>5, EntryDecodes
  <2> HIDE DEF x, a
  <2>6. CASE a \in s.visited
    <3>1. Entered(x, c) BY <2>3, <2>5, <2>6 DEF GoodWalk
    <3>2. Whole(s, c) => Whole(x, c) BY <2>3, <2>4, <2>6 DEF Whole
    <3> QED BY <2>2, <2>3, <2>4, <2>6, <3>1, <3>2 DEF GoodWalk
  <2>7. CASE a \notin s.visited
    <3>1. a \in x.visited BY <2>4
    <3>2. Good(v, c, F) /\ x.stitched \subseteq v.stitched /\ (Entered(x, c) => Entered(v, c))
      BY <2>3, <3>1, ProcessGood
    <3>3. Entered(v, c) BY <2>3, <2>11, <3>2 DEF GoodWalk
    <3>4. ASSUME ~Overlap(c.image, F), Whole(s, c) PROVE Whole(v, c)
      <4>1. Cardinality(x.kept) # MaxInstructions \/ a \in x.nexts \cup x.controls
        <5>1. CASE s = Start(c.entry) BY <2>4, <2>5, <5>1, FS_EmptySet, CeilingAssumption
        <5>2. CASE Entered(s, c)
          <6>1. a # c.entry BY <2>7, <5>2 DEF Entered
          <6>2. a \in s.nexts \cup s.controls \cup {c.entry} BY <1>0, <2>4 DEF Good
          <6> QED BY <2>4, <6>1, <6>2
        <5> QED BY <5>1, <5>2 DEF GoodWalk
      <4>2. \A b \in x.visited \ {a} : Treated(x, c, b) BY <2>3, <2>4, <3>4 DEF Whole
      <4>3. \A b \in x.kept : Led(x, c, b) BY <2>3, <2>4, <3>4 DEF Whole
      <4> HIDE DEF v
      <4> QED BY <2>3, <3>1, <3>4, <4>1, <4>2, <4>3, ProcessWhole DEF v
    <3> HIDE DEF v
    <3> QED BY <2>2, <2>4, <2>7, <3>2, <3>3, <3>4 DEF GoodWalk
  <2> QED BY <2>6, <2>7
<1> QED BY <1>1, <1>2

-----------------------------------------------------------------------------
(* Repetition.                                                             *)

\* The states that x leads to when the function g is applied again and again.
Orbit(g, X, x) ==
    {e \in X : \A T \in SUBSET X : x \in T /\ (\A y \in T : g[y] \in T) => e \in T}

\* A state is in its orbit,
LEMMA OrbitStart ==
    ASSUME NEW X, NEW g, NEW x \in X
    PROVE  x \in Orbit(g, X, x)
BY Zenon DEF Orbit

\* the orbit is closed under the function,
LEMMA OrbitStep ==
    ASSUME NEW X, NEW g \in [X -> X], NEW x \in X, NEW e \in Orbit(g, X, x)
    PROVE  g[e] \in Orbit(g, X, x)
<1>1. e \in X /\ g[e] \in X BY DEF Orbit
<1>2. ASSUME NEW T \in SUBSET X, x \in T, \A y \in T : g[y] \in T PROVE g[e] \in T
  <2>1. e \in T BY <1>2, Zenon DEF Orbit
  <2> QED BY <1>2, <2>1
<1> QED BY <1>1, <1>2, Zenon DEF Orbit

\* and it is within every such set.
LEMMA OrbitWithin ==
    ASSUME NEW X, NEW g, NEW x, NEW T \in SUBSET X, x \in T, \A y \in T : g[y] \in T
    PROVE  Orbit(g, X, x) \subseteq T
BY Zenon DEF Orbit

\* A state of the orbit is the first one, or lies in the orbit of what follows it.
LEMMA OrbitFirst ==
    ASSUME NEW X, NEW g \in [X -> X], NEW x \in X, NEW e \in Orbit(g, X, x), e # x
    PROVE  e \in Orbit(g, X, g[x])
<1> DEFINE T == {x} \cup Orbit(g, X, g[x])
<1>1. g[x] \in X OBVIOUS
<1>2. T \in SUBSET X BY DEF Orbit
<1>3. ASSUME NEW y \in T PROVE g[y] \in T
  <2>1. CASE y = x BY <1>1, <2>1, OrbitStart
  <2>2. CASE y \in Orbit(g, X, g[x]) BY <1>1, <2>2, OrbitStep
  <2> QED BY <2>1, <2>2
<1>4. Orbit(g, X, x) \subseteq T
  <2> HIDE DEF T
  <2>1. x \in T BY DEF T
  <2> QED BY <1>2, <1>3, <2>1, OrbitWithin
<1> QED BY <1>4

\* Where it comes to rest is one state.
LEMMA OrbitRest ==
    ASSUME NEW X, NEW g \in [X -> X], NEW x \in X,
           NEW e \in Orbit(g, X, x), g[e] = e, NEW f \in Orbit(g, X, x), g[f] = f
    PROVE  e = f
<1> DEFINE T == {y \in X : e \in Orbit(g, X, y)}
<1>1. T \in SUBSET X /\ x \in T /\ e \in X /\ f \in X BY DEF Orbit
<1>2. ASSUME NEW y \in T PROVE g[y] \in T
  <2>1. y \in X /\ e \in Orbit(g, X, y) /\ g[y] \in X OBVIOUS
  <2>2. CASE e = y
    <3>1. e \in Orbit(g, X, e) BY <1>1, OrbitStart
    <3> QED BY <2>1, <2>2, <3>1
  <2>3. CASE e # y
    <3>1. e \in Orbit(g, X, g[y]) BY <2>1, <2>3, OrbitFirst
    <3> QED BY <2>1, <3>1
  <2> QED BY <2>2, <2>3
<1>3. f \in T
  <2> HIDE DEF T
  <2> QED BY <1>1, <1>2, OrbitWithin
<1>4. e \in Orbit(g, X, f) BY <1>3
<1>5. {f} \in SUBSET X /\ \A y \in {f} : g[y] \in {f} BY <1>1
<1>6. Orbit(g, X, f) \subseteq {f} BY <1>5, OrbitWithin
<1> QED BY <1>4, <1>6

-----------------------------------------------------------------------------
(* The walk from an entry.                                                 *)

\* The walks that hold what is proved of every walk, and their step as a function.
Begun(c)  == {v \in Walks : GoodWalk(v, c, Addr)}
WalkOn(c) == [v \in Begun(c) |-> IF Walked(v) THEN v ELSE WalkStep(v, c)]

\* The states of the walk of the context.
Way(c) == Orbit(WalkOn(c), Begun(c), Start(c.entry))

\* All addresses enclose a walk.
LEMMA AllEnclose == ASSUME NEW c \in Contexts PROVE Encloses(Addr, c)
BY DEF Encloses, Follows, Contexts

\* A step of a walk leads to a walk, the end of one stays.
LEMMA WalkOnType ==
  ASSUME NEW c \in Contexts
  PROVE  WalkOn(c) \in [Begun(c) -> Begun(c)] /\ Start(c.entry) \in Begun(c)
<1>1. Start(c.entry) \in Begun(c) BY AllEnclose, StartGood DEF Begun
<1>2. ASSUME NEW v \in Begun(c), ~Walked(v) PROVE WalkStep(v, c) \in Begun(c)
  <2>1. GoodWalk(WalkStep(v, c), c, Addr) BY <1>2, AllEnclose, StepGood DEF Begun
  <2> QED BY <2>1 DEF Begun, GoodWalk, Good
<1> QED BY <1>1, <1>2 DEF WalkOn

\* It begins with the entry and goes on.
LEMMA WayStart == ASSUME NEW c \in Contexts PROVE Start(c.entry) \in Way(c)
BY WalkOnType, OrbitStart DEF Way

\* The walk goes on by the steps of the model.
LEMMA WayStep ==
  ASSUME NEW c \in Contexts, NEW v \in Way(c)
  PROVE  v \in Begun(c) /\ (~Walked(v) => WalkStep(v, c) \in Way(c))
<1>1. v \in Begun(c) BY DEF Way, Orbit
<1>2. WalkOn(c)[v] \in Way(c) BY WalkOnType, OrbitStep DEF Way
<1> QED BY <1>1, <1>2 DEF WalkOn

\* A set of walks that has the start and is closed under the steps has them all.
LEMMA WayWithin ==
  ASSUME NEW c \in Contexts, NEW T \in SUBSET Begun(c), Start(c.entry) \in T,
         \A v \in T : ~Walked(v) => WalkStep(v, c) \in T
  PROVE  Way(c) \subseteq T
<1>1. \A v \in T : WalkOn(c)[v] \in T BY DEF WalkOn
<1> QED BY <1>1, OrbitWithin DEF Way

\* It ends in one way.
LEMMA WayEnd ==
  ASSUME NEW c \in Contexts, NEW v \in Way(c), NEW u \in Way(c), Walked(v), Walked(u)
  PROVE  v = u
<1>1. WalkOn(c)[v] = v /\ WalkOn(c)[u] = u BY WayStep DEF WalkOn
<1> QED BY <1>1, WalkOnType, OrbitRest DEF Way

\* The end of the walk is ahead of each of its states: what was stitched stays so.
LEMMA WayStitched ==
  ASSUME NEW c \in Contexts, NEW v \in Way(c), NEW u \in Way(c), Walked(u)
  PROVE  v.stitched \subseteq u.stitched
<1> DEFINE g == WalkOn(c)
           T == {y \in Begun(c) : u \in Orbit(g, Begun(c), y)}
           S == {y \in Begun(c) : v.stitched \subseteq y.stitched}
<1>1. g \in [Begun(c) -> Begun(c)] /\ g[u] = u /\ u \in Begun(c) /\ v \in Begun(c)
  BY WayStep, WalkOnType DEF WalkOn
<1> HIDE DEF g
<1>2. Way(c) \subseteq T
  <2>1. T \in SUBSET Begun(c) OBVIOUS
  <2>2. Start(c.entry) \in T BY WalkOnType DEF Way, g
  <2>3. ASSUME NEW y \in T PROVE g[y] \in T
    <3>1. y \in Begun(c) /\ u \in Orbit(g, Begun(c), y) /\ g[y] \in Begun(c) BY <1>1
    <3>2. CASE u = y BY <1>1, <3>1, <3>2
    <3>3. CASE u # y
      <4>1. u \in Orbit(g, Begun(c), g[y]) BY <1>1, <3>1, <3>3, OrbitFirst
      <4> QED BY <3>1, <4>1
    <3> QED BY <3>2, <3>3
  <2> HIDE DEF T
  <2>4. Orbit(g, Begun(c), Start(c.entry)) \subseteq T BY <2>1, <2>2, <2>3, OrbitWithin
  <2> QED BY <2>4 DEF Way, g
<1>3. u \in Orbit(g, Begun(c), v) BY <1>2
<1>4. Orbit(g, Begun(c), v) \subseteq S
  <2>1. S \in SUBSET Begun(c) /\ v \in S BY <1>1
  <2>2. ASSUME NEW y \in S PROVE g[y] \in S
    <3>1. y \in Begun(c) /\ g[y] \in Begun(c) BY <1>1
    <3>2. ~Walked(y) => y.stitched \subseteq WalkStep(y, c).stitched
      BY <3>1, AllEnclose, StepGood DEF Begun
    <3>3. g[y] = IF Walked(y) THEN y ELSE WalkStep(y, c) BY <3>1 DEF g, WalkOn
    <3>4. y.stitched \subseteq g[y].stitched BY <3>2, <3>3
    <3> QED BY <3>1, <3>4
  <2> HIDE DEF S
  <2> QED BY <2>1, <2>2, OrbitWithin
<1> QED BY <1>3, <1>4

\* Whatever encloses the walk, what was proved of its steps holds.
LEMMA WayGood ==
  ASSUME NEW c \in Contexts, NEW F, Encloses(F, c), NEW v \in Way(c)
  PROVE  GoodWalk(v, c, F) /\ (~Overlap(c.image, F) => Whole(v, c))
<1> DEFINE T == {y \in Begun(c) : GoodWalk(y, c, F) /\ (~Overlap(c.image, F) => Whole(y, c))}
<1>1. T \in SUBSET Begun(c) OBVIOUS
<1>2. Start(c.entry) \in T BY WalkOnType, StartGood
<1>3. ASSUME NEW y \in T, ~Walked(y) PROVE WalkStep(y, c) \in T
  <2>1. WalkStep(y, c) \in Begun(c)
    BY <1>3, WalkOnType DEF WalkOn
  <2> QED BY <1>3, <2>1, StepGood
<1> HIDE DEF T
<1>4. Way(c) \subseteq T BY <1>1, <1>2, <1>3, WayWithin
<1> QED BY <1>4 DEF T

-----------------------------------------------------------------------------
(* A boundary the walk never came to may go.                               *)

\* The contexts differ in units only, and not in those the walk stopped at.
SameBut(c, d) ==
    d.image = c.image /\ d.entry = c.entry /\ d.conts = c.conts /\ d.units \subseteq c.units

\* Without the boundaries it did not stop at, a target is queued as it was;
LEMMA EnqueueControlSame ==
  ASSUME NEW c, NEW d, SameBut(c, d), NEW x \in Walks, NEW t,
         EnqueueControlTarget(x, c, t).stitched \cap (c.units \ d.units) = {}
  PROVE  EnqueueControlTarget(x, c, t) = EnqueueControlTarget(x, d, t)
<1>1. CASE t # c.entry /\ t \in c.units
  <2>1. EnqueueControlTarget(x, c, t) = [x EXCEPT !.stitched = @ \cup {t}]
    BY <1>1 DEF EnqueueControlTarget
  <2>2. t \in EnqueueControlTarget(x, c, t).stitched BY <2>1 DEF Walks
  <2>3. t \in d.units /\ d.entry = c.entry BY <1>1, <2>2 DEF SameBut
  <2> QED BY <1>1, <2>1, <2>3 DEF EnqueueControlTarget
<1>2. CASE ~(t # c.entry /\ t \in c.units)
  <2>1. ~(t # d.entry /\ t \in d.units) BY <1>2 DEF SameBut
  <2> QED BY <1>2, <2>1 DEF EnqueueControlTarget
<1> QED BY <1>1, <1>2

\* the other parts of the walker do not look at these boundaries.
LEMMA RestSame ==
  ASSUME NEW c, NEW d, SameBut(c, d), NEW x, NEW a
  PROVE  /\ NextPc(c, a) = NextPc(d, a)
         /\ EnqueueNextPc(x, c, a) = EnqueueNextPc(x, d, a)
         /\ \A t : ValidateBranchTarget(x, c, a, t) = ValidateBranchTarget(x, d, a, t)
         /\ \A t, u : ValidateBoth(x, c, a, t, u) = ValidateBoth(x, d, a, t, u)
         /\ DecodeInstruction(x, c, a) = DecodeInstruction(x, d, a)
<1>0. c.image = d.image /\ c.entry = d.entry /\ c.conts = d.conts BY Zenon DEF SameBut
<1>1. \A b : NextPc(c, b) = NextPc(d, b) BY <1>0, Zenon DEF NextPc
<1>2. EnqueueNextPc(x, c, a) = EnqueueNextPc(x, d, a)
  <2>1. PICK n : n = NextPc(c, a) /\ n = NextPc(d, a) BY <1>1
  <2>2. EnqueueNextPc(x, c, a) =
          IF n # c.entry /\ n \in c.conts THEN [x EXCEPT !.edges = @ \cup {<<a, n>>}]
          ELSE [x EXCEPT !.nexts = @ \cup {n}, !.queue = Append(@, n)]
    BY <2>1, Zenon DEF EnqueueNextPc
  <2>3. EnqueueNextPc(x, d, a) =
          IF n # d.entry /\ n \in d.conts THEN [x EXCEPT !.edges = @ \cup {<<a, n>>}]
          ELSE [x EXCEPT !.nexts = @ \cup {n}, !.queue = Append(@, n)]
    BY <2>1, Zenon DEF EnqueueNextPc
  <2> QED BY <1>0, <2>2, <2>3
<1>3. \A y, t : MidInstruction(y, c, t) <=> MidInstruction(y, d, t)
  BY <1>1, Zenon DEF MidInstruction
<1>4. ASSUME NEW y, NEW t PROVE ValidateBranchTarget(y, c, a, t) = ValidateBranchTarget(y, d, a, t)
  BY <1>3, SMT DEF ValidateBranchTarget
<1>5. \A t, u : ValidateBoth(x, c, a, t, u) = ValidateBoth(x, d, a, t, u)
  BY <1>4, SMT DEF ValidateBoth
<1>6. Decodes(c, a) <=> Decodes(d, a)
  BY <1>0, <1>1, Zenon DEF Decodes
<1>10. DecodeIssue(c, a) = DecodeIssue(d, a)
  BY <1>0, SMT DEF DecodeIssue
<1>7. CeilingTrip(x, c, a) = CeilingTrip(x, d, a) 
  <2>1. CASE Decodes(c, a) BY <1>6, <2>1, Zenon DEF CeilingTrip
  <2>2. CASE ~Decodes(c, a) BY <1>6, <2>2, Zenon DEF CeilingTrip
  <2> QED BY <2>1, <2>2
<1>8. InsideOf(x, c, a) = InsideOf(x, d, a) BY <1>1, SMT DEF InsideOf
<1>9. DecodeInstruction(x, c, a) = DecodeInstruction(x, d, a)
  BY <1>0, <1>6, <1>7, <1>8, <1>10, SMT DEF DecodeInstruction
<1> QED BY <1>1, <1>2, <1>4, <1>5, <1>9, Zenon

\* The successors of an instruction, without the boundaries it did not stop at.
LEMMA FollowSameToo ==
  ASSUME NEW c \in Contexts, NEW d, SameBut(c, d), NEW x \in Walks, NEW a \in Addr,
         Clean(c.image, a), c.image[a].kind \notin {"jmpa", "jsra"},
         FollowInstruction(x, c, a).stitched \cap (c.units \ d.units) = {}
  PROVE  FollowInstruction(x, c, a) = FollowInstruction(x, d, a)
<1> DEFINE k == c.image[a].kind
           t == c.image[a].target
           n == NextPc(c, a)
<1>0. /\ c.image = d.image /\ n = NextPc(d, a)
      /\ \A y : EnqueueNextPc(y, c, a) = EnqueueNextPc(y, d, a)
      /\ \A u : ValidateBranchTarget(x, c, a, u) = ValidateBranchTarget(x, d, a, u)
      /\ \A u, s : ValidateBoth(x, c, a, u, s) = ValidateBoth(x, d, a, u, s)
  BY RestSame DEF SameBut
<1>1. k \in Kinds \ {"illegal", "unsupported", "operand", "jmpa", "jsra"}
  BY ContextFields DEF Clean, Decodable
<1>2. t \in Places /\ n \in Places BY ContextFields, LeadsArePlaces
<1>3. CASE k \in {"bcc", "bne"}
  <2> DEFINE v == IF k = "bcc" THEN ValidateBoth(x, c, a, t, n) ELSE ValidateBoth(x, c, a, n, t)
             e == [v EXCEPT !.edges = @ \cup {<<a, n>>, <<a, t>>}]
             g == EnqueueNextPc(e, c, a)
  <2>1. FollowInstruction(x, c, a) = IF Failed(v, x) THEN v ELSE EnqueueControlTarget(g, c, t)
    BY <1>3 DEF FollowInstruction, Conditional
  <2>2. FollowInstruction(x, d, a) = IF Failed(v, x) THEN v ELSE EnqueueControlTarget(g, d, t)
    <3>1. FollowInstruction(x, d, a) = Conditional(x, d, a, v)
      BY <1>0, <1>3 DEF FollowInstruction
    <3> HIDE DEF v
    <3>2. g = EnqueueNextPc([v EXCEPT !.edges = @ \cup {<<a, NextPc(d, a)>>, <<a, t>>}], d, a)
      BY <1>0
    <3> HIDE DEF g, n, e
    <3>3. t = d.image[a].target BY <1>0
    <3> HIDE DEF t
    <3> QED BY <3>1, <3>2, <3>3 DEF Conditional
  <2>3. t \in Leads(c.image, a) /\ n \in Leads(c.image, a)
    BY <1>3, ContextFields DEF Leads, Targets
  <2>4. Follow(x, v, c, a)
    <3>1. CASE k = "bcc" BY <1>2, <2>3, <3>1, ValidateBothFollows
    <3>2. CASE k = "bne"
      <4>1. v = ValidateBoth(x, c, a, n, t) BY <3>2
      <4> HIDE DEF t, n, v
      <4> QED BY <1>2, <2>3, <4>1, ValidateBothFollows
    <3> QED BY <1>3, <3>1, <3>2
  <2> HIDE DEF v, t, n, k
  <2>5. v \in Walks BY <2>4, FollowType
  <2>6. v.edges \cup {<<a, n>>, <<a, t>>} \in SUBSET (Addr \X Places) BY <1>2, <2>5 DEF Walks
  <2>7. e \in Walks BY <2>5, <2>6, EdgesFollow, FollowType
  <2> HIDE DEF e
  <2>8. g \in Walks BY <1>2, <2>3, <2>7, NextFollows, FollowType DEF n
  <2> HIDE DEF g
  <2>9. CASE Failed(v, x) BY <2>1, <2>2, <2>9
  <2>10. CASE ~Failed(v, x)
    <3>1. FollowInstruction(x, c, a) = EnqueueControlTarget(g, c, t) BY <2>1, <2>10
    <3>2. FollowInstruction(x, d, a) = EnqueueControlTarget(g, d, t) BY <2>2, <2>10
    <3> QED BY <2>8, <3>1, <3>2, EnqueueControlSame
  <2> QED BY <2>9, <2>10
<1>4. CASE k = "bra"
  <2> DEFINE v == ValidateBranchTarget(x, c, a, t)
             e == [v EXCEPT !.edges = @ \cup {<<a, t>>}]
  <2>1. FollowInstruction(x, c, a) = IF Failed(v, x) THEN v ELSE EnqueueControlTarget(e, c, t)
    BY <1>4 DEF FollowInstruction, Unconditional
  <2>2. FollowInstruction(x, d, a) = IF Failed(v, x) THEN v ELSE EnqueueControlTarget(e, d, t)
    <3>1. t = d.image[a].target /\ v = ValidateBranchTarget(x, d, a, t) BY <1>0
    <3>2. FollowInstruction(x, d, a) = Unconditional(x, d, a) BY <1>0, <1>4 DEF FollowInstruction
    <3> HIDE DEF v, t
    <3> QED BY <3>1, <3>2 DEF Unconditional
  <2>3. t \in Leads(c.image, a) BY <1>4 DEF Leads, Targets
  <2>4. Follow(x, v, c, a) BY <1>2, <2>3, ValidateFollows
  <2> HIDE DEF v, t, k
  <2>5. v \in Walks BY <2>4, FollowType
  <2>6. v.edges \cup {<<a, t>>} \in SUBSET (Addr \X Places) BY <1>2, <2>5 DEF Walks
  <2>7. e \in Walks BY <2>5, <2>6, EdgesFollow, FollowType
  <2> HIDE DEF e
  <2>9. CASE Failed(v, x) BY <2>1, <2>2, <2>9
  <2>10. CASE ~Failed(v, x)
    <3>1. FollowInstruction(x, c, a) = EnqueueControlTarget(e, c, t) BY <2>1, <2>10
    <3>2. FollowInstruction(x, d, a) = EnqueueControlTarget(e, d, t) BY <2>2, <2>10
    <3> QED BY <2>7, <3>1, <3>2, EnqueueControlSame
  <2> QED BY <2>9, <2>10
<1>5. CASE k \in {"jmp", "jsr"}
  <2> DEFINE e == [x EXCEPT !.edges = @ \cup {<<a, t>>}]
             h(b) == EnqueueControlTarget(e, b, t)
  <2>1. FollowInstruction(x, c, a) =
          IF t = Nowhere THEN Fail(x, "target", a)
          ELSE IF k = "jsr" THEN EnqueueNextPc(h(c), c, a) ELSE h(c)
    BY <1>5 DEF FollowInstruction, Transfer
  <2>2. FollowInstruction(x, d, a) =
          IF t = Nowhere THEN Fail(x, "target", a)
          ELSE IF k = "jsr" THEN EnqueueNextPc(h(d), d, a) ELSE h(d)
    <3>1. FollowInstruction(x, d, a) = Transfer(x, d, a, k = "jsr")
      BY <1>0, <1>5 DEF FollowInstruction
    <3>2. t = d.image[a].target BY <1>0
    <3> HIDE DEF t, k
    <3> QED BY <3>1, <3>2 DEF Transfer
  <2>3. t \in Leads(c.image, a) /\ (k = "jsr" => n \in Leads(c.image, a))
    BY <1>5, ContextFields DEF Leads, Targets
  <2> HIDE DEF t, n, k
  <2>6. x.edges \cup {<<a, t>>} \in SUBSET (Addr \X Places) BY <1>2 DEF Walks
  <2>7. e \in Walks BY <2>6, EdgesFollow, FollowType
  <2> HIDE DEF e
  <2>8. h(c) \in Walks BY <1>2, <2>3, <2>7, ControlFollows, FollowType
  <2>9. CASE t = Nowhere BY <2>1, <2>2, <2>9
  <2>10. CASE t # Nowhere /\ k = "jsr"
    <3>1. FollowInstruction(x, c, a) = EnqueueNextPc(h(c), c, a) BY <2>1, <2>10
    <3>2. FollowInstruction(x, d, a) = EnqueueNextPc(h(d), d, a) BY <2>2, <2>10
    <3>3. h(c).stitched \subseteq EnqueueNextPc(h(c), c, a).stitched
      BY <1>2, <2>3, <2>8, <2>10, NextFollows DEF n, Follow
    <3>4. h(c).stitched \cap (c.units \ d.units) = {} BY <3>1, <3>3
    <3>5. h(c) = h(d) BY <2>7, <3>4, EnqueueControlSame
    <3> HIDE DEF h
    <3> QED BY <1>0, <3>1, <3>2, <3>5
  <2>11. CASE t # Nowhere /\ k # "jsr"
    <3>1. FollowInstruction(x, c, a) = h(c) BY <2>1, <2>11
    <3>2. FollowInstruction(x, d, a) = h(d) BY <2>2, <2>11
    <3> QED BY <2>7, <3>1, <3>2, EnqueueControlSame
  <2> QED BY <2>9, <2>10, <2>11
<1>6. CASE k = "rts" BY <1>0, <1>6 DEF FollowInstruction
<1>7. CASE k = "plain" BY <1>0, <1>7 DEF FollowInstruction
<1> QED BY <1>1, <1>3, <1>4, <1>5, <1>6, <1>7 DEF Kinds

\* The same of a computed jump,
LEMMA IndirectSame ==
  ASSUME NEW c \in Contexts, NEW d, SameBut(c, d), NEW x \in Walks, NEW a \in Addr,
         Clean(c.image, a), c.image[a].kind \in {"jmpa", "jsra"},
         NEW z, z = IndirectControl(x, c, a, c.image[a].kind = "jsra"),
         z.stitched \cap (c.units \ d.units) = {}
  PROVE  z = IndirectControl(x, d, a, d.image[a].kind = "jsra")
<1> DEFINE t == c.image[a].target
           n == NextPc(c, a)
           isCall == c.image[a].kind = "jsra"
           e == [x EXCEPT !.proven = @ \cup {a}, !.edges = @ \cup {<<a, t>>}]
           g == IF isCall THEN EnqueueNextPc(e, c, a) ELSE e
           known == c.image[a].needs \in x.cache
<1>0. c.image = d.image /\ \A y : EnqueueNextPc(y, c, a) = EnqueueNextPc(y, d, a)
  BY RestSame DEF SameBut
<1>1. /\ t \in Places /\ n \in Places /\ t \in Leads(c.image, a)
      /\ isCall => n \in Leads(c.image, a)
  BY ContextFields, LeadsArePlaces DEF Leads
<1>2. z = IF ~known /\ ~x.final THEN [x EXCEPT !.deferred = Append(@, a)]
          ELSE IF ~known \/ t = Nowhere
          THEN Fail([x EXCEPT !.unproven = @ \cup {a}], "unresolved", a)
          ELSE EnqueueControlTarget(g, c, t)
  BY DEF IndirectControl
<1>3. IndirectControl(x, d, a, d.image[a].kind = "jsra") =
          IF ~known /\ ~x.final THEN [x EXCEPT !.deferred = Append(@, a)]
          ELSE IF ~known \/ t = Nowhere
          THEN Fail([x EXCEPT !.unproven = @ \cup {a}], "unresolved", a)
          ELSE EnqueueControlTarget(g, d, t)
  <2>1. g = IF isCall THEN EnqueueNextPc(e, d, a) ELSE e BY <1>0
  <2>2. t = d.image[a].target /\ (known <=> d.image[a].needs \in x.cache)
        /\ (isCall <=> d.image[a].kind = "jsra")
    BY <1>0
  <2> HIDE DEF g
  <2> QED BY <2>1, <2>2 DEF IndirectControl
<1> HIDE DEF known, isCall, t, n
<1>4. CASE ~(~known /\ ~x.final) /\ ~(~known \/ t = Nowhere)
  <2>1. z = EnqueueControlTarget(g, c, t) BY <1>2, <1>4
  <2>2. IndirectControl(x, d, a, d.image[a].kind = "jsra") = EnqueueControlTarget(g, d, t)
    BY <1>3, <1>4
  <2>3. x.edges \cup {<<a, t>>} \in SUBSET (Addr \X Places) /\ x.proven \cup {a} \in SUBSET Addr
    BY <1>1 DEF Walks
  <2>4. e \in Walks BY <2>3 DEF Walks
  <2> HIDE DEF e
  <2>5. g \in Walks BY <1>1, <2>4, NextFollows, FollowType DEF n
  <2> HIDE DEF g
  <2> QED BY <2>1, <2>2, <2>5, EnqueueControlSame
<1>5. CASE ~(~(~known /\ ~x.final) /\ ~(~known \/ t = Nowhere))
  BY <1>2, <1>3, <1>5
<1> QED BY <1>4, <1>5

\* of every instruction,
LEMMA InstructionSame ==
  ASSUME NEW c \in Contexts, NEW d, SameBut(c, d), NEW x \in Walks, NEW a \in Addr,
         Clean(c.image, a), FollowInstruction(x, c, a).stitched \cap (c.units \ d.units) = {}
  PROVE  FollowInstruction(x, c, a) = FollowInstruction(x, d, a)
<1>1. CASE c.image[a].kind \notin {"jmpa", "jsra"} BY <1>1, FollowSameToo
<1>2. CASE c.image[a].kind \in {"jmpa", "jsra"}
  <2>1. FollowInstruction(x, c, a) = IndirectControl(x, c, a, c.image[a].kind = "jsra")
    BY <1>2 DEF FollowInstruction
  <2>2. d.image = c.image BY DEF SameBut
  <2>3. FollowInstruction(x, d, a) = IndirectControl(x, d, a, d.image[a].kind = "jsra")
    BY <1>2, <2>2 DEF FollowInstruction
  <2> QED BY <1>2, <2>1, <2>3, IndirectSame
<1> QED BY <1>1, <1>2

\* and of a step of the walk.
LEMMA StepSame ==
  ASSUME NEW c \in Contexts, NEW d, SameBut(c, d), NEW s \in Begun(c), ~Walked(s),
         WalkStep(s, c).stitched \cap (c.units \ d.units) = {}
  PROVE  WalkStep(s, c) = WalkStep(s, d)
<1>0. Good(s, c, Addr) /\ s \in Walks BY DEF Begun, GoodWalk, Good
<1>1. CASE Retries(s)
  <2> DEFINE x == Retaken(s)
             a == Head(s.deferred)
  <2>1. WalkStep(s, c) = IndirectControl(x, c, a, c.image[a].kind = "jsra")
    BY <1>1 DEF WalkStep, Retry, Retaken
  <2>2. WalkStep(s, d) = IndirectControl(x, d, a, d.image[a].kind = "jsra")
    BY <1>1 DEF WalkStep, Retry, Retaken
  <2>3. s.deferred # <<>> BY <1>1 DEF Retries
  <2>4. Good(x, c, Addr) /\ a \in x.kept /\ c.image[a].kind \in {"jmpa", "jsra"}
    BY <1>0, <2>3, RetakenGood
  <2> HIDE DEF x, a
  <2>5. x \in Walks /\ a \in Addr /\ Clean(c.image, a) BY <2>4 DEF Good, Walks
  <2> QED BY <2>1, <2>2, <2>4, <2>5, IndirectSame
<1>2. CASE ~Retries(s)
  <2> DEFINE x == Popped(s)
             a == Head(s.queue)
             y == DecodeInstruction(x, c, a)
  <2>1. s.queue # <<>> BY <1>2 DEF Retries, Walked
  <2>2. /\ WalkStep(s, c) = IF a \in s.visited THEN x ELSE ProcessOne(x, c, a)
        /\ WalkStep(s, d) = IF a \in s.visited THEN x ELSE ProcessOne(x, d, a)
    BY <1>2 DEF WalkStep, Visit, Popped
  <2>3. x \in Walks /\ a \in Places BY <1>0, <2>1, PoppedFields
  <2> HIDE DEF x, a
  <2>4. y = DecodeInstruction(x, d, a) BY RestSame
  <2>5. Decoding(x, y, c, a) BY <2>3, InstructionDecodes
  <2> HIDE DEF y
  <2>6. /\ ProcessOne(x, c, a) = IF Failed(y, x) THEN y ELSE FollowInstruction(y, c, a)
        /\ ProcessOne(x, d, a) = IF Failed(y, x) THEN y ELSE FollowInstruction(y, d, a)
    BY <2>4 DEF ProcessOne, y
  <2>7. CASE a \in s.visited \/ Failed(y, x) BY <2>2, <2>6, <2>7
  <2>8. CASE ~(a \in s.visited \/ Failed(y, x))
    <3>1. CleanAt(c, a) /\ y \in Walks BY <2>5, <2>8 DEF Decoding, NotKept
    <3>2. WalkStep(s, c) = FollowInstruction(y, c, a) BY <2>2, <2>6, <2>8
    <3>3. WalkStep(s, d) = FollowInstruction(y, d, a) BY <2>2, <2>6, <2>8
    <3> QED BY <3>1, <3>2, <3>3, InstructionSame DEF CleanAt
  <2> QED BY <2>7, <2>8
<1> QED BY <1>1, <1>2

\* A whole walk that stopped at none of the boundaries that went is the walk without them.
LEMMA WayTransfer ==
  ASSUME NEW c \in Contexts, NEW d \in Contexts, SameBut(c, d), NEW u \in Way(c), Walked(u),
         u.stitched \cap (c.units \ d.units) = {}
  PROVE  u \in Way(d)
<1> DEFINE T == {v \in Way(c) : v \in Way(d)}
<1>1. T \in SUBSET Begun(c) BY WayStep
<1>2. Start(c.entry) \in T BY WayStart DEF SameBut
<1>3. ASSUME NEW v \in T, ~Walked(v) PROVE WalkStep(v, c) \in T
  <2>1. v \in Way(c) /\ v \in Way(d) OBVIOUS
  <2>2. WalkStep(v, c) \in Way(c) /\ v \in Begun(c) BY <1>3, <2>1, WayStep
  <2>3. WalkStep(v, c).stitched \subseteq u.stitched BY <2>2, WayStitched
  <2>4. WalkStep(v, c).stitched \cap (c.units \ d.units) = {} BY <2>3
  <2>5. WalkStep(v, c) = WalkStep(v, d) BY <1>3, <2>2, <2>4, StepSame
  <2>6. WalkStep(v, d) \in Way(d) BY <1>3, <2>1, WayStep
  <2> QED BY <2>2, <2>5, <2>6
<1> HIDE DEF T
<1>4. Way(c) \subseteq T BY <1>1, <1>2, <1>3, WayWithin
<1> QED BY <1>4 DEF T

-----------------------------------------------------------------------------
(* The state of the discovery.                                             *)

\* Where discover_m68k_general_startup may be.
Phases == {"admission", "synthesis", "merge", "irq", "supersede", "done", "rejected"}

\* The contexts of the walks of a unit in a round of admission, and of a root afterwards.
ProbeContext(c) == Context(image, c, (admitted \ {c}) \cup {Entry}, {})
RootContext(r) == Context(image, r, (admitted \cup ctls \cup {Entry}) \ {r}, conts \ {r})

\* The types of the state.
Types ==
    /\ image \in Images /\ irq \in Handlers /\ prepass \in {irq, Nowhere}
    /\ proposed \in SUBSET (Addr \ {Entry})
    /\ phase \in Phases /\ todo \in SUBSET Addr /\ root \in Addr \cup {Nowhere}
    /\ admitted \in SUBSET proposed /\ deps \in [proposed -> SUBSET proposed]
    /\ conts \in SUBSET Addr /\ ctls \in SUBSET Addr
    /\ found \in SUBSET Addr /\ foundctl \in SUBSET Addr

\* The walk is one from its root within the boundaries of the moment.
Walking == root # Nowhere => w \in Way(C)

\* What admits a unit: its walk decodes the entry and is not cut, and what it stopped
\* at is what the unit depends on.
NotCut(v) == ~ \E i \in Issues(v) : i.category \in {"budget", "fatal"}
Passed(c) ==
    \E v \in Way(ProbeContext(c)) :
       Walked(v) /\ c \in v.cache /\ NotCut(v) /\ v.stitched \cap proposed \subseteq deps[c]

\* The units of which a round of admission has not decided.
Undecided == IF phase = "admission" THEN todo \cup removed \cup {root} ELSE {}

\* The rounds of admission: what is decided is right.
Admitting ==
    /\ phase = "admission" =>
          /\ conts = {} /\ ctls = {}
          /\ todo \subseteq admitted /\ root \in admitted \cup {Nowhere} /\ removed \subseteq admitted
    /\ \A c \in admitted \ Undecided : Passed(c)

\* A root is inspected when the places its walk is cut at are roots, or are to be.
Inspected(r) ==
    \E v \in Way(RootContext(r)) :
       /\ Walked(v) /\ v.contcut \subseteq conts \cup found
       /\ v.ctlcut \subseteq ctls \cup conts \cup admitted \cup foundctl

\* The rounds of synthesis: every root that is not to be walked again is inspected.
Synthesizing ==
    /\ phase # "synthesis" => found = {} /\ foundctl = {}
    /\ phase \notin {"admission", "rejected"} /\ proposed # {} =>
          \A r \in RoundRoots(admitted, conts, ctls)
                     \ (IF phase = "synthesis" THEN todo \cup {root} ELSE {}) : Inspected(r)

-----------------------------------------------------------------------------

\* The entry is an address, and Nowhere is none.
LEMMA EntryIsAddr == Entry \in Addr /\ Nowhere \notin Addr /\ Addr \subseteq Nat
BY SizeAssumption DEF Entry, Addr, Nowhere

\* A context of an image, an address and two sets of addresses, in its fields.
LEMMA ContextTypes ==
  ASSUME NEW m \in [Addr -> Instructions], NEW r \in Addr, NEW U \in SUBSET Addr, NEW V \in SUBSET Addr
  PROVE  Context(m, r, U, V) \in Contexts /\ Context(m, r, U, V).entry = r
         /\ Context(m, r, U, V).units = U /\ Context(m, r, U, V).conts = V
         /\ Context(m, r, U, V).image = m
BY DEF Context, Contexts

\* The contexts of the state are contexts, and C is the one its phase makes it.
LEMMA RootContexts ==
  ASSUME Types
  PROVE  /\ image \in [Addr -> Instructions]
         /\ \A r \in Addr : ProbeContext(r) \in Contexts /\ RootContext(r) \in Contexts
         /\ root \in Addr =>
               /\ C \in Contexts /\ C.entry = root
               /\ phase = "admission" /\ conts = {} => C = ProbeContext(root)
               /\ phase # "admission" => C = RootContext(root)
<1>1. image \in [Addr -> Instructions] BY ImagesAssumption DEF Types
<1>2. Entry \in Addr BY EntryIsAddr
<1>3. admitted \in SUBSET Addr /\ conts \in SUBSET Addr /\ ctls \in SUBSET Addr BY DEF Types
<1>4. ASSUME NEW r \in Addr PROVE ProbeContext(r) \in Contexts /\ RootContext(r) \in Contexts
  BY <1>1, <1>2, <1>3, ContextTypes DEF ProbeContext, RootContext
<1>5. ASSUME root \in Addr
      PROVE  /\ C \in Contexts /\ C.entry = root
             /\ phase = "admission" /\ conts = {} => C = ProbeContext(root)
             /\ phase # "admission" => C = RootContext(root)
  <2>1. Units \in SUBSET Addr /\ Conts \in SUBSET Addr BY <1>2, <1>3 DEF Units, Conts
  <2>2. C \in Contexts /\ C.entry = root BY <1>1, <1>5, <2>1, ContextTypes DEF C
  <2>3. phase = "admission" /\ conts = {} => C = ProbeContext(root)
    BY DEF C, ProbeContext, Units, Conts
  <2>4. phase # "admission" => C = RootContext(root) BY DEF C, RootContext, Units, Conts
  <2> QED BY <2>2, <2>3, <2>4
<1> QED BY <1>1, <1>4, <1>5

\* What a walk of the moment has in it.
LEMMA WalkFields ==
  ASSUME NEW c \in Contexts, NEW v \in Way(c)
  PROVE  /\ v \in Walks /\ Good(v, c, Addr) /\ v.contcut \subseteq Addr /\ v.ctlcut \subseteq Addr
         /\ v.kept \subseteq Addr /\ v.stitched \subseteq Places
BY WayStep DEF Begun, GoodWalk, Good, Walks

-----------------------------------------------------------------------------
(* Init.                                                                   *)

\* The initial state, walks and rounds.
LEMMA DiscoveryStarts == Init => Types /\ Walking /\ Admitting /\ Synthesizing
<1> SUFFICES ASSUME Init PROVE Types /\ Walking /\ Admitting /\ Synthesizing OBVIOUS
<1>1. Types BY EntryIsAddr DEF Init, Types, Phases
<1>2. Walking BY DEF Init, Walking
<1>3. Admitting BY DEF Init, Admitting, Undecided
<1>4. Synthesizing BY DEF Init, Synthesizing
<1> QED BY <1>1, <1>2, <1>3, <1>4

\* The type of the state.
LEMMA StepTypes ==
  ASSUME Types, Walking, Admitting, [Next]_vars
  PROVE  Types'
<1>1. CASE BeginWalk BY <1>1 DEF BeginWalk, Types, program, admission, synthesis
<1>2. CASE VisitNext BY <1>2 DEF VisitNext, Types, program, admission, synthesis
<1>3. CASE ProbeCandidate
  <2>1. phase = "admission" /\ root \in admitted
    BY <1>3 DEF ProbeCandidate, EndWalk, Admitting
  <2>2. deps' \in [proposed -> SUBSET proposed] BY <1>3, <2>1 DEF ProbeCandidate, Types
  <2> QED BY <1>3, <2>2 DEF ProbeCandidate, EndWalk, Types, program, synthesis
<1>4. CASE AdmissionRound
  <2>1. RoundRoots(admitted', conts, ctls) \subseteq Addr /\ Requeued \subseteq Addr
    BY <1>4, EntryIsAddr DEF AdmissionRound, Types, RoundRoots, Requeued
  <2>2. todo' \in SUBSET Addr /\ phase' \in Phases /\ root' = root
    BY <1>4, <2>1 DEF AdmissionRound, NextRound, Types, Phases
  <2> QED BY <1>4, <2>2 DEF AdmissionRound, Types, program, synthesis
<1>5. CASE InspectRoot
  <2>1. root \in Addr BY <1>5 DEF InspectRoot, EndWalk, Types
  <2>2. w.contcut \subseteq Addr /\ w.ctlcut \subseteq Addr
    BY <1>5, <2>1, RootContexts, WalkFields DEF Walking, InspectRoot, EndWalk
  <2> QED BY <1>5, <2>2 DEF InspectRoot, EndWalk, Types, program, admission
<1>6. CASE SynthesisRound
  <2>1. Seeds \subseteq Addr BY EntryIsAddr DEF Seeds, Types
  <2>2. conts' \in SUBSET Addr /\ ctls' \in SUBSET Addr BY <1>6 DEF SynthesisRound, Types
  <2>3. RoundRoots(admitted, conts', ctls') \subseteq Addr
    BY <2>2, EntryIsAddr DEF Types, RoundRoots
  <2>4. todo' \in SUBSET Addr /\ root' = root /\ phase' \in Phases
    BY <1>6, <2>1, <2>3 DEF SynthesisRound, NextRound, walk, Types, Phases
  <2> QED BY <1>6, <2>2, <2>4 DEF SynthesisRound, Types, program, admission
<1>7. CASE MergeSeed BY <1>7 DEF MergeSeed, EndWalk, Types, program, admission, synthesis
<1>8. CASE BeginIrq
  <2>1. HasIrq => irq \in Addr BY HandlerAssumption DEF HasIrq, Types
  <2>2. todo' \in SUBSET Addr /\ root' = root /\ phase' \in Phases
    BY <1>8, <2>1 DEF BeginIrq, NextRound, walk, Types, Phases
  <2> QED BY <1>8, <2>2 DEF BeginIrq, Types, program, admission, synthesis
<1>9. CASE MergeIrq
  BY <1>9 DEF MergeIrq, EndWalk, Types, program, admission, synthesis, Phases
<1>10. CASE Supersede
  BY <1>10 DEF Supersede, Types, program, admission, synthesis, walk, Phases
<1>11. CASE UNCHANGED vars
  BY <1>11 DEF vars, Types, program, walk, admission, synthesis
<1> QED BY <1>1, <1>2, <1>3, <1>4, <1>5, <1>6, <1>7, <1>8, <1>9, <1>10, <1>11 DEF Next

\* The program is what it is.
LEMMA StepProgram ==
  [Next]_vars => image' = image /\ irq' = irq /\ prepass' = prepass /\ proposed' = proposed
BY DEF Next, vars, program, BeginWalk, VisitNext, ProbeCandidate, AdmissionRound, InspectRoot,
       SynthesisRound, MergeSeed, BeginIrq, MergeIrq, Supersede

\* The walk goes on, is begun, or is over.
LEMMA StepWalking ==
  ASSUME Types, Walking, Types', [Next]_vars
  PROVE  Walking'
<1>1. CASE BeginWalk
  <2>1. root' \in Addr /\ w' = Start(root') BY <1>1 DEF BeginWalk, Types
  <2>2. C' \in Contexts /\ C'.entry = root'
    <3>1. Units' \in SUBSET Addr /\ Conts' \in SUBSET Addr
      BY EntryIsAddr DEF Types, Units, Conts
    <3>2. image' \in [Addr -> Instructions] BY ImagesAssumption DEF Types
    <3> QED BY <2>1, <3>1, <3>2, ContextTypes DEF C
  <2>3. ASSUME NEW c, c = C', c \in Contexts, c.entry = root' PROVE w' \in Way(c)
    BY <2>1, <2>3, WayStart
  <2>4. w' \in Way(C') BY <2>2, <2>3
  <2> QED BY <2>4 DEF Walking
<1>2. CASE VisitNext
  <2>1. root \in Addr /\ ~Walked(w) /\ w' = WalkStep(w, C) BY <1>2 DEF VisitNext, Types
  <2>2. w \in Way(C) /\ C \in Contexts BY <1>2, <2>1, RootContexts DEF Walking, VisitNext
  <2>3. w' \in Way(C) BY <2>1, <2>2, WayStep
  <2>4. C' = C
    BY <1>2 DEF VisitNext, program, admission, synthesis, C, Units, Conts
  <2>5. w' \in Way(C') BY <2>3, <2>4
  <2> QED BY <2>5 DEF Walking
<1>3. CASE \/ ProbeCandidate \/ InspectRoot \/ MergeSeed \/ MergeIrq
  <2>1. root' = Nowhere BY <1>3 DEF ProbeCandidate, InspectRoot, MergeSeed, MergeIrq, EndWalk
  <2> QED BY <2>1 DEF Walking
<1>4. CASE \/ AdmissionRound \/ SynthesisRound \/ BeginIrq
  <2>1. root' = Nowhere
    BY <1>4 DEF AdmissionRound, SynthesisRound, BeginIrq, RoundDone, NextRound, walk
  <2> QED BY <2>1 DEF Walking
<1>5. CASE Supersede \/ UNCHANGED vars
  <2>1. C' = C /\ w' = w /\ root' = root
    BY <1>5 DEF Supersede, vars, program, walk, admission, synthesis, C, Units, Conts
  <2>2. root # Nowhere => w' \in Way(C') BY <2>1 DEF Walking
  <2> QED BY <2>1, <2>2 DEF Walking
<1> QED BY <1>1, <1>2, <1>3, <1>4, <1>5 DEF Next

-----------------------------------------------------------------------------
(* Admission.                                                              *)

\* A unit that stopped at no removed one is as it was without them.
LEMMA PassedWithout ==
  ASSUME Types, NEW c \in admitted, Passed(c), removed \subseteq admitted,
         deps[c] \cap removed = {}, NEW U, U = admitted \ removed, c \in U
  PROVE  \E v \in Way(Context(image, c, (U \ {c}) \cup {Entry}, {})) :
            Walked(v) /\ c \in v.cache /\ NotCut(v) /\ v.stitched \cap proposed \subseteq deps[c]
<1> DEFINE d == Context(image, c, (U \ {c}) \cup {Entry}, {})
           e == ProbeContext(c)
<1>1. image \in [Addr -> Instructions] /\ e \in Contexts BY RootContexts DEF Types
<1>2. c \in Addr /\ (U \ {c}) \cup {Entry} \in SUBSET Addr /\ (admitted \ {c}) \cup {Entry} \in SUBSET Addr
  BY EntryIsAddr DEF Types
<1>3. d \in Contexts BY <1>1, <1>2, ContextTypes
<1>4. SameBut(e, d) /\ e.units \ d.units \subseteq removed
  BY DEF SameBut, ProbeContext, Context
<1>5. PICK v \in Way(e) :
        Walked(v) /\ c \in v.cache /\ NotCut(v) /\ v.stitched \cap proposed \subseteq deps[c]
  BY DEF Passed
<1>6. removed \subseteq proposed BY DEF Types
<1>7. v.stitched \cap (e.units \ d.units) = {} BY <1>4, <1>5, <1>6
<1> HIDE DEF d, e
<1>8. v \in Way(d) BY <1>1, <1>3, <1>4, <1>5, <1>7, WayTransfer
<1> QED BY <1>5, <1>8 DEF d

\* A round of admission keeps it that what is decided is right.
LEMMA StepAdmitting ==
  ASSUME Types, Walking, Admitting, [Next]_vars
  PROVE  Admitting'
<1>0. image' = image /\ irq' = irq /\ prepass' = prepass /\ proposed' = proposed BY StepProgram
<1>k. ASSUME admitted' = admitted, NEW c, deps[c]' = deps[c], Passed(c) PROVE Passed(c)'
  <2>1. ProbeContext(c)' = ProbeContext(c) BY <1>0, <1>k DEF ProbeContext
  <2>2. PICK v \in Way(ProbeContext(c)) :
          Walked(v) /\ c \in v.cache /\ NotCut(v) /\ v.stitched \cap proposed \subseteq deps[c]
    BY <1>k DEF Passed
  <2>3. v \in Way(ProbeContext(c)') BY <2>1
  <2> QED BY <1>0, <1>k, <2>2, <2>3 DEF Passed
<1>1. CASE BeginWalk
  <2>1. Undecided \subseteq Undecided' \cup {Nowhere} /\ Nowhere \notin admitted
    BY <1>1, EntryIsAddr DEF BeginWalk, Undecided, admission, Types
  <2>2. admitted' = admitted /\ deps' = deps BY <1>1 DEF BeginWalk, admission
  <2>3. \A c \in admitted' \ Undecided' : Passed(c)' BY <1>k, <2>1, <2>2 DEF Admitting
  <2>4. phase' = "admission" =>
          /\ conts' = {} /\ ctls' = {}
          /\ todo' \subseteq admitted' /\ root' \in admitted' \cup {Nowhere}
          /\ removed' \subseteq admitted'
    BY <1>1 DEF BeginWalk, admission, synthesis, Admitting
  <2> QED BY <2>3, <2>4 DEF Admitting
<1>2. CASE VisitNext
  <2>1. Undecided' = Undecided /\ admitted' = admitted /\ deps' = deps
    BY <1>2 DEF VisitNext, admission, Undecided
  <2>2. \A c \in admitted' \ Undecided' : Passed(c)' BY <1>k, <2>1 DEF Admitting
  <2>3. phase' = "admission" =>
          /\ conts' = {} /\ ctls' = {}
          /\ todo' \subseteq admitted' /\ root' \in admitted' \cup {Nowhere}
          /\ removed' \subseteq admitted'
    BY <1>2 DEF VisitNext, admission, synthesis, Admitting
  <2> QED BY <2>2, <2>3 DEF Admitting
<1>3. CASE ProbeCandidate
  <2>1. phase = "admission" /\ phase' = "admission" /\ root # Nowhere /\ Walked(w) /\ root' = Nowhere
        /\ todo' = todo /\ admitted' = admitted /\ conts' = conts /\ ctls' = ctls
    BY <1>3 DEF ProbeCandidate, EndWalk, synthesis
  <2>2. root \in admitted /\ conts = {} BY <2>1 DEF Admitting
  <2>3. ASSUME NEW c \in admitted \ Undecided' PROVE Passed(c)'
    <3>1. CASE c # root
      <4>1. c \notin Undecided
        BY <1>3, <2>1, <2>3, <3>1 DEF ProbeCandidate, Undecided
      <4>2. deps'[c] = deps[c] BY <1>3, <2>3, <3>1 DEF ProbeCandidate, Types
      <4> QED BY <1>k, <2>1, <2>3, <4>1, <4>2 DEF Admitting
    <3>2. CASE c = root
      <4>1. root \notin removed' BY <2>1, <2>3, <3>2 DEF Undecided
      <4>2. root \in w.cache /\ ~Cut /\ deps' = [deps EXCEPT ![root] = w.stitched \cap proposed]
        BY <1>3, <4>1 DEF ProbeCandidate
      <4>3. deps'[c] = w.stitched \cap proposed BY <2>2, <3>2, <4>2 DEF Types
      <4>4. w \in Way(ProbeContext(c))
        BY <2>1, <2>2, <3>2, RootContexts DEF Walking, Types
      <4>5. NotCut(w) BY <4>2 DEF Cut, NotCut
      <4>6. ProbeContext(c)' = ProbeContext(c) BY <1>0, <2>1 DEF ProbeContext
      <4>7. w \in Way(ProbeContext(c)') BY <4>4, <4>6
      <4> QED BY <1>0, <2>1, <3>2, <4>2, <4>3, <4>5, <4>7 DEF Passed
    <3> QED BY <3>1, <3>2
  <2>4. removed' \subseteq admitted BY <1>3, <2>1, <2>2 DEF ProbeCandidate, Admitting
  <2>5. todo' \subseteq admitted' /\ conts' = {} /\ ctls' = {} BY <2>1 DEF Admitting
  <2> QED BY <2>1, <2>3, <2>4, <2>5 DEF Admitting
<1>4. CASE AdmissionRound
  <2>1. /\ phase = "admission" /\ root = Nowhere /\ todo = {} /\ root' = Nowhere
        /\ admitted' = admitted \ removed /\ removed' = {} /\ deps' = deps
        /\ conts' = conts /\ ctls' = ctls
    BY <1>4 DEF AdmissionRound, RoundDone, NextRound, synthesis
  <2>2. /\ phase' = "admission" => Requeued # {} /\ todo' = Requeued
        /\ phase' # "admission" => Requeued = {}
    BY <1>4 DEF AdmissionRound, NextRound
  <2>3. ASSUME NEW c \in admitted' \ Undecided' PROVE Passed(c)'
    <3>1. c \in admitted \ removed BY <2>1
    <3>2. c \notin Requeued BY <2>2, <2>3 DEF Undecided
    <3>3. deps[c] \cap removed = {} BY <3>1, <3>2 DEF Requeued
    <3>4. c \notin Undecided BY <2>1, <3>1, EntryIsAddr DEF Undecided, Types
    <3>5. Passed(c) /\ removed \subseteq admitted BY <2>1, <3>1, <3>4 DEF Admitting
    <3>6. PICK v \in Way(Context(image, c, (admitted' \ {c}) \cup {Entry}, {})) :
            Walked(v) /\ c \in v.cache /\ NotCut(v) /\ v.stitched \cap proposed \subseteq deps[c]
      BY <2>1, <3>1, <3>3, <3>5, PassedWithout
    <3>7. ProbeContext(c)' = Context(image, c, (admitted' \ {c}) \cup {Entry}, {})
      BY <1>0 DEF ProbeContext
    <3>8. v \in Way(ProbeContext(c)') BY <3>6, <3>7
    <3> QED BY <1>0, <2>1, <3>6, <3>8 DEF Passed
  <2>4. phase' = "admission" =>
          /\ conts' = {} /\ ctls' = {}
          /\ todo' \subseteq admitted' /\ root' \in admitted' \cup {Nowhere}
          /\ removed' \subseteq admitted'
    BY <2>1, <2>2 DEF Requeued, Admitting
  <2> QED BY <2>3, <2>4 DEF Admitting
<1>5. CASE \/ InspectRoot \/ SynthesisRound \/ MergeSeed \/ BeginIrq \/ MergeIrq \/ Supersede
  <2>1. phase # "admission" /\ phase' # "admission" /\ admitted' = admitted /\ deps' = deps
    BY <1>5 DEF InspectRoot, SynthesisRound, MergeSeed, BeginIrq, MergeIrq, Supersede, admission
  <2>2. Undecided = {} /\ Undecided' = {} BY <2>1 DEF Undecided
  <2>3. \A c \in admitted' \ Undecided' : Passed(c)' BY <1>k, <2>1, <2>2 DEF Admitting
  <2> QED BY <2>1, <2>3 DEF Admitting
<1>6. CASE UNCHANGED vars
  <2>1. Undecided' = Undecided /\ admitted' = admitted /\ deps' = deps
    BY <1>6 DEF vars, walk, admission, Undecided
  <2>2. \A c \in admitted' \ Undecided' : Passed(c)' BY <1>k, <2>1 DEF Admitting
  <2> QED BY <1>6, <2>2 DEF Admitting, vars, walk, admission, synthesis
<1> QED BY <1>1, <1>2, <1>3, <1>4, <1>5, <1>6 DEF Next

-----------------------------------------------------------------------------
(* Synthesis.                                                              *)

\* A round of synthesis keeps it that what is inspected is right.
LEMMA StepSynthesizing ==
  ASSUME Types, Walking, Synthesizing, [Next]_vars
  PROVE  Synthesizing'
<1> DEFINE Roots == RoundRoots(admitted, conts, ctls)
           Open == IF phase = "synthesis" THEN todo \cup {root} ELSE {}
<1>0. image' = image /\ irq' = irq /\ prepass' = prepass /\ proposed' = proposed BY StepProgram
<1>n. Nowhere \notin Roots
  BY EntryIsAddr DEF RoundRoots, Types
<1>k. ASSUME admitted' = admitted, conts' = conts, ctls' = ctls,
             found \subseteq found', foundctl \subseteq foundctl', NEW r, Inspected(r)
      PROVE  Inspected(r)'
  <2>1. RootContext(r)' = RootContext(r) BY <1>0, <1>k DEF RootContext
  <2>2. PICK v \in Way(RootContext(r)) :
       /\ Walked(v) /\ v.contcut \subseteq conts \cup found
       /\ v.ctlcut \subseteq ctls \cup conts \cup admitted \cup foundctl
    BY <1>k DEF Inspected
  <2>3. v \in Way(RootContext(r)') BY <2>1, <2>2
  <2> QED BY <1>k, <2>2, <2>3 DEF Inspected
<1>r. ASSUME admitted' = admitted, conts' = conts, ctls' = ctls PROVE Roots' = Roots
  BY <1>0, <1>r DEF RoundRoots
<1>1. CASE BeginWalk
  <2>1. /\ admitted' = admitted /\ conts' = conts /\ ctls' = ctls /\ phase' = phase
        /\ found' = found /\ foundctl' = foundctl
    BY <1>1 DEF BeginWalk, admission, synthesis
  <2>2. Open \subseteq Open' \cup {Nowhere} BY <1>1 DEF BeginWalk
  <2>3. \A r \in Roots' \ Open' : r \in Roots \ Open BY <1>n, <1>r, <2>1, <2>2
  <2> HIDE DEF Roots, Open
  <2>4. phase' \notin {"admission", "rejected"} /\ proposed' # {} =>
          \A r \in Roots' \ Open' : Inspected(r)'
    BY <1>0, <1>k, <2>1, <2>3 DEF Synthesizing, Roots, Open
  <2> QED BY <2>1, <2>4 DEF Synthesizing, Roots, Open
<1>2. CASE VisitNext \/ UNCHANGED vars
  <2>1. /\ admitted' = admitted /\ conts' = conts /\ ctls' = ctls /\ phase' = phase
        /\ found' = found /\ foundctl' = foundctl /\ Open' = Open
    BY <1>2 DEF VisitNext, vars, walk, admission, synthesis
  <2>3. \A r \in Roots' \ Open' : r \in Roots \ Open BY <1>r, <2>1
  <2> HIDE DEF Roots, Open
  <2>4. phase' \notin {"admission", "rejected"} /\ proposed' # {} =>
          \A r \in Roots' \ Open' : Inspected(r)'
    BY <1>0, <1>k, <2>1, <2>3 DEF Synthesizing, Roots, Open
  <2> QED BY <2>1, <2>4 DEF Synthesizing, Roots, Open
<1>3. CASE ProbeCandidate
  <2>1. /\ phase' = "admission" /\ phase = "admission" /\ found' = found /\ foundctl' = foundctl
    BY <1>3 DEF ProbeCandidate, synthesis
  <2> QED BY <2>1 DEF Synthesizing
<1>4. CASE AdmissionRound
  <2>1. /\ phase = "admission" /\ phase' \in {"admission", "synthesis"}
        /\ conts' = conts /\ ctls' = ctls /\ found' = found /\ foundctl' = foundctl
        /\ phase' = "synthesis" => todo' = RoundRoots(admitted', conts, ctls)
    BY <1>4 DEF AdmissionRound, NextRound, synthesis
  <2>2. found' = {} /\ foundctl' = {} BY <2>1 DEF Synthesizing
  <2>3. phase' = "synthesis" => Roots' \subseteq Open'
    BY <1>0, <2>1 DEF RoundRoots
  <2> QED BY <2>1, <2>2, <2>3 DEF Synthesizing
<1>5. CASE InspectRoot
  <2>1. /\ phase = "synthesis" /\ phase' = "synthesis" /\ root # Nowhere /\ Walked(w)
        /\ root' = Nowhere /\ todo' = todo
        /\ admitted' = admitted /\ conts' = conts /\ ctls' = ctls
        /\ found' = found \cup (w.contcut \ conts)
        /\ foundctl' = foundctl \cup (w.ctlcut \ (ctls \cup conts \cup admitted))
    BY <1>5 DEF InspectRoot, EndWalk, admission
  <2>2. ASSUME NEW q, q = root PROVE Inspected(q)'
    <3>1. w \in Way(RootContext(root)) BY <2>1, RootContexts DEF Walking, Types
    <3>2. RootContext(q)' = RootContext(root) BY <1>0, <2>1, <2>2 DEF RootContext
    <3>3. /\ w.contcut \subseteq conts' \cup found'
          /\ w.ctlcut \subseteq ctls' \cup conts' \cup admitted' \cup foundctl'
      BY <2>1
    <3>4. w \in Way(RootContext(q)') BY <3>1, <3>2
    <3> QED BY <2>1, <3>3, <3>4 DEF Inspected
  <2>3. ASSUME NEW r \in Roots' \ Open', proposed' # {} PROVE Inspected(r)'
    <3>1. CASE r = root BY <2>2, <3>1
    <3>2. CASE r # root
      <4>1. r \in Roots \ Open BY <1>r, <2>1, <2>3, <3>2
      <4>2. Inspected(r) BY <1>0, <2>1, <2>3, <4>1 DEF Synthesizing
      <4> QED BY <1>k, <2>1, <4>2
    <3> QED BY <3>1, <3>2
  <2> QED BY <2>1, <2>3 DEF Synthesizing
<1>6. CASE SynthesisRound
  <2>1. /\ phase = "synthesis" /\ root = Nowhere /\ todo = {} /\ found' = {} /\ foundctl' = {}
        /\ admitted' = admitted
    BY <1>6 DEF SynthesisRound, RoundDone, admission
  <2>2. CASE found \cup foundctl = {} /\ phase' = "merge" /\ conts' = conts /\ ctls' = ctls
    <3>1. \A r \in Roots' \ Open' : r \in Roots \ Open BY <1>n, <1>r, <2>1, <2>2
    <3>2. found \subseteq found' /\ foundctl \subseteq foundctl' BY <2>2
    <3> HIDE DEF Roots, Open
    <3>3. proposed' # {} => \A r \in Roots' \ Open' : Inspected(r)'
      BY <1>0, <1>k, <2>1, <2>2, <3>1, <3>2 DEF Synthesizing, Roots, Open
    <3> QED BY <2>1, <3>3 DEF Synthesizing, Roots, Open
  <2>3. CASE phase' = "rejected" BY <2>1, <2>3 DEF Synthesizing
  <2>4. CASE phase' = phase /\ todo' = RoundRoots(admitted, conts', ctls')
    <3>1. Roots' \subseteq Open' BY <1>0, <2>1, <2>4 DEF RoundRoots
    <3> QED BY <2>1, <2>4, <3>1 DEF Synthesizing
  <2> QED BY <1>6, <2>2, <2>3, <2>4 DEF SynthesisRound, NextRound
<1>7. CASE \/ MergeSeed \/ BeginIrq \/ MergeIrq \/ Supersede
  <2>1. /\ admitted' = admitted /\ conts' = conts /\ ctls' = ctls
        /\ found' = found /\ foundctl' = foundctl
        /\ phase \in {"merge", "irq", "supersede"} /\ phase' # "synthesis"
    BY <1>7 DEF MergeSeed, BeginIrq, MergeIrq, Supersede, admission, synthesis
  <2>3. \A r \in Roots' \ Open' : r \in Roots \ Open BY <1>r, <2>1
  <2> HIDE DEF Roots, Open
  <2>4. phase' \notin {"admission", "rejected"} /\ proposed' # {} =>
          \A r \in Roots' \ Open' : Inspected(r)'
    BY <1>0, <1>k, <2>1, <2>3 DEF Synthesizing, Roots, Open
  <2> QED BY <2>1, <2>4 DEF Synthesizing, Roots, Open
<1> QED BY <1>1, <1>2, <1>3, <1>4, <1>5, <1>6, <1>7 DEF Next

-----------------------------------------------------------------------------

\* The seed that is merged is one, and so is the handler.
Merging ==
    /\ phase = "merge" => todo \cup ({root} \ {Nowhere}) \subseteq Seeds /\ root \notin todo
    /\ phase = "irq" => HasIrq /\ todo \cup ({root} \ {Nowhere}) \subseteq {irq}

\* What is merged is a seed, and what follows the seeds is the handler.
LEMMA StepMerging ==
  ASSUME Types, Merging, [Next]_vars
  PROVE  Merging'
<1>0. image' = image /\ irq' = irq /\ prepass' = prepass /\ proposed' = proposed BY StepProgram
<1>1. CASE BeginWalk
  BY <1>0, <1>1 DEF BeginWalk, admission, synthesis, Merging, Seeds, HasIrq
<1>2. CASE VisitNext \/ UNCHANGED vars
  BY <1>0, <1>2 DEF VisitNext, vars, walk, admission, synthesis, Merging, Seeds, HasIrq
<1>3. CASE ProbeCandidate \/ AdmissionRound \/ InspectRoot \/ Supersede
  BY <1>3 DEF ProbeCandidate, AdmissionRound, InspectRoot, Supersede, Merging
<1>4. CASE SynthesisRound
  <2>1. phase' = "merge" =>
           /\ todo' = Seeds /\ root' = Nowhere
           /\ admitted' = admitted /\ conts' = conts /\ ctls' = ctls
    BY <1>4 DEF SynthesisRound, RoundDone, NextRound, admission
  <2>2. phase' # "irq" BY <1>4 DEF SynthesisRound
  <2>3. Nowhere \notin Seeds BY EntryIsAddr DEF Seeds, Types
  <2> QED BY <2>1, <2>2, <2>3 DEF Merging, Seeds
<1>5. CASE MergeSeed
  <2>1. Nowhere \notin Seeds BY EntryIsAddr DEF Seeds, Types
  <2> QED BY <1>5, <2>1 DEF MergeSeed, EndWalk, admission, synthesis, Merging, Seeds
<1>6. CASE BeginIrq
  BY <1>0, <1>6 DEF BeginIrq, RoundDone, NextRound, Merging, HasIrq
<1>7. CASE MergeIrq BY <1>7 DEF MergeIrq, Merging
<1> QED BY <1>1, <1>2, <1>3, <1>4, <1>5, <1>6, <1>7 DEF Next

\* The inductive invariant.
DInv == Types /\ Walking /\ Admitting /\ Synthesizing /\ Merging

\* The walks, the admission and the synthesis are as the inductive invariant says.
LEMMA DInvHolds == Spec => []DInv
<1>1. Init => DInv
  <2> SUFFICES ASSUME Init PROVE Merging BY DiscoveryStarts DEF DInv
  <2> QED BY EntryIsAddr DEF Init, Merging, Seeds
<1>2. DInv /\ [Next]_vars => DInv'
  BY StepTypes, StepWalking, StepAdmitting, StepSynthesizing, StepMerging DEF DInv
<1> QED BY <1>1, <1>2, PTL DEF Spec

\* The invariant says that units complete: a walk has one end, so the walk of a unit ends as
\* the probe that admitted it, and the walk of a root that is merged as the one that was
\* inspected.
LEMMA CompletesFromInv == DInv => UnitCompletes
<1> SUFFICES ASSUME DInv, root # Nowhere, Walked(w)
             PROVE  /\ phase \in {"synthesis", "merge"} /\ conts \cup ctls = {} /\ root \in admitted =>
                          root \in w.cache /\ ~Cut
                    /\ phase \in {"merge", "irq"} /\ proposed # {}
                          /\ root \in RoundRoots(admitted, conts, ctls) =>
                          w.contcut \subseteq conts /\ w.ctlcut \subseteq admitted \cup conts \cup ctls
  BY DEF UnitCompletes
<1>1. root \in Addr /\ C \in Contexts /\ w \in Way(C)
  BY RootContexts DEF DInv, Types, Walking
<1>2. ASSUME phase \in {"synthesis", "merge"}, conts \cup ctls = {}, root \in admitted
      PROVE  root \in w.cache /\ ~Cut
  <2>1. root # Entry BY <1>2 DEF DInv, Types
  <2>2. C = ProbeContext(root)
    BY <1>2, <2>1 DEF C, Units, Conts, ProbeContext
  <2>3. Passed(root) BY <1>2 DEF DInv, Admitting, Undecided
  <2>4. PICK v \in Way(ProbeContext(root)) : Walked(v) /\ root \in v.cache /\ NotCut(v)
    BY <2>3 DEF Passed
  <2>5. v = w BY <1>1, <2>2, <2>4, WayEnd
  <2> QED BY <2>4, <2>5 DEF NotCut, Cut
<1>3. ASSUME phase \in {"merge", "irq"}, proposed # {}, root \in RoundRoots(admitted, conts, ctls)
      PROVE  w.contcut \subseteq conts /\ w.ctlcut \subseteq admitted \cup conts \cup ctls
  <2>1. C = RootContext(root) BY <1>1, <1>3, RootContexts DEF DInv
  <2>2. Inspected(root) /\ found = {} /\ foundctl = {} BY <1>3 DEF DInv, Synthesizing
  <2>3. PICK v \in Way(RootContext(root)) :
       /\ Walked(v) /\ v.contcut \subseteq conts \cup found
       /\ v.ctlcut \subseteq ctls \cup conts \cup admitted \cup foundctl
    BY <2>2 DEF Inspected
  <2>4. v = w BY <1>1, <2>1, <2>3, WayEnd
  <2> QED BY <2>2, <2>3, <2>4
<1> QED BY <1>2, <1>3

-----------------------------------------------------------------------------
(* Merge.                                                                  *)

\* The roots whose results are merged.
MergedSeeds ==
    IF phase = "merge" THEN Seeds \ (todo \cup {root})
    ELSE IF phase \in {"irq", "supersede", "done"} THEN Seeds ELSE {}
MergedRoots ==
    {Seed(a) : a \in MergedSeeds}
      \cup (IF HasIrq /\ phase \in {"supersede", "done"} THEN {IrqRoot} ELSE {})

\* The result has the issue, or another root holds its instruction.
Reported(x) ==
    \/ x \in Range(primary) \cup secondary
    \/ \E h \in held : h[1] # x.root /\ h[2] = x.issue.address

\* What a merged root contributes is what its walk kept, and its issues are reported.
Contributes(r) ==
    \E v \in Way(RootContext(r.at)) :
       /\ Walked(v) /\ \A a \in Addr : <<r, a>> \in held <=> a \in v.kept
       /\ Authoritative(r) => \A i \in Issues(v) : Reported(WithRoot(i, r))

\* What is merged, until the program is rejected.
Results ==
    phase # "rejected" =>
        /\ \A h \in held : h \in MergedRoots \X Addr
        /\ \A r \in MergedRoots : Contributes(r)
        /\ phase \in {"admission", "synthesis"} => secondary = {}
        /\ (\E x \in secondary : Authoritative(x.root)) => primary # <<>>
        /\ primary # <<>> => primary = <<Head(primary)>>

\* There are no results at first.
LEMMA ResultsStart == Init => Results
<1> SUFFICES ASSUME Init PROVE Results OBVIOUS
<1>1. held = {} /\ secondary = {} /\ primary = <<>> /\ root = Nowhere BY DEF Init
<1>2. MergedRoots = {}
  <2>1. phase = "merge" => Seeds \subseteq todo BY DEF Init, Seeds
  <2>2. phase \in {"merge", "admission"} BY DEF Init
  <2> QED BY <2>1, <2>2 DEF MergedRoots, MergedSeeds
<1> QED BY <1>1, <1>2 DEF Results

\* Where nothing is merged the results stay.
LEMMA ResultsKept ==
  ASSUME Results, image' = image, proposed' = proposed, irq' = irq, admitted' = admitted,
         conts' = conts, ctls' = ctls, held' = held, primary' = primary, secondary' = secondary,
         MergedRoots' = MergedRoots,
         phase' = phase \/ (phase # "rejected" /\ phase' \notin {"admission", "synthesis"})
  PROVE  Results'
<1>1. ASSUME NEW r, Contributes(r) PROVE Contributes(r)'
  <2>1. \A x : Reported(x) => Reported(x)' BY DEF Reported
  <2>2. Authoritative(r)' <=> Authoritative(r) BY DEF Authoritative, OnlyProposed
  <2>3. RootContext(r.at)' = RootContext(r.at) BY DEF RootContext
  <2>4. PICK v \in Way(RootContext(r.at)) :
       /\ Walked(v) /\ \A a \in Addr : <<r, a>> \in held <=> a \in v.kept
       /\ Authoritative(r) => \A i \in Issues(v) : Reported(WithRoot(i, r))
    BY <1>1 DEF Contributes
  <2>5. v \in Way(RootContext(r.at)') BY <2>3, <2>4
  <2>6. Authoritative(r)' => \A i \in Issues(v) : Reported(WithRoot(i, r))'
    BY <2>1, <2>2, <2>4
  <2> QED BY <2>4, <2>5, <2>6 DEF Contributes
<1>2. (\E x \in secondary' : Authoritative(x.root)') <=> (\E x \in secondary : Authoritative(x.root))
  BY DEF Authoritative, OnlyProposed
<1>3. CASE phase' = "rejected" BY <1>3 DEF Results
<1>4. CASE phase' # "rejected"
  <2>1. /\ \A h \in held' : h \in MergedRoots' \X Addr
        /\ \A r \in MergedRoots : Contributes(r)
        /\ phase' \in {"admission", "synthesis"} => secondary' = {}
    BY <1>4 DEF Results
  <2>2. \A r \in MergedRoots' : Contributes(r)' BY <1>1, <2>1
  <2>5. primary' # <<>> => primary' = <<Head(primary')>> BY <1>4 DEF Results
  <2>3. (\E x \in secondary' : Authoritative(x.root)') => primary' # <<>> BY <1>2, <1>4 DEF Results
  <2> QED BY <1>4, <2>1, <2>2, <2>3, <2>5 DEF Results
<1> QED BY <1>3, <1>4

\* Sequences of one.
LEMMA OneRange == ASSUME NEW x PROVE Range(<<x>>) = {x} /\ Head(<<x>>) = x /\ <<x>> # <<>>
BY DEF Range

\* The issues of a walk are its first one and the others.
LEMMA IssuesSplit ==
  ASSUME NEW v \in Walks, v.issues # <<>>
  PROVE  Issues(v) = {Head(v.issues)} \cup {v.issues[k] : k \in DOMAIN v.issues \ {1}}
<1> DEFINE s == v.issues
<1>1. s \in Seq(IssueType) BY DEF Walks
<1>2. 1 \in DOMAIN s /\ Head(s) = s[1] BY <1>1
<1>3. Range(s) = {s[k] : k \in DOMAIN s} BY DEF Range
<1> HIDE DEF s
<1>4. {s[k] : k \in DOMAIN s} = {s[1]} \cup {s[k] : k \in DOMAIN s \ {1}} BY <1>2
<1> QED BY <1>2, <1>3, <1>4 DEF Issues, s

\* One root is merged: x is its walk.
LEMMA RootMerged ==
  ASSUME Results, NEW r, r \notin MergedRoots, w \in Walks, Walked(w),
         w \in Way(RootContext(r.at)),
         image' = image, proposed' = proposed, irq' = irq, admitted' = admitted,
         conts' = conts, ctls' = ctls, phase \in {"merge", "irq"}, phase' \in {"merge", "supersede"},
         MergedRoots' \subseteq MergedRoots \cup {r}, r \in MergedRoots',
         MergeRootResult(r),
         \/ Authoritative(r) /\ MergeIssues(r)
         \/ ~Authoritative(r) /\ MergeSecondary(r, Preserved) /\ UNCHANGED primary,
         MergedRoots \subseteq MergedRoots'
  PROVE  Results'
<1>1. held' = held \cup {<<r, a>> : a \in w.kept} BY DEF MergeRootResult
<1>2. /\ Range(primary) \cup secondary \subseteq Range(primary') \cup secondary'
      /\ primary' # <<>> => primary' = <<Head(primary')>>
      /\ Authoritative(r) => \A i \in Issues(w) : WithRoot(i, r) \in Range(primary') \cup secondary'
      /\ (\E x \in secondary' : Authoritative(x.root)) => primary' # <<>>
  <2>0. primary = <<>> => Range(primary) = {} BY NoneIn
  <2>6. (primary # <<>> => primary = <<Head(primary)>>)
        /\ ((\E x \in secondary : Authoritative(x.root)) => primary # <<>>)
    BY DEF Results
  <2>1. CASE Authoritative(r) /\ primary = <<>> /\ w.issues # <<>>
    <3> DEFINE J == {w.issues[k] : k \in DOMAIN w.issues \ {1}}
               f == WithRoot(Head(w.issues), r)
    <3>1. primary' = <<f>> /\ secondary' = secondary \cup {WithRoot(i, r) : i \in J}
      BY <2>1 DEF MergeIssues, MergeSecondary
    <3>2. Issues(w) = {Head(w.issues)} \cup J BY <2>1, IssuesSplit
    <3>3. Range(primary') = {f} /\ primary' # <<>> /\ Head(primary') = f BY <3>1, OneRange
    <3> HIDE DEF J
    <3> QED BY <2>0, <2>1, <3>1, <3>2, <3>3
  <2>2. CASE Authoritative(r) /\ ~(primary = <<>> /\ w.issues # <<>>)
    <3>1. primary' = primary /\ secondary' = secondary \cup {WithRoot(i, r) : i \in Issues(w)}
      BY <2>2 DEF MergeIssues, MergeSecondary
    <3>2. primary = <<>> => Issues(w) = {} BY <2>2, NoneIn DEF Issues
    <3> QED BY <2>6, <3>1, <3>2
  <2>3. CASE ~Authoritative(r)
    <3>1. primary' = primary /\ secondary' = secondary \cup {WithRoot(i, r) : i \in Preserved}
      BY <2>3 DEF MergeSecondary
    <3>2. \A x \in secondary' : Authoritative(x.root) => x \in secondary
      BY <2>3, <3>1 DEF WithRoot
    <3> QED BY <2>3, <2>6, <3>1, <3>2
  <2> QED BY <2>1, <2>2, <2>3
<1>3. \A x : Authoritative(x)' <=> Authoritative(x) BY DEF Authoritative, OnlyProposed
<1>4. \A x : Reported(x) => Reported(x)' BY <1>1, <1>2 DEF Reported
<1>5. \A q : RootContext(q)' = RootContext(q) BY DEF RootContext
<1>6. ASSUME NEW q \in MergedRoots PROVE Contributes(q)'
  <2>1. q # r OBVIOUS
  <2>2. PICK v \in Way(RootContext(q.at)) :
       /\ Walked(v) /\ \A a \in Addr : <<q, a>> \in held <=> a \in v.kept
       /\ Authoritative(q) => \A i \in Issues(v) : Reported(WithRoot(i, q))
    BY DEF Contributes, Results
  <2>3. \A a \in Addr : <<q, a>> \in held' <=> a \in v.kept BY <1>1, <2>1, <2>2
  <2>4. Authoritative(q)' => \A i \in Issues(v) : Reported(WithRoot(i, q))' BY <1>3, <1>4, <2>2
  <2>5. v \in Way(RootContext(q.at)') BY <1>5, <2>2
  <2> QED BY <2>2, <2>3, <2>4, <2>5 DEF Contributes
<1>7. ASSUME NEW q, q = r PROVE Contributes(q)'
  <2>1. \A a : <<q, a>> \notin held
    <3>1. \A h \in held : h \in MergedRoots \X Addr BY DEF Results
    <3> QED BY <1>7, <3>1
  <2>2. \A a \in Addr : <<q, a>> \in held' <=> a \in w.kept BY <1>1, <1>7, <2>1
  <2>3. Authoritative(q) => \A i \in Issues(w) : Reported(WithRoot(i, q))'
    BY <1>2, <1>7 DEF Reported
  <2>4. Authoritative(q)' => \A i \in Issues(w) : Reported(WithRoot(i, q))' BY <1>3, <2>3
  <2>5. w \in Way(RootContext(q.at)') BY <1>5, <1>7
  <2>6. PICK v \in Way(RootContext(q.at)') : v = w BY <2>5
  <2>7. \A i \in Issues(v) : Authoritative(q)' => Reported(WithRoot(i, q))' BY <2>4, <2>6
  <2> QED BY <2>2, <2>6, <2>7 DEF Contributes
<1>8. \A q \in MergedRoots' : Contributes(q)' BY <1>6, <1>7
<1>9. \A h \in held' : h \in MergedRoots' \X Addr
  <2>1. w.kept \subseteq Addr BY DEF Walks
  <2>2. \A h \in held : h \in MergedRoots \X Addr BY DEF Results
  <2> QED BY <1>1, <2>1, <2>2
<1>10. (\E x \in secondary' : Authoritative(x.root)') => primary' # <<>> BY <1>2, <1>3
<1> QED BY <1>2, <1>8, <1>9, <1>10 DEF Results

\* What is superseded is held by another root; all else stays in the result.
LEMMA SupersedeKeeps ==
  ASSUME Results, Supersede
  PROVE  /\ \A x : Reported(x) => Reported(x)'
         /\ secondary' \subseteq secondary
         /\ (\E x \in secondary' : Authoritative(x.root)) => primary' # <<>>
         /\ primary' # <<>> => primary' = <<Head(primary')>>
<1>0. /\ held' = held
      /\ primary # <<>> => primary = <<Head(primary)>>
      /\ (\E x \in secondary : Authoritative(x.root)) => primary # <<>>
  BY DEF Supersede, Results
<1> DEFINE rest == {i \in secondary : ~Superseded(i)}
<1>1. PICK able \in SUBSET rest :
        IF primary # <<>> /\ Superseded(Head(primary)) /\ (rest = {} \/ able # {})
        THEN \/ rest = {} /\ primary' = <<>> /\ secondary' = {}
             \/ \E i \in able : primary' = <<i>> /\ secondary' = rest \ {i}
        ELSE secondary' = rest /\ UNCHANGED primary
  BY DEF Supersede
<1>2. ASSUME NEW x, Superseded(x) PROVE Reported(x)'
  BY <1>0, <1>2 DEF Superseded, Reported
<1>e. Range(<<>>) = {} BY NoneIn
<1>3. ASSUME NEW x \in Range(primary) \cup secondary, ~Superseded(x)
      PROVE  x \in Range(primary') \cup secondary'
  <2>1. CASE x \in secondary
    <3>1. x \in rest BY <1>3, <2>1
    <3> HIDE DEF rest
    <3>2. CASE primary' = <<>> /\ rest = {} BY <3>1, <3>2
    <3>3. ASSUME NEW i, primary' = <<i>>, secondary' = rest \ {i}
          PROVE  x \in Range(primary') \cup secondary'
      <4>1. Range(primary') = {i} BY <3>3, OneRange
      <4> QED BY <3>1, <3>3, <4>1
    <3>4. CASE secondary' = rest BY <3>1, <3>4
    <3> QED BY <1>1, <3>1, <3>2, <3>3, <3>4
  <2>2. CASE x \in Range(primary)
    <3>1. primary # <<>> BY <1>e, <2>2
    <3>2. Range(primary) = {Head(primary)}
      <4>1. PICK y : y = Head(primary) OBVIOUS
      <4>2. primary = <<y>> BY <1>0, <3>1, <4>1
      <4>3. Range(<<y>>) = {y} BY OneRange
      <4> QED BY <4>1, <4>2, <4>3
    <3>3. ~Superseded(Head(primary)) BY <1>3, <2>2, <3>2
    <3>4. primary' = primary BY <1>1, <3>3
    <3> QED BY <2>2, <3>4
  <2> QED BY <1>3, <2>1, <2>2
<1>4. \A x : Reported(x) => Reported(x)'
  <2> SUFFICES ASSUME NEW x, Reported(x) PROVE Reported(x)' OBVIOUS
  <2>1. CASE Superseded(x) BY <1>2, <2>1
  <2>2. CASE ~Superseded(x) /\ x \in Range(primary) \cup secondary
    BY <1>3, <2>2 DEF Reported
  <2>3. CASE \E h \in held : h[1] # x.root /\ h[2] = x.issue.address
    BY <1>0, <2>3 DEF Reported
  <2> QED BY <2>1, <2>2, <2>3 DEF Reported
<1>5. secondary' \subseteq secondary BY <1>1
<1>6. (\E x \in secondary' : Authoritative(x.root)) => primary' # <<>>
  <2>1. \A i : primary' = <<i>> => primary' # <<>> BY OneRange
  <2> HIDE DEF rest
  <2> QED BY <1>0, <1>1, <1>5, <2>1
<1>7. primary' # <<>> => primary' = <<Head(primary')>>
  <2>1. \A i : primary' = <<i>> => primary' = <<Head(primary')>>
    <3> SUFFICES ASSUME NEW i, primary' = <<i>> PROVE primary' = <<Head(primary')>> OBVIOUS
    <3>1. Head(<<i>>) = i BY OneRange
    <3> QED BY <3>1
  <2> HIDE DEF rest
  <2> QED BY <1>0, <1>1, <2>1
<1> QED BY <1>4, <1>5, <1>6, <1>7

\* The results stay what the walks of the merged roots contribute.
LEMMA StepResults ==
  ASSUME DInv, DInv', Results, [Next]_vars
  PROVE  Results'
<1>0. image' = image /\ irq' = irq /\ prepass' = prepass /\ proposed' = proposed BY StepProgram
<1>1. CASE BeginWalk \/ VisitNext \/ UNCHANGED vars
  <2>1. /\ admitted' = admitted /\ conts' = conts /\ ctls' = ctls /\ held' = held
        /\ primary' = primary /\ secondary' = secondary /\ phase' = phase
    BY <1>1 DEF BeginWalk, VisitNext, vars, admission, synthesis, merged
  <2>2. Nowhere \notin Seeds BY EntryIsAddr DEF Seeds, DInv, Types
  <2>3. MergedSeeds' = MergedSeeds
    <3>1. CASE BeginWalk
      <4>1. (todo \cup {root}) \cap Seeds = (todo' \cup {root'}) \cap Seeds
        BY <2>2, <3>1 DEF BeginWalk
      <4>2. Seeds' = Seeds BY <2>1 DEF Seeds
      <4> QED BY <2>1, <4>1, <4>2 DEF MergedSeeds
    <3>2. CASE VisitNext \/ UNCHANGED vars
      <4>1. todo' = todo /\ root' = root BY <3>2 DEF VisitNext, vars, walk
      <4> QED BY <2>1, <4>1 DEF MergedSeeds, Seeds
    <3> QED BY <1>1, <3>1, <3>2
  <2>4. MergedRoots' = MergedRoots
    BY <1>0, <2>1, <2>3 DEF MergedRoots, IrqRoot, HasIrq
  <2> QED BY <1>0, <2>1, <2>4, ResultsKept
<1>2. CASE ProbeCandidate \/ AdmissionRound \/ InspectRoot \/ SynthesisRound
  <2>1. /\ held' = held /\ primary' = primary /\ secondary' = secondary
        /\ phase \in {"admission", "synthesis"} /\ phase' \in {"admission", "synthesis", "merge", "rejected"}
    BY <1>2 DEF ProbeCandidate, AdmissionRound, InspectRoot, SynthesisRound, merged
  <2>2. MergedRoots = {} BY <2>1 DEF MergedRoots, MergedSeeds
  <2>3. held = {} /\ secondary = {} /\ (primary # <<>> => primary = <<Head(primary)>>)
    BY <2>1, <2>2 DEF Results
  <2>4. MergedRoots' = {}
    <3>1. phase' = "merge" => Seeds' \subseteq todo'
      <4>1. phase' = "merge" =>
              /\ todo' = Seeds /\ admitted' = admitted /\ conts' = conts /\ ctls' = ctls
        BY <1>2 DEF ProbeCandidate, AdmissionRound, InspectRoot, SynthesisRound, NextRound, admission
      <4> QED BY <4>1 DEF Seeds
    <3> QED BY <2>1, <3>1 DEF MergedRoots, MergedSeeds
  <2> QED BY <2>1, <2>3, <2>4 DEF Results
<1>3. CASE MergeSeed
  <2> DEFINE r == Seed(root)
  <2>1. /\ phase = "merge" /\ phase' = "merge" /\ root # Nowhere /\ Walked(w) /\ root' = Nowhere
        /\ todo' = todo /\ admitted' = admitted /\ conts' = conts /\ ctls' = ctls
    BY <1>3 DEF MergeSeed, EndWalk, admission, synthesis
  <2>2. root \in Addr /\ root \in Seeds BY <2>1 DEF DInv, Types, Merging
  <2>3. w \in Way(RootContext(root)) /\ RootContext(root) \in Contexts
    BY <2>1, <2>2, RootContexts DEF DInv, Walking
  <2>4. w \in Walks BY <2>3, WalkFields
  <2>5. MergedRoots = {Seed(a) : a \in Seeds \ (todo \cup {root})}
    BY <2>1 DEF MergedRoots, MergedSeeds
  <2>6. MergedRoots' = {Seed(a) : a \in Seeds \ (todo \cup {Nowhere})}
    <3>1. Seeds' = Seeds BY <2>1 DEF Seeds
    <3> QED BY <2>1, <3>1 DEF MergedRoots, MergedSeeds
  <2>7. \A a, b : Seed(a) = Seed(b) => a = b BY DEF Seed
  <2>8. Nowhere \notin Seeds BY EntryIsAddr DEF Seeds, DInv, Types
  <2>9. r \notin MergedRoots /\ MergedRoots \subseteq MergedRoots'
        /\ MergedRoots' \subseteq MergedRoots \cup {r}
    BY <2>5, <2>6, <2>7, <2>8
  <2>10. MergeRootResult(r) BY <1>3, Zenon DEF MergeSeed
  <2>12. \/ Authoritative(r) /\ MergeIssues(r)
         \/ ~Authoritative(r) /\ MergeSecondary(r, Preserved) /\ UNCHANGED primary
    <3>1. CASE OnlyProposed(r)
      <4>1. MergeSecondary(r, Preserved) /\ UNCHANGED primary BY <1>3, <3>1, Zenon DEF MergeSeed
      <4> QED BY <3>1, <4>1, Zenon DEF Authoritative
    <3>2. CASE ~OnlyProposed(r)
      <4>1. MergeIssues(r) BY <1>3, <3>2, Zenon DEF MergeSeed
      <4> QED BY <3>2, <4>1, Zenon DEF Authoritative
    <3> QED BY <3>1, <3>2
  <2>11. r.at = root BY DEF Seed
  <2> HIDE DEF r
  <2>13. r \in MergedRoots'
    <3>1. root \notin todo BY <2>1 DEF DInv, Merging
    <3> QED BY <2>1, <2>2, <2>6, <3>1 DEF r
  <2> QED BY <1>0, <2>1, <2>3, <2>4, <2>9, <2>10, <2>11, <2>12, <2>13, RootMerged
<1>4. CASE BeginIrq
  <2>1. /\ admitted' = admitted /\ conts' = conts /\ ctls' = ctls /\ held' = held
        /\ primary' = primary /\ secondary' = secondary
        /\ phase = "merge" /\ todo = {} /\ root = Nowhere
        /\ IF HasIrq THEN phase' = "irq" ELSE phase' = "supersede"
    BY <1>4 DEF BeginIrq, RoundDone, admission, synthesis, merged
  <2>2. Nowhere \notin Seeds BY EntryIsAddr DEF Seeds, DInv, Types
  <2>3. MergedSeeds' = MergedSeeds BY <2>1, <2>2 DEF MergedSeeds, Seeds
  <2>4. MergedRoots' = MergedRoots
    BY <1>0, <2>1, <2>3 DEF MergedRoots, IrqRoot, HasIrq
  <2> QED BY <1>0, <2>1, <2>4, ResultsKept
<1>5. CASE MergeIrq
  <2> DEFINE r == IrqRoot
  <2>1. CASE phase' = "rejected" BY <2>1 DEF Results
  <2>2. CASE phase' # "rejected"
    <3>1. /\ phase = "irq" /\ phase' = "supersede" /\ root # Nowhere /\ Walked(w)
          /\ admitted' = admitted /\ conts' = conts /\ ctls' = ctls
          /\ MergeRootResult(r) /\ MergeIssues(r)
      BY <1>5, <2>2 DEF MergeIrq, EndWalk, admission, synthesis
    <3>2. root = irq /\ HasIrq /\ root \in Addr BY <3>1 DEF DInv, Types, Merging
    <3>3. w \in Way(RootContext(root)) /\ RootContext(root) \in Contexts
      BY <3>1, <3>2, RootContexts DEF DInv, Walking
    <3>4. w \in Walks BY <3>3, WalkFields
    <3>5. MergedRoots = {Seed(a) : a \in Seeds} BY <3>1 DEF MergedRoots, MergedSeeds
    <3>6. MergedRoots' = {Seed(a) : a \in Seeds} \cup {r}
      BY <1>0, <3>1, <3>2 DEF MergedRoots, MergedSeeds, Seeds, HasIrq, IrqRoot
    <3>7. Authoritative(r) /\ r \notin {Seed(a) : a \in Seeds} /\ r.at = root
      BY <3>2 DEF Authoritative, OnlyProposed, IrqRoot, Seed
    <3> HIDE DEF r
    <3>8. r \notin MergedRoots /\ r \in MergedRoots' /\ MergedRoots \subseteq MergedRoots'
          /\ MergedRoots' \subseteq MergedRoots \cup {r}
      BY <3>5, <3>6, <3>7
    <3> QED BY <1>0, <3>1, <3>3, <3>4, <3>7, <3>8, RootMerged
  <2> QED BY <2>1, <2>2
<1>6. CASE Supersede
  <2>1. /\ admitted' = admitted /\ conts' = conts /\ ctls' = ctls /\ held' = held
        /\ phase = "supersede" /\ phase' = "done"
    BY <1>6 DEF Supersede, admission, synthesis
  <2>2. MergedRoots' = MergedRoots
    BY <1>0, <2>1 DEF MergedRoots, MergedSeeds, Seeds, IrqRoot, HasIrq
  <2>3. /\ \A x : Reported(x) => Reported(x)'
        /\ (\E x \in secondary' : Authoritative(x.root)) => primary' # <<>>
        /\ primary' # <<>> => primary' = <<Head(primary')>>
    BY <1>6, SupersedeKeeps
  <2>4. \A x : Authoritative(x)' <=> Authoritative(x)
    BY <1>0, <2>1 DEF Authoritative, OnlyProposed
  <2>5. ASSUME NEW r, Contributes(r) PROVE Contributes(r)'
    <3>1. RootContext(r.at)' = RootContext(r.at) BY <1>0, <2>1 DEF RootContext
    <3>2. PICK v \in Way(RootContext(r.at)) :
         /\ Walked(v) /\ \A a \in Addr : <<r, a>> \in held <=> a \in v.kept
         /\ Authoritative(r) => \A i \in Issues(v) : Reported(WithRoot(i, r))
      BY <2>5 DEF Contributes
    <3>3. v \in Way(RootContext(r.at)') BY <3>1, <3>2
    <3>4. Authoritative(r)' => \A i \in Issues(v) : Reported(WithRoot(i, r))'
      BY <2>3, <2>4, <3>2
    <3> QED BY <2>1, <3>2, <3>3, <3>4 DEF Contributes
  <2>6. /\ \A h \in held : h \in MergedRoots \X Addr
        /\ \A r \in MergedRoots : Contributes(r)
    BY <2>1 DEF Results
  <2>7. (\E x \in secondary' : Authoritative(x.root)') => primary' # <<>> BY <2>3, <2>4
  <2>8. \A r \in MergedRoots' : Contributes(r)' BY <2>2, <2>5, <2>6
  <2> QED BY <2>1, <2>2, <2>3, <2>6, <2>7, <2>8 DEF Results
<1> QED BY <1>1, <1>2, <1>3, <1>4, <1>5, <1>6 DEF Next

-----------------------------------------------------------------------------
(* What is reached.                                                        *)

\* The closure has the roots, is closed, and is within every such set.
LEMMA ClosureIs ==
  ASSUME NEW roots \in SUBSET Addr, NEW goes, \A b \in Addr : goes[b] \subseteq Addr
  PROVE  /\ Closure(roots, goes) \in SUBSET Addr /\ roots \subseteq Closure(roots, goes)
         /\ \A b \in Closure(roots, goes) : goes[b] \subseteq Closure(roots, goes)
         /\ \A S \in SUBSET Addr :
               roots \subseteq S /\ (\A b \in S : goes[b] \subseteq S) => Closure(roots, goes) \subseteq S
<1> DEFINE K == Closure(roots, goes)
<1>1. K \in SUBSET Addr /\ roots \subseteq K BY DEF Closure
<1>2. ASSUME NEW S \in SUBSET Addr, roots \subseteq S, \A b \in S : goes[b] \subseteq S
      PROVE  K \subseteq S
  BY <1>2, Zenon DEF Closure
<1>3. ASSUME NEW b \in K, NEW t \in goes[b] PROVE t \in K
  <2>1. t \in Addr BY <1>1
  <2>2. ASSUME NEW S \in SUBSET Addr, roots \subseteq S, \A e \in S : goes[e] \subseteq S
        PROVE  t \in S
    <3>1. b \in S BY <1>2, <2>2
    <3> QED BY <2>2, <3>1
  <2> QED BY <2>1, <2>2, Zenon DEF Closure
<1> QED BY <1>1, <1>2, <1>3

\* Instructions lead to addresses, and where a program goes a walk may go.
LEMMA FollowsAreAddr ==
  ASSUME NEW m
  PROVE  \A b \in Addr : Follows(m)[b] \subseteq Addr /\ Goes(m)[b] \subseteq Follows(m)[b]
<1> SUFFICES ASSUME NEW b \in Addr
             PROVE  Follows(m)[b] \subseteq Addr /\ Goes(m)[b] \subseteq Follows(m)[b]
  OBVIOUS
<1>1. Proceeds(m, b) => Clean(m, b) BY DEF Proceeds
<1>2. Targets(m, b) \subseteq Leads(m, b) BY DEF Targets, Leads
<1>3. Follows(m)[b] = IF Clean(m, b) THEN Leads(m, b) \cap Addr ELSE {} BY DEF Follows
<1>4. Goes(m)[b] = IF Proceeds(m, b) THEN Targets(m, b) \cap Addr ELSE {} BY DEF Goes
<1> QED BY <1>1, <1>2, <1>3, <1>4

\* The context of a root after admission.
LEMMA RootContextIs ==
  ASSUME Types, NEW r \in Addr
  PROVE  /\ RootContext(r) \in Contexts /\ RootContext(r).entry = r /\ RootContext(r).image = image
         /\ RootContext(r).units = (admitted \cup ctls \cup {Entry}) \ {r}
         /\ RootContext(r).conts = conts \ {r}
BY RootContexts DEF RootContext, Context

\* A set that is closed under what the instructions lead to encloses the walks of its roots.
LEMMA RootEnclosed ==
  ASSUME Types, NEW r \in Addr, NEW F \in SUBSET Addr, r \in F,
         \A b \in F : Follows(image)[b] \subseteq F
  PROVE  Encloses(F, RootContext(r))
BY RootContextIs DEF Encloses

\* Every root contributes the end of its walk.
LEMMA RootContributes ==
  ASSUME DInv, Results, phase = "done", NEW a \in RoundRoots(admitted, conts, ctls)
  PROVE  \E r \in MergedRoots : r.at = a /\ Contributes(r) /\ (a \in Seeds => r = Seed(a))
<1>1. MergedRoots = {Seed(b) : b \in Seeds} \cup (IF HasIrq THEN {IrqRoot} ELSE {})
      /\ \A r \in MergedRoots : Contributes(r)
  BY DEF MergedRoots, MergedSeeds, Results
<1>2. CASE a \in Seeds
  <2>1. Seed(a) \in MergedRoots /\ Seed(a).at = a BY <1>1, <1>2 DEF Seed
  <2> QED BY <1>1, <2>1
<1>3. CASE a \notin Seeds
  <2>1. a = irq /\ irq \in Addr
    <3>1. a = prepass /\ a \in Addr BY <1>3 DEF RoundRoots, Seeds
    <3> QED BY <3>1, EntryIsAddr DEF DInv, Types
  <2>2. HasIrq BY <2>1, EntryIsAddr DEF HasIrq
  <2>3. IrqRoot \in MergedRoots /\ IrqRoot.at = a BY <1>1, <2>1, <2>2 DEF IrqRoot
  <2> QED BY <1>1, <1>3, <2>3
<1> QED BY <1>2, <1>3

\* The roots and the seeds are addresses.
LEMMA RootsAreAddr == ASSUME Types PROVE RoundRoots(admitted, conts, ctls) \subseteq Addr /\ Seeds \subseteq Addr
BY EntryIsAddr DEF RoundRoots, Seeds, Types

\* What the whole of a finished walk says.
LEMMA Finished ==
  ASSUME Types, NEW r \in Addr, NEW F \in SUBSET Addr, r \in F,
         \A b \in F : Follows(image)[b] \subseteq F,
         NEW v \in Way(RootContext(r)), Walked(v)
  PROVE  /\ Good(v, RootContext(r), F) /\ Entered(v, RootContext(r))
         /\ ~Overlap(image, F) => Whole(v, RootContext(r))
         /\ \A t : Covered(v, RootContext(r), t) =>
               t \in v.visited \/ t \in admitted \cup ctls \cup {Entry} \cup conts
<1> DEFINE c == RootContext(r)
<1>1. Encloses(F, c) /\ c \in Contexts /\ c.image = image BY RootEnclosed, RootContextIs
<1>2. GoodWalk(v, c, F) /\ (~Overlap(c.image, F) => Whole(v, c)) BY <1>1, WayGood
<1>3. v # Start(c.entry)
  <2>1. v.queue = <<>> BY DEF Walked
  <2>2. Start(c.entry).queue = <<c.entry>> BY DEF Start
  <2> QED BY <2>1, <2>2
<1>4. ASSUME NEW t, Covered(v, c, t)
      PROVE  t \in v.visited \/ t \in admitted \cup ctls \cup {Entry} \cup conts
  <2>1. Range(v.queue) = {} BY NoneIn DEF Walked
  <2> QED BY <1>4, <2>1, RootContextIs DEF Covered
<1> QED BY <1>1, <1>2, <1>3, <1>4 DEF GoodWalk

-----------------------------------------------------------------------------

\* The invariants say that the program is covered: the reached instructions that a merged
\* walk keeps are a set that has the origins and is closed under direct control flow.
LEMMA CoversFromInv == DInv /\ Results => CoversProgram
<1> DEFINE F == Closure(Origins, Follows(image))
           R == RoundRoots(admitted, conts, ctls)
           At(a, v, b) == /\ v \in Way(RootContext(a)) /\ Walked(v) /\ b \in v.kept
                          /\ v.contcut \subseteq conts /\ v.ctlcut \subseteq ctls \cup conts \cup admitted
           Home(b) == \E a \in F \cap R : \E v \in Way(RootContext(a)) : At(a, v, b)
           S == {b \in F : Clean(image, b) => Home(b)}
<1> SUFFICES ASSUME DInv, Results, phase = "done", proposed # {}, ~Overlap(image, F)
             PROVE  {a \in Reached : Clean(image, a)} \subseteq Merged
  BY DEF CoversProgram
<1>0. Types BY DEF DInv
<1>1. Origins \in SUBSET Addr /\ Origins \subseteq R BY EntryIsAddr DEF Origins, RoundRoots
<1>2. /\ F \in SUBSET Addr /\ Origins \subseteq F /\ \A b \in F : Follows(image)[b] \subseteq F
  BY <1>1, ClosureIs, FollowsAreAddr
<1>3. R \subseteq Addr BY <1>0, RootsAreAddr
<1> HIDE DEF F
\* Every root has its walk, and the walk is the one that was inspected.
<1>4. ASSUME NEW a \in R
      PROVE  \E v \in Way(RootContext(a)) : \E r \in MergedRoots :
                /\ Walked(v) /\ v.contcut \subseteq conts /\ v.ctlcut \subseteq ctls \cup conts \cup admitted
                /\ \A b \in Addr : <<r, b>> \in held <=> b \in v.kept
  <2>1. PICK r \in MergedRoots : r.at = a /\ Contributes(r) BY RootContributes
  <2>2. PICK v \in Way(RootContext(a)) :
          Walked(v) /\ \A b \in Addr : <<r, b>> \in held <=> b \in v.kept
    BY <2>1 DEF Contributes
  <2>3. Inspected(a) /\ found = {} /\ foundctl = {} BY DEF DInv, Synthesizing
  <2>4. PICK u \in Way(RootContext(a)) :
          /\ Walked(u) /\ u.contcut \subseteq conts \cup found
          /\ u.ctlcut \subseteq ctls \cup conts \cup admitted \cup foundctl
    BY <2>3 DEF Inspected
  <2>5. RootContext(a) \in Contexts BY <1>0, <1>3, RootContextIs
  <2>6. u = v BY <2>2, <2>4, <2>5, WayEnd
  <2> QED BY <2>2, <2>3, <2>4, <2>6
<1>5. ASSUME NEW a \in F \cap R, Clean(image, a) PROVE Home(a)
  <2>1. PICK v \in Way(RootContext(a)) :
          Walked(v) /\ v.contcut \subseteq conts /\ v.ctlcut \subseteq ctls \cup conts \cup admitted
    BY <1>4
  <2>2. Entered(v, RootContext(a)) /\ RootContext(a).entry = a /\ RootContext(a).image = image
    BY <1>0, <1>2, <1>3, <2>1, Finished, RootContextIs
  <2>3. a \in v.kept BY <1>5, <2>2 DEF Entered
  <2>4. At(a, v, a) BY <2>1, <2>3
  <2> QED BY <2>4
<1>6. ASSUME NEW b \in S, NEW t \in Goes(image)[b] PROVE t \in S
  <2>1. b \in F /\ b \in Addr BY <1>2
  <2>2. Proceeds(image, b) /\ t \in Targets(image, b) /\ t \in Addr BY <2>1 DEF Goes
  <2>3. Clean(image, b) BY <2>2 DEF Proceeds
  <2>4. t \in F BY <1>2, <2>1, FollowsAreAddr
  <2>5. PICK a \in F \cap R : \E v \in Way(RootContext(a)) : At(a, v, b) BY <2>3
  <2>6. PICK v \in Way(RootContext(a)) : At(a, v, b) BY <2>5
  <2> DEFINE c == RootContext(a)
  <2>7. /\ Good(v, c, F) /\ Whole(v, c) /\ c.image = image
        /\ Covered(v, c, t) => t \in v.visited \/ t \in admitted \cup ctls \cup {Entry} \cup conts
    BY <1>0, <1>2, <1>3, <2>2, <2>6, Finished, RootContextIs
  <2>8. Covered(v, c, t) BY <2>2, <2>6, <2>7 DEF Whole, Led
  <2>9. admitted \cup ctls \cup {Entry} \cup conts \subseteq R BY DEF RoundRoots
  <2>10. ASSUME Clean(image, t) PROVE Home(t)
    <3>1. CASE t \in R BY <1>5, <2>4, <2>10, <3>1
    <3>2. CASE t \notin R
      <4>1. t \in v.visited BY <2>7, <2>8, <2>9, <3>2
      <4>2. Treated(v, c, t) /\ CleanAt(c, t) BY <2>2, <2>7, <2>10, <4>1 DEF Whole, CleanAt
      <4>3. t \in v.kept BY <2>6, <2>9, <3>2, <4>2 DEF Treated
      <4>4. At(a, v, t) BY <2>6, <4>3
      <4> QED BY <2>5, <4>4
    <3> QED BY <3>1, <3>2
  <2> QED BY <2>4, <2>10
<1>7. Reached \subseteq S
  <2>1. S \in SUBSET Addr BY <1>2
  <2>2. Origins \subseteq S BY <1>1, <1>2, <1>5
  <2>3. \A b \in S : Goes(image)[b] \subseteq S BY <1>6
  <2> HIDE DEF S
  <2>4. \A b \in Addr : Goes(image)[b] \subseteq Addr BY FollowsAreAddr
  <2> QED BY <1>1, <2>1, <2>2, <2>3, <2>4, ClosureIs DEF Reached
<1>8. ASSUME NEW b \in Reached, Clean(image, b) PROVE b \in Merged
  <2>1. b \in F /\ Home(b) /\ b \in Addr BY <1>2, <1>7, <1>8
  <2>2. PICK a \in F \cap R : \E v \in Way(RootContext(a)) : At(a, v, b) BY <2>1
  <2>3. PICK v \in Way(RootContext(a)) : At(a, v, b) BY <2>2
  <2>4. PICK u \in Way(RootContext(a)) : \E r \in MergedRoots :
                /\ Walked(u)
                /\ \A e \in Addr : <<r, e>> \in held <=> e \in u.kept
    BY <1>4, <2>2
  <2>5. u = v BY <1>0, <1>3, <2>3, <2>4, RootContextIs, WayEnd
  <2>6. PICK r : <<r, b>> \in held BY <2>1, <2>3, <2>4, <2>5
  <2> QED BY <2>6 DEF Merged
<1> QED BY <1>8

\* A reported issue is in the result, or another root holds the instruction.
LEMMA ReportedIsKnown ==
  ASSUME Results, phase = "done", NEW q, Authoritative(q), NEW i, Reported(WithRoot(i, q))
  PROVE  \/ i.address \in Stops /\ primary # <<>>
         \/ \E g \in held : g[1] # q /\ g[2] = i.address
<1> DEFINE x == WithRoot(i, q)
<1>1. x.root = q /\ x.issue = i BY DEF WithRoot
<1> HIDE DEF x
<1>2. CASE \E h \in held : h[1] # x.root /\ h[2] = x.issue.address BY <1>1, <1>2
<1>3. CASE x \in Range(primary)
  <2>1. primary # <<>> BY <1>3, NoneIn
  <2>2. PICK k \in DOMAIN primary : primary[k] = x BY <1>3 DEF Range
  <2>3. i.address \in Stops BY <1>1, <2>2 DEF Stops
  <2> QED BY <2>1, <2>3
<1>4. CASE x \in secondary
  <2>1. i.address \in Stops BY <1>1, <1>4 DEF Stops
  <2>2. primary # <<>> BY <1>1, <1>4 DEF Results
  <2> QED BY <2>1, <2>2
<1> QED BY <1>2, <1>3, <1>4 DEF Reported, x

\* The entry of a root is held, is a stop, or is an operand the inventory proposed.
LEMMA RootIsKnown ==
  ASSUME DInv, Results, phase = "done", NEW t \in Seeds
  PROVE  t \in Merged \/ (t \in Stops /\ primary # <<>>)
         \/ (t \in admitted /\ image[t].kind = "operand")
<1>0. Types BY DEF DInv
<1>1. t \in Addr BY <1>0, RootsAreAddr
<1>2. t \in RoundRoots(admitted, conts, ctls) BY DEF Seeds, RoundRoots
<1> DEFINE q == Seed(t)
           c == RootContext(t)
<1>3. q \in MergedRoots /\ q.at = t /\ Contributes(q) BY <1>2, RootContributes
<1>4. PICK v \in Way(RootContext(q.at)) :
       /\ Walked(v) /\ \A a \in Addr : <<q, a>> \in held <=> a \in v.kept
       /\ Authoritative(q) => \A i \in Issues(v) : Reported(WithRoot(i, q))
  BY <1>3 DEF Contributes
<1>5. c \in Contexts /\ c.entry = t /\ c.image = image BY <1>0, <1>1, RootContextIs
<1>6. v \in Way(c) BY <1>3, <1>4
<1>7. Entered(v, c)
  <2>1. \A b \in Addr : Follows(image)[b] \subseteq Addr BY FollowsAreAddr
  <2> QED BY <1>0, <1>1, <1>4, <1>6, <2>1, Finished
<1>8. CASE t \in v.kept
  <2>1. <<q, t>> \in held BY <1>1, <1>4, <1>8
  <2> QED BY <2>1 DEF Merged
<1>9. CASE t \notin v.kept
  <2>1. ~Clean(image, t) /\ Told(v, t) BY <1>5, <1>7, <1>9 DEF Entered
  <2>2. CASE Authoritative(q)
    <3>1. PICK i \in Issues(v) : i.address = t BY <2>1 DEF Told
    <3>2. Reported(WithRoot(i, q)) BY <1>4, <2>2, <3>1
    <3>3. (i.address \in Stops /\ primary # <<>>) \/ \E g \in held : g[1] # q /\ g[2] = i.address
      BY <2>2, <3>2, ReportedIsKnown
    <3> QED BY <3>1, <3>3 DEF Merged
  <2>3. CASE ~Authoritative(q)
    <3>1. t \in proposed \ (conts \cup ctls) BY <2>3 DEF Authoritative, OnlyProposed, Seed
    <3>2. t \in admitted BY <1>0, <3>1 DEF Seeds, Types
    <3>3. Passed(t) BY <3>2 DEF DInv, Admitting, Undecided
    <3>4. PICK p \in Way(ProbeContext(t)) : t \in p.cache BY <3>3 DEF Passed
    <3>5. ProbeContext(t) \in Contexts /\ ProbeContext(t).image = image
      BY <1>0, <1>1, RootContexts DEF ProbeContext, Context
    <3>6. Good(p, ProbeContext(t), Addr) BY <3>4, <3>5, WalkFields
    <3>7. Decodable(image, t) BY <3>4, <3>5, <3>6 DEF Good
    <3>8. image[t].kind = "operand" BY <2>1, <3>7 DEF Clean
    <3> QED BY <3>2, <3>8
  <2> QED BY <2>2, <2>3
<1> QED BY <1>8, <1>9

\* The invariants say that stops are reported: what an authoritative root holds leads to
\* what its walk visited, which is kept or told, or to a root, whose walk decodes it first.
LEMMA StopsFromInv == DInv /\ Results => StopIsReported
<1> SUFFICES ASSUME DInv, Results, phase = "done",
                    NEW h \in held, Authoritative(h[1]), ~Entangled(h[1].at),
                    NEW t \in Targets(image, h[2])
             PROVE  \/ t \in Merged
                    \/ Stops \cap {h[2], t} # {} /\ primary # <<>>
                    \/ HeldTwice(h[2]) /\ ~Proceeds(image, h[2])
                    \/ t \in admitted /\ image[t].kind = "operand"
  BY DEF StopIsReported
<1>0. Types BY DEF DInv
<1> DEFINE r == h[1]
           b == h[2]
           F == Closure({r.at}, Follows(image))
           c == RootContext(r.at)
<1>1. h = <<r, b>> /\ r \in MergedRoots /\ b \in Addr BY DEF Results
<1>2. r.at \in Addr
  <2>1. Seeds \subseteq Addr BY <1>0, RootsAreAddr
  <2>2. MergedRoots = {Seed(a) : a \in Seeds} \cup (IF HasIrq THEN {IrqRoot} ELSE {})
    BY DEF MergedRoots, MergedSeeds
  <2>3. HasIrq => irq \in Addr BY <1>0, HandlerAssumption DEF HasIrq, Types
  <2> QED BY <1>1, <2>1, <2>2, <2>3 DEF Seed, IrqRoot
<1>3. PICK v \in Way(RootContext(r.at)) :
       /\ Walked(v) /\ \A a \in Addr : <<r, a>> \in held <=> a \in v.kept
       /\ Authoritative(r) => \A i \in Issues(v) : Reported(WithRoot(i, r))
  BY <1>1 DEF Results, Contributes
<1>4. b \in v.kept BY <1>1, <1>3
<1>5. F \in SUBSET Addr /\ r.at \in F /\ \A e \in F : Follows(image)[e] \subseteq F
  <2>1. {r.at} \in SUBSET Addr BY <1>2
  <2>2. \A e \in Addr : Follows(image)[e] \subseteq Addr BY FollowsAreAddr
  <2> HIDE DEF r
  <2> QED BY <2>1, <2>2, ClosureIs
<1>6. ~Overlap(image, F) BY DEF Entangled
<1> HIDE DEF F, r, b
<1>7. /\ Good(v, c, F) /\ Whole(v, c) /\ c.image = image
      /\ Covered(v, c, t) => t \in v.visited \/ t \in admitted \cup ctls \cup {Entry} \cup conts
  BY <1>0, <1>2, <1>3, <1>5, <1>6, Finished, RootContextIs
<1>8. Authoritative(r) BY DEF r
<1>9. ASSUME NEW a, Told(v, a)
      PROVE  (a \in Stops /\ primary # <<>>) \/ \E g \in held : g[1] # r /\ g[2] = a
  <2>1. PICK i \in Issues(v) : i.address = a BY <1>9 DEF Told
  <2>2. Reported(WithRoot(i, r)) BY <1>3, <1>8, <2>1
  <2>3. (i.address \in Stops /\ primary # <<>>) \/ \E g \in held : g[1] # r /\ g[2] = i.address
    BY <1>8, <2>2, ReportedIsKnown
  <2> QED BY <2>1, <2>3
<1>10. Led(v, c, b) BY <1>4, <1>7 DEF Whole
<1>11. CASE ~Proceeds(image, b)
  <2>1. Told(v, b) BY <1>7, <1>10, <1>11 DEF Led
  <2>2. CASE b \in Stops /\ primary # <<>> BY <2>2 DEF b
  <2>3. CASE \E g \in held : g[1] # r /\ g[2] = b
    <3>1. HeldTwice(b) BY <1>1, <2>3 DEF HeldTwice
    <3> QED BY <1>11, <3>1 DEF b
  <2> QED BY <1>9, <2>1, <2>2, <2>3
<1>12. CASE Proceeds(image, b)
  <2>1. Covered(v, c, t) BY <1>7, <1>10, <1>12 DEF Led, b
  <2>2. CASE t \in v.visited
    <3>1. t \in v.kept \/ Told(v, t) BY <1>7, <2>2 DEF Whole, Treated
    <3>2. CASE t \in v.kept
      <4>1. t \in Addr BY <1>7, <3>2 DEF Good, Walks
      <4>2. <<r, t>> \in held BY <1>3, <3>2, <4>1
      <4> QED BY <4>2 DEF Merged
    <3>3. CASE Told(v, t)
      <4>1. (t \in Stops /\ primary # <<>>) \/ \E g \in held : g[1] # r /\ g[2] = t
        BY <1>9, <3>3
      <4> QED BY <4>1 DEF Merged
    <3> QED BY <3>1, <3>2, <3>3
  <2>3. CASE t \in admitted \cup ctls \cup {Entry} \cup conts
    <3>1. t \in Seeds BY <2>3 DEF Seeds
    <3> QED BY <3>1, RootIsKnown
  <2> QED BY <1>7, <2>1, <2>2, <2>3
<1> QED BY <1>11, <1>12

-----------------------------------------------------------------------------

\* For every program, every inventory and every limits: an admitted unit stays as complete
\* as the probe that admitted it, and once roots are synthesized the walk of a root that the
\* pre-pass knew, a handler included unless its vector word has a high byte, is cut when it
\* is merged only where the program goes on with a root (the fixed points of
\* discover_m68k_general_startup).
THEOREM UnitsComplete == Spec => []UnitCompletes
BY DInvHolds, CompletesFromInv, PTL

\* What is merged is what the walks of the roots contribute.
LEMMA ResultsHold == Spec => [](DInv /\ Results)
<1>1. Init /\ DInv => Results BY ResultsStart
<1>2. DInv /\ DInv' /\ Results /\ [Next]_vars => Results' BY StepResults
<1> QED BY <1>1, <1>2, ResultsStart, DInvHolds, PTL DEF Spec

\* For every program without overlapping instructions, every inventory and every limits:
\* when the build is accepted, all that direct control flow reaches from the reset entry,
\* and from the handler unless its vector word has a high byte, is in the program
\* (merge_root_result and the rounds before it).
THEOREM ProgramIsCovered == Spec => []CoversProgram
BY ResultsHold, CoversFromInv, PTL

\* For every program, every inventory and every limits: where an instruction of an
\* authoritative root that no overlap disturbs leads out of the program, the result names a
\* stop and has a primary issue (merge_root_result, issue_is_superseded).
THEOREM StopsAreReported == Spec => []StopIsReported
BY ResultsHold, StopsFromInv, PTL
=============================================================================
