---------------------------- MODULE GenesisProofs ----------------------------
(***************************************************************************)
(* What is proved of module Genesis, for all values of its constants.      *)
(*                                                                         *)
(* The first part is about the Z80 alone.  A Z80 that is brought up to the *)
(* clock goes through its orbit under one boundary at a time until it      *)
(* rests: it has reached the clock, or does not run.  A state of an orbit  *)
(* at which it rests is unique, so in whatever pieces genesis_z80_machine_ *)
(* run_to makes the way (segments between INT edges, halted stretches), it *)
(* arrives where single boundaries do (RunToCatchesUp).  And boundaries do *)
(* not depend on where the 68000's clock stands, so it does not matter in  *)
(* how many calls the way is made (CatchUpLater).                          *)
(*                                                                         *)
(* The second part is the inductive invariant, which relates the lines a   *)
(* wait has counted to the horizontal counter and to the last onset, and   *)
(* the third the refinement of module SoundCpu.                            *)
(***************************************************************************)
EXTENDS Genesis, TLAPS, WellFoundedInduction

\* A set of naturals that is not empty has a least element.
LEMMA LeastNat ==
  ASSUME NEW X \in SUBSET Nat, X # {}
  PROVE \E x \in X : \A y \in X : x <= y
<1>1. \A x, y \in Nat : <<y, x>> \in OpToRel(<, Nat) <=> y < x
  BY Zenon DEF OpToRel
<1>2. \E R : IsWellFoundedOn(R, Nat) /\ \A x, y \in Nat : <<y, x>> \in R <=> y < x
  BY <1>1, NatLessThanWellFounded, Zenon
<1>3. PICK R : IsWellFoundedOn(R, Nat) /\ \A x, y \in Nat : <<y, x>> \in R <=> y < x
  BY <1>2
<1>4. \E x \in X : \A y \in X : ~ (<<y, x>> \in R)
  BY <1>3, WFMin
<1>5. PICK x \in X : \A y \in X : ~ (<<y, x>> \in R)
  BY <1>4
<1>6. ASSUME NEW y \in X PROVE x <= y
  <2>1. ~(y < x)
    BY <1>3, <1>5, Zenon
  <2> QED BY <2>1
<1> QED BY <1>6

\* What holds at 0 and from each natural to the next holds up to any bound.
LEMMA Up ==
  ASSUME NEW n \in Nat, NEW T, 0 \in T, \A i \in 0 .. n - 1 : i \in T => i + 1 \in T
  PROVE  \A i \in 0 .. n : i \in T
<1> SUFFICES ASSUME NEW k \in 0 .. n, k \notin T PROVE FALSE
  OBVIOUS
<1> DEFINE M == {i \in 0 .. n : i \notin T}
<1>1. M \in SUBSET Nat /\ M # {} OBVIOUS
<1>2. PICK m \in M : \A j \in M : m <= j BY <1>1, LeastNat
<1>3. m \in 0 .. n /\ m \notin T /\ m # 0 BY <1>2
<1>4. m - 1 \in 0 .. n - 1 /\ m - 1 \notin M BY <1>2, <1>3
<1>5. m - 1 \in T BY <1>4
<1>6. (m - 1) + 1 \in T BY <1>4, <1>5
<1> QED BY <1>3, <1>6

-----------------------------------------------------------------------------
(* Repetition.                                                             *)

\* The states that x leads to when the function g is applied again and again.
Orbit(g, X, x) ==
    {e \in X : \A T \in SUBSET X : x \in T /\ (\A y \in T : g[y] \in T) => e \in T}

\* A state is in its orbit,
LEMMA OrbitStart ==
    ASSUME NEW X, NEW g, NEW x \in X
    PROVE  x \in Orbit(g, X, x)
BY Zenon DEF Orbit

\* the orbit is closed under the function,
LEMMA OrbitStep ==
    ASSUME NEW X, NEW g \in [X -> X], NEW x \in X, NEW e \in Orbit(g, X, x)
    PROVE  g[e] \in Orbit(g, X, x)
<1>1. e \in X /\ g[e] \in X BY DEF Orbit
<1>2. ASSUME NEW T \in SUBSET X, x \in T, \A y \in T : g[y] \in T PROVE g[e] \in T
  <2>1. e \in T BY <1>2, Zenon DEF Orbit
  <2> QED BY <1>2, <2>1
<1> QED BY <1>1, <1>2, Zenon DEF Orbit

\* it is within every such set,
LEMMA OrbitWithin ==
    ASSUME NEW X, NEW g, NEW x, NEW T \in SUBSET X, x \in T, \A y \in T : g[y] \in T
    PROVE  Orbit(g, X, x) \subseteq T
BY Zenon DEF Orbit

\* and the orbit of one of its states is part of it.
LEMMA OrbitTrans ==
    ASSUME NEW X, NEW g \in [X -> X], NEW x \in X, NEW e \in Orbit(g, X, x)
    PROVE  Orbit(g, X, e) \subseteq Orbit(g, X, x)
<1>1. Orbit(g, X, x) \in SUBSET X BY DEF Orbit
<1>2. \A y \in Orbit(g, X, x) : g[y] \in Orbit(g, X, x) BY OrbitStep
<1> QED BY <1>1, <1>2, OrbitWithin

\* A state of the orbit is the first one, or lies in the orbit of what follows it.
LEMMA OrbitFirst ==
    ASSUME NEW X, NEW g \in [X -> X], NEW x \in X, NEW e \in Orbit(g, X, x), e # x
    PROVE  e \in Orbit(g, X, g[x])
<1> DEFINE T == {x} \cup Orbit(g, X, g[x])
<1>1. g[x] \in X OBVIOUS
<1>2. T \in SUBSET X BY DEF Orbit
<1>3. ASSUME NEW y \in T PROVE g[y] \in T
  <2>1. CASE y = x BY <1>1, <2>1, OrbitStart
  <2>2. CASE y \in Orbit(g, X, g[x]) BY <1>1, <2>2, OrbitStep
  <2> QED BY <2>1, <2>2
<1>4. Orbit(g, X, x) \subseteq T
  <2> HIDE DEF T
  <2>1. x \in T BY DEF T
  <2> QED BY <1>2, <1>3, <2>1, OrbitWithin
<1> QED BY <1>4

\* Where it comes to rest is one state.
LEMMA OrbitRest ==
    ASSUME NEW X, NEW g \in [X -> X], NEW x \in X,
           NEW e \in Orbit(g, X, x), g[e] = e, NEW f \in Orbit(g, X, x), g[f] = f
    PROVE  e = f
<1> DEFINE T == {y \in X : e \in Orbit(g, X, y)}
<1>1. T \in SUBSET X /\ x \in T /\ e \in X /\ f \in X BY DEF Orbit
<1>2. ASSUME NEW y \in T PROVE g[y] \in T
  <2>1. y \in X /\ e \in Orbit(g, X, y) /\ g[y] \in X OBVIOUS
  <2>2. CASE e = y
    <3>1. e \in Orbit(g, X, e) BY <1>1, OrbitStart
    <3> QED BY <2>1, <2>2, <3>1
  <2>3. CASE e # y
    <3>1. e \in Orbit(g, X, g[y]) BY <2>1, <2>3, OrbitFirst
    <3> QED BY <2>1, <3>1
  <2> QED BY <2>2, <2>3
<1>3. f \in T
  <2> HIDE DEF T
  <2> QED BY <1>1, <1>2, OrbitWithin
<1>4. e \in Orbit(g, X, f) BY <1>3
<1>5. {f} \in SUBSET X /\ \A y \in {f} : g[y] \in {f} BY <1>1
<1>6. Orbit(g, X, f) \subseteq {f} BY <1>5, OrbitWithin
<1> QED BY <1>4, <1>6

\* The recursive function of Repeat exists.
Iterates(y, g, X, x, n) ==
    y \in [0 .. n -> X] /\ y[0] = x /\ \A i \in 1 .. n : y[i] = g[y[i - 1]]

\* Every number of iterations can be made.
LEMMA IteratesExist ==
    ASSUME NEW X, NEW g \in [X -> X], NEW x \in X, NEW n \in Nat
    PROVE  \E y : Iterates(y, g, X, x, n)
<1> DEFINE T == {m \in 0 .. n : \E y : Iterates(y, g, X, x, m)}
<1>1. 0 \in T
  <2>1. Iterates([i \in 0 .. 0 |-> x], g, X, x, 0) BY DEF Iterates
  <2> QED BY <2>1
<1>2. ASSUME NEW m \in 0 .. n - 1, m \in T PROVE m + 1 \in T
  <2>1. PICK y : Iterates(y, g, X, x, m) BY <1>2
  <2> DEFINE w == [i \in 0 .. m + 1 |-> IF i <= m THEN y[i] ELSE g[y[m]]]
  <2>2. y \in [0 .. m -> X] /\ y[m] \in X /\ g[y[m]] \in X BY <2>1 DEF Iterates
  <2>3. w \in [0 .. m + 1 -> X] /\ w[0] = x BY <2>1, <2>2 DEF Iterates
  <2>4. ASSUME NEW i \in 1 .. m + 1 PROVE w[i] = g[w[i - 1]]
    <3>1. CASE i <= m
      <4>1. i \in 1 .. m /\ i - 1 \in 0 .. m + 1 /\ i - 1 <= m BY <3>1
      <4> QED BY <2>1, <3>1, <4>1 DEF Iterates
    <3>2. CASE i = m + 1
      <4>1. w[i] = g[y[m]] /\ w[i - 1] = y[m] BY <3>2
      <4> QED BY <4>1
    <3> QED BY <3>1, <3>2
  <2>5. Iterates(w, g, X, x, m + 1)
    <3> HIDE DEF w
    <3> QED BY <2>3, <2>4 DEF Iterates
  <2>6. m + 1 \in 0 .. n OBVIOUS
  <2> HIDE DEF w
  <2> QED BY <2>5, <2>6
<1>3. \A i \in 0 .. n : i \in T
  <2> HIDE DEF T
  <2> QED BY <1>1, <1>2, Up
<1>4. n \in T BY <1>3
<1> QED BY <1>4

\* They stay in the orbit.
LEMMA IteratesInOrbit ==
    ASSUME NEW X, NEW g \in [X -> X], NEW x \in X, NEW n \in Nat, NEW y, Iterates(y, g, X, x, n)
    PROVE  y[n] \in Orbit(g, X, x)
<1> DEFINE T == {i \in 0 .. n : y[i] \in Orbit(g, X, x)}
<1>1. 0 \in T BY OrbitStart DEF Iterates
<1>2. ASSUME NEW i \in 0 .. n - 1, i \in T PROVE i + 1 \in T
  <2>1. i + 1 \in 1 .. n /\ (i + 1) - 1 = i OBVIOUS
  <2>2. y[i + 1] = g[y[i]] BY <2>1 DEF Iterates
  <2>3. g[y[i]] \in Orbit(g, X, x) BY <1>2, OrbitStep
  <2> QED BY <2>1, <2>2, <2>3
<1>3. \A i \in 0 .. n : i \in T
  <2> HIDE DEF T
  <2> QED BY <1>1, <1>2, Up
<1> QED BY <1>3

-----------------------------------------------------------------------------
(* Arithmetic.                                                             *)

\* Quotient and remainder of an integer.
LEMMA DivMod ==
    ASSUME NEW m \in Int, NEW d \in Nat \ {0}
    PROVE  \E q \in Int, s \in 0 .. d - 1 : q = m \div d /\ s = m % d /\ m = d * q + s
<1>1. \A e \in Int : e > 0 => m = e * (m \div e) + (m % e) OBVIOUS
<1>2. m \div d \in Int /\ m % d \in 0 .. d - 1 OBVIOUS
<1>3. d \in Int /\ d > 0 OBVIOUS
<1>4. m = d * (m \div d) + (m % d) BY <1>1, <1>3, Zenon
<1> QED BY <1>2, <1>4, Zenon

\* A positive factor keeps the order.
LEMMA TimesMono ==
    ASSUME NEW d \in Nat \ {0}, NEW i \in Int, NEW j \in Int, i <= j
    PROVE  d * i <= d * j
  OBVIOUS

\* There is one quotient and one remainder.
LEMMA DivModUnique ==
    ASSUME NEW m \in Int, NEW d \in Nat \ {0}, NEW q \in Int, NEW s \in 0 .. d - 1, m = d * q + s
    PROVE  m \div d = q /\ m % d = s
<1>1. PICK p \in Int, u \in 0 .. d - 1 : p = m \div d /\ u = m % d /\ m = d * p + u
  BY DivMod
<1>2. PICK x \in Int : x = q - p OBVIOUS
<1>3. d * x = u - s
  <2>1. d * x = d * q - d * p BY <1>2
  <2>2. PICK dq \in Int, dp \in Int : dq = d * q /\ dp = d * p OBVIOUS
  <2>3. m = dq + s /\ m = dp + u BY <1>1, <2>2, Zenon
  <2>4. d * x = dq - dp BY <2>1, <2>2, Zenon
  <2> QED BY <2>3, <2>4
<1>4. ~ (1 <= x) /\ ~ (x <= -1)
  <2>1. d * 1 = d /\ d * (-1) = -d OBVIOUS
  <2> QED BY <1>3, <2>1, TimesMono
<1>5. x = 0 BY <1>4
<1>6. d * 0 = 0 OBVIOUS
<1> QED BY <1>1, <1>2, <1>3, <1>5, <1>6

\* A whole number of periods more does not change a remainder.
LEMMA ModPeriod ==
    ASSUME NEW m \in Int, NEW d \in Nat \ {0}, NEW k \in Int
    PROVE  (m + d * k) % d = m % d
<1>1. PICK q \in Int, s \in 0 .. d - 1 : q = m \div d /\ s = m % d /\ m = d * q + s
  BY DivMod
<1>2. m + d * k = d * (q + k) + s
  <2>1. d * (q + k) = d * q + d * k OBVIOUS
  <2> QED BY <1>1, <2>1
<1>3. m + d * k \in Int /\ q + k \in Int OBVIOUS
<1> QED BY <1>1, <1>2, <1>3, DivModUnique

\* A remainder may be taken early.
LEMMA ModAdd ==
    ASSUME NEW r \in Int, NEW b \in Int, NEW d \in Nat \ {0}
    PROVE  ((r % d) + b) % d = (r + b) % d
<1>1. PICK k \in Int, u \in 0 .. d - 1 : k = r \div d /\ u = r % d /\ r = d * k + u
  BY DivMod
<1>2. r + b = (u + b) + d * k BY <1>1
<1>3. u + b \in Int OBVIOUS
<1>4. ((u + b) + d * k) % d = (u + b) % d BY <1>3, ModPeriod
<1> QED BY <1>1, <1>2, <1>4

\* A quotient rounded up.
LEMMA CeilBounds ==
    ASSUME NEW a \in Nat \ {0}, NEW d \in Nat \ {0}
    PROVE  \E n \in Nat \ {0} : n = (a + d - 1) \div d /\ d * (n - 1) < a /\ a <= d * n
<1>1. PICK m \in Int : m = a + d - 1 OBVIOUS
<1>2. PICK q \in Int, s \in 0 .. d - 1 : q = m \div d /\ m = d * q + s
  BY <1>1, DivMod
<1>3. d * (q - 1) = d * q - d OBVIOUS
<1>4. a <= d * q /\ d * (q - 1) < a BY <1>1, <1>2, <1>3
<1>5. ~ (q <= 0)
  <2>1. d * 0 = 0 OBVIOUS
  <2> QED BY <1>4, <2>1, TimesMono
<1> QED BY <1>1, <1>2, <1>4, <1>5

-----------------------------------------------------------------------------
\* What a repetition arrives at: `R' are the states that go on, `L' is how far they are,
\* each step goes on by `d' at least, and nothing is left to do at `end'.
LEMMA Progress ==
    ASSUME NEW X, NEW g \in [X -> X], NEW x \in X, NEW R \in SUBSET X, NEW L \in [X -> Int],
           NEW d \in Nat \ {0}, NEW end \in Int, L[x] < end,
           \A s \in X : ~ (s \in R /\ L[s] < end) => g[s] = s,
           \A s \in X : s \in R /\ L[s] < end /\ g[s] \in R => L[g[s]] >= L[s] + d,
           NEW n \in Nat, n = (end - L[x] + d - 1) \div d,
           NEW y, Iterates(y, g, X, x, n)
    PROVE  y[n] \in X /\ (y[n] \in R => L[y[n]] >= end /\ L[y[n]] >= L[x] + d)
<1>1. y \in [0 .. n -> X] /\ y[0] = x /\ \A i \in 1 .. n : y[i] = g[y[i - 1]]
  BY DEF Iterates
<1> DEFINE Far(i) == y[i] \in R => /\ L[y[i]] >= end \/ L[y[i]] >= L[x] + d * i
                                   /\ i >= 1 => L[y[i]] >= L[x] + d
           T == {i \in 0 .. n : Far(i)}
<1>2. 0 \in T
  <2>1. d * 0 = 0 /\ L[x] \in Int OBVIOUS
  <2> QED BY <1>1, <2>1
<1>3. ASSUME NEW i \in 0 .. n - 1, i \in T PROVE i + 1 \in T
  <2>1. i + 1 \in 1 .. n /\ (i + 1) - 1 = i /\ i \in 0 .. n OBVIOUS
  <2>2. y[i + 1] = g[y[i]] /\ y[i] \in X /\ y[i + 1] \in X BY <1>1, <2>1
  <2>3. L[y[i]] \in Int /\ L[y[i + 1]] \in Int /\ L[x] \in Int BY <2>2
  <2>4. Far(i) BY <1>3
  <2>5. PICK p \in Int, p1 \in Int : p = d * i /\ p1 = d * (i + 1) /\ p1 = p + d OBVIOUS
  <2>6. Far(i + 1)
    <3> SUFFICES ASSUME y[i + 1] \in R
                 PROVE  /\ L[y[i + 1]] >= end \/ L[y[i + 1]] >= L[x] + p1
                        /\ L[y[i + 1]] >= L[x] + d
      BY <2>5
    <3>1. CASE ~ (y[i] \in R /\ L[y[i]] < end)
      <4>1. y[i + 1] = y[i] BY <2>2, <3>1
      <4>2. y[i] \in R /\ L[y[i]] >= end BY <2>3, <3>1, <4>1
      <4>3. i # 0 BY <1>1, <4>2
      <4> QED BY <2>1, <2>3, <2>4, <4>1, <4>2, <4>3
    <3>2. CASE y[i] \in R /\ L[y[i]] < end
      <4>1. L[y[i + 1]] >= L[y[i]] + d BY <2>2, <3>2
      <4>2. L[y[i]] >= L[x] + p BY <2>3, <2>4, <2>5, <3>2
      <4>3. L[y[i]] >= L[x]
        <5>1. d * 0 = 0 /\ d * 0 <= d * i BY TimesMono
        <5> QED BY <2>3, <2>5, <4>2, <5>1
      <4> QED BY <2>3, <2>5, <4>1, <4>2, <4>3
    <3> QED BY <3>1, <3>2
  <2> QED BY <2>1, <2>6
<1>4. \A i \in 0 .. n : i \in T
  <2> HIDE DEF T
  <2> QED BY <1>2, <1>3, Up
<1>5. Far(n) BY <1>4
<1>6. n >= 1 /\ end - L[x] <= d * n
  <2>1. PICK a \in Nat \ {0} : a = end - L[x] OBVIOUS
  <2>2. PICK m \in Nat \ {0} : m = (a + d - 1) \div d /\ a <= d * m BY CeilBounds
  <2>3. m = n BY <2>1, <2>2
  <2> QED BY <2>1, <2>2, <2>3
<1>7. PICK p \in Int : p = d * n OBVIOUS
<1>8. y[n] \in X /\ L[y[n]] \in Int /\ L[x] \in Int BY <1>1
<1> QED BY <1>5, <1>6, <1>7, <1>8

-----------------------------------------------------------------------------
(* The states of the Z80.                                                  *)

StopCodes == {None, "view", "no_owner", "unknown_image"}
Rams == {r \in [Cells -> Nat] : \A c \in Cells : r[c] \in Contents(c)}
Bindings == {0} \cup DOMAIN Images

ZStates ==
    [profile : Profiles, lead : Int, pc : Code, iff : BOOLEAN, deferral : BOOLEAN,
     halted : BOOLEAN, ram : Rams, bound : Bindings, last : Bindings, fault : BOOLEAN,
     stop : StopCodes]

\* The constants are positive numbers.
LEMMA Constants0 ==
    /\ Divider \in Nat \ {0} /\ LineTicks \in Nat \ {0} /\ Lines \in Nat \ {0}
    /\ OnsetLine \in Nat \ {0} /\ M1 \in Nat \ {0} /\ CodeSize \in Nat \ {0}
    /\ OnsetLine + 1 < Lines /\ Frame % Divider = 0
BY Z80Assumption

\* The cells of the sound RAM.
LEMMA Memory ==
    /\ 0 \in Code /\ Code \subseteq Nat /\ Mailbox \notin Code /\ Mailbox \in Cells
    /\ Code \subseteq Cells
    /\ \A c \in Code : Contents(c) = 0 .. 3
    /\ Contents(Mailbox) = Code
BY Constants0 DEF Code, Mailbox, Cells, Contents, Inc, Bad

\* A cell is written.
LEMMA RamStore ==
    ASSUME NEW r \in Rams, NEW c \in Cells, NEW v \in Contents(c)
    PROVE  [r EXCEPT ![c] = v] \in Rams
<1>1. c \in Code \/ c = Mailbox BY DEF Cells
<1>2. v \in Nat
  <2>1. CASE c \in Code
    <3>1. v \in 0 .. 3 BY <2>1, Memory, Zenon
    <3> QED BY <3>1
  <2>2. CASE c = Mailbox
    <3>1. v \in Code BY <2>2, Memory, Zenon
    <3> QED BY <3>1, Memory
  <2> QED BY <1>1, <2>1, <2>2
<1> QED BY <1>2 DEF Rams

\* The program counter moves on, and so does the time.
LEMMA AfterBy ==
    ASSUME NEW y \in ZStates
    PROVE  /\ After(y, 1) \in ZStates /\ After(y, 1).lead = y.lead + Divider
           /\ After(y, 2) \in ZStates /\ After(y, 2).lead = y.lead + 2 * Divider
           /\ y.lead \in Int
<1>1. y.lead \in Int /\ 1 * Divider = Divider BY Constants0 DEF ZStates
<1>2. PICK k \in Int : k = 2 * Divider BY Constants0
<1> QED BY <1>1, <1>2, Constants0 DEF After, ZStates

\* An instruction leaves a Z80 state, later by a clock at least.
LEMMA EffectType ==
    ASSUME NEW y \in ZStates
    PROVE  Effect(y) \in ZStates /\ Effect(y).lead >= y.lead + Divider
<1> DEFINE op == y.ram[y.pc]
           w == [y EXCEPT !.pc = (@ + 1) % CodeSize, !.deferral = FALSE]
<1>1. y.pc \in Code /\ y.pc + 1 \in Int /\ (y.pc + 1) % CodeSize \in Code
  BY Constants0 DEF ZStates, Code
<1>2. w \in ZStates /\ w.lead = y.lead /\ w.ram = y.ram /\ w.ram \in Rams
  BY <1>1 DEF ZStates
<1>3. op \in 0 .. 3 BY <1>1, Memory DEF ZStates, Rams
<1>4. y.lead \in Int /\ Divider \in Nat BY Constants0 DEF ZStates
<1> HIDE DEF w, op
<1>5. CASE op = Inc
  <2> DEFINE u == [w EXCEPT !.ram[Mailbox] = (@ + 1) % CodeSize]
  <2>1. w.ram[Mailbox] \in Code BY <1>2, Memory DEF Rams
  <2>2. (w.ram[Mailbox] + 1) % CodeSize \in Code BY <2>1, Constants0 DEF Code
  <2>3. [w.ram EXCEPT ![Mailbox] = (@ + 1) % CodeSize] \in Rams
    BY <1>2, <2>2, Memory, RamStore
  <2>4. u \in ZStates /\ u.lead = w.lead BY <1>2, <2>3 DEF ZStates
  <2>5. Effect(y) = After(u, 1) BY <1>5 DEF Effect, op, w, Inc, Ei, Halt, Bad
  <2> HIDE DEF u
  <2> QED BY <1>2, <1>4, <2>4, <2>5, AfterBy
<1>6. CASE op = Ei
  <2> DEFINE u == [w EXCEPT !.iff = TRUE, !.deferral = TRUE]
  <2>4. u \in ZStates /\ u.lead = w.lead BY <1>2 DEF ZStates
  <2>5. Effect(y) = After(u, 1) BY <1>6 DEF Effect, op, w, Inc, Ei, Halt, Bad
  <2> HIDE DEF u
  <2> QED BY <1>2, <1>4, <2>4, <2>5, AfterBy
<1>7. CASE op = Halt
  <2> DEFINE u == [w EXCEPT !.halted = TRUE]
  <2>4. u \in ZStates /\ u.lead = w.lead BY <1>2 DEF ZStates
  <2>5. Effect(y) = After(u, 1) BY <1>7 DEF Effect, op, w, Inc, Ei, Halt, Bad
  <2> HIDE DEF u
  <2> QED BY <1>2, <1>4, <2>4, <2>5, AfterBy
<1>8. CASE op = Bad
  <2>5. Effect(y) = After(w, 2) BY <1>8 DEF Effect, op, w, Inc, Ei, Halt, Bad
  <2> QED BY <1>2, <1>4, <2>5, AfterBy
<1> QED BY <1>3, <1>5, <1>6, <1>7, <1>8 DEF Inc, Ei, Halt, Bad

\* An instruction, a fault or a stop.
LEMMA OwnerType ==
    ASSUME NEW y \in ZStates
    PROVE  /\ Owner(y) \in ZStates /\ Owner(y).lead >= y.lead
           /\ Owner(y).stop = None /\ ~ Owner(y).fault => Owner(y).lead >= y.lead + Divider
<1>1. CASE y.pc \notin DOMAIN Images[y.bound]
  <2>1. Owner(y) = [y EXCEPT !.stop = "no_owner"] BY <1>1 DEF Owner
  <2> QED BY <2>1 DEF ZStates, StopCodes, None
<1>2. ASSUME NEW w \in ZStates
      PROVE  /\ Isolated(w) \in ZStates /\ Isolated(w).lead = w.lead /\ Isolated(w).fault
  BY DEF ZStates, Isolated, Bindings
<1>3. CASE y.pc \in DOMAIN Images[y.bound] /\ y.ram[y.pc] # Images[y.bound][y.pc]
  <2>1. Owner(y) = Isolated(y) BY <1>3 DEF Owner
  <2>2. y.lead \in Int BY DEF ZStates
  <2> QED BY <1>2, <2>1, <2>2
<1>4. CASE /\ y.pc \in DOMAIN Images[y.bound] /\ y.ram[y.pc] = Images[y.bound][y.pc]
           /\ y.ram[y.pc] = Bad
  <2>1. Owner(y) = ViewStopped(Effect(y)) BY <1>4 DEF Owner
  <2>2. PICK w \in ZStates : w = Effect(y) /\ w.lead >= y.lead + Divider BY EffectType
  <2>3. y.lead \in Int /\ w.lead \in Int BY DEF ZStates
  <2>4. ViewStopped(w) \in ZStates /\ ViewStopped(w).lead = w.lead
    <3>1. CASE IsolateViewStops(w) BY <1>2, <3>1 DEF ViewStopped
    <3>2. CASE ~ IsolateViewStops(w) BY <3>2 DEF ViewStopped, ZStates, StopCodes
    <3> QED BY <3>1, <3>2
  <2> QED BY <2>1, <2>2, <2>3, <2>4, Constants0
<1>5. CASE /\ y.pc \in DOMAIN Images[y.bound] /\ y.ram[y.pc] = Images[y.bound][y.pc]
           /\ y.ram[y.pc] # Bad
  <2>1. Owner(y) = Effect(y) BY <1>5 DEF Owner
  <2>2. y.lead \in Int /\ Effect(y).lead \in Int BY EffectType DEF ZStates
  <2> QED BY <2>1, <2>2, EffectType, Constants0
<1> QED BY <1>1, <1>3, <1>4, <1>5

\* A halted Z80 is accounted for in whole M1 cycles.
LEMMA HaltedJump ==
    ASSUME NEW a \in Int, NEW end \in Int, a < end
    PROVE  \E c \in Nat \ {0}, k \in Nat \ {0} :
               /\ c = M1 * Divider /\ c >= Divider
               /\ k = (end - a + c - 1) \div c
               /\ c * (k - 1) < end - a /\ end - a <= c * k
               /\ c * k \in Int /\ c * k >= Divider
<1>1. PICK c \in Nat \ {0} : c = M1 * Divider /\ c >= Divider
  <2>1. Divider * 1 <= Divider * M1 BY TimesMono, Constants0
  <2>2. Divider * M1 = M1 * Divider /\ Divider * 1 = Divider BY Constants0
  <2> QED BY <2>1, <2>2, Constants0
<1>2. PICK b \in Nat \ {0} : b = end - a OBVIOUS
<1>3. PICK k \in Nat \ {0} : k = (b + c - 1) \div c /\ c * (k - 1) < b /\ b <= c * k
  BY CeilBounds
<1>4. c * 1 <= c * k /\ c * 1 = c BY TimesMono
<1>5. c * k \in Int OBVIOUS
<1>6. c * k >= Divider BY <1>1, <1>4, <1>5, Constants0
<1> QED BY <1>1, <1>2, <1>3, <1>5, <1>6

\* What a boundary does to the types and to the time: a Z80 that goes on is a clock later
\* at least.
LEMMA BoundaryType ==
    ASSUME NEW y \in ZStates, NEW level \in BOOLEAN, NEW end \in Int, y.lead < end
    PROVE  LET x == Boundary(y, level, end)
           IN  /\ x \in ZStates /\ x.lead >= y.lead
               /\ x.stop = None /\ ~ x.fault => x.lead >= y.lead + Divider
<1> DEFINE x == Boundary(y, level, end)
<1>0. y.lead \in Int /\ Divider \in Nat BY Constants0 DEF ZStates
<1>1. CASE level /\ y.iff /\ ~ y.deferral
  <2> DEFINE w == [y EXCEPT !.iff = FALSE, !.halted = FALSE, !.deferral = FALSE,
                            !.ram[Mailbox] = y.pc, !.pc = 0]
  <2>1. [y.ram EXCEPT ![Mailbox] = y.pc] \in Rams BY RamStore, Memory DEF ZStates
  <2>2. w \in ZStates /\ w.lead = y.lead BY <2>1, Memory DEF ZStates
  <2>3. x = After(w, 2) BY <1>1 DEF Boundary, AcceptInt
  <2> HIDE DEF w
  <2> QED BY <1>0, <2>2, <2>3, AfterBy
<1>2. CASE ~ (level /\ y.iff /\ ~ y.deferral) /\ y.halted
  <2>1. PICK c \in Nat \ {0}, k \in Nat \ {0} :
               /\ c = M1 * Divider
               /\ k = (end - y.lead + c - 1) \div c
               /\ c * k \in Int /\ c * k >= Divider
    BY <1>0, HaltedJump
  <2>2. x = [y EXCEPT !.lead = y.lead + c * k] BY <1>2, <2>1 DEF Boundary
  <2>3. PICK p \in Int : p = c * k /\ p >= Divider BY <2>1
  <2>4. x = [y EXCEPT !.lead = y.lead + p] BY <2>2, <2>3
  <2>5. x \in ZStates /\ x.lead = y.lead + p BY <1>0, <2>4 DEF ZStates
  <2> QED BY <1>0, <2>3, <2>5
<1>3. CASE ~ (level /\ y.iff /\ ~ y.deferral) /\ ~ y.halted
  <2>1. x = Owner(y) BY <1>3 DEF Boundary
  <2> QED BY <2>1, OwnerType
<1> QED BY <1>1, <1>2, <1>3

-----------------------------------------------------------------------------
(* One instruction, response or halted cycle at its own time (module SoundCpu).          *)

Beat(y, t) == Boundary(y, IntLevelAt(t + y.lead), y.lead + 1)

\* A step of a Z80 that runs and is behind.
BeatStep(b, t) ==
    [y \in ZStates |-> IF Running(y, b) /\ y.lead < 0 THEN Beat(y, t) ELSE y]

\* The INT line is high or low.
LEMMA LevelType == ASSUME NEW t PROVE IntLevelAt(t) \in BOOLEAN
BY DEF IntLevelAt

\* A beat leaves a Z80 state, later by a clock at least.
LEMMA BeatType ==
    ASSUME NEW y \in ZStates, NEW t
    PROVE  /\ Beat(y, t) \in ZStates /\ Beat(y, t).lead >= y.lead
           /\ \A b : Running(Beat(y, t), b) => Beat(y, t).lead >= y.lead + Divider
<1>1. y.lead \in Int /\ y.lead + 1 \in Int /\ y.lead < y.lead + 1 BY DEF ZStates
<1>2. IntLevelAt(t + y.lead) \in BOOLEAN BY LevelType
<1> QED BY <1>1, <1>2, BoundaryType DEF Beat, Running

\* The beat of a Z80 that runs and is behind, as a function.
LEMMA BeatStepType == ASSUME NEW b, NEW t PROVE BeatStep(b, t) \in [ZStates -> ZStates]
BY BeatType DEF BeatStep

Beats(y, b, t) == Repeat(LAMBDA x : Beat(x, t), y, b, 0)

CatchUp(y, b, t) == IF y.lead >= 0 THEN y ELSE Settle(Beats(y, b, t), b)

\* A function with the equation of Repeat is one of iterates.
LEMMA IteratesFrom ==
    ASSUME NEW X, NEW g \in [X -> X], NEW x \in X, NEW n \in Nat, NEW f,
           f = [i \in 0 .. n |-> f[i]], f[0] = x,
           \A i \in 1 .. n : f[i - 1] \in X => f[i] = g[f[i - 1]]
    PROVE  Iterates(f, g, X, x, n)
<1> DEFINE T == {i \in 0 .. n : f[i] \in X}
<1>1. 0 \in T OBVIOUS
<1>2. ASSUME NEW i \in 0 .. n - 1, i \in T PROVE i + 1 \in T
  <2>1. i + 1 \in 1 .. n /\ (i + 1) - 1 = i OBVIOUS
  <2>2. f[i + 1] = g[f[i]] BY <1>2, <2>1
  <2> QED BY <1>2, <2>1, <2>2
<1>3. \A i \in 0 .. n : i \in T
  <2> HIDE DEF T
  <2> QED BY <1>1, <1>2, Up
<1>4. \A i \in 0 .. n : f[i] \in X BY <1>3
<1>5. f \in [0 .. n -> X] BY <1>4
<1>6. ASSUME NEW i \in 1 .. n PROVE f[i] = g[f[i - 1]]
  <2>1. i - 1 \in 0 .. n OBVIOUS
  <2> QED BY <1>4, <2>1
<1> QED BY <1>5, <1>6 DEF Iterates

\* Repeat, for beats, iterates that function.
LEMMA CatchUpRepeats ==
    ASSUME NEW y \in ZStates, NEW b, NEW t, y.lead < 0, NEW n \in Nat, n = (0 - y.lead + Divider - 1) \div Divider
    PROVE  \E f : /\ Iterates(f, BeatStep(b, t), ZStates, y, n)
                  /\ Beats(y, b, t) = f[n]
<1> DEFINE P(f) == f = [i \in 0 .. n |-> IF i = 0 THEN y
                                         ELSE IF Running(f[i - 1], b) /\ f[i - 1].lead < 0 THEN Beat(f[i - 1], t) ELSE f[i - 1]]
<1>1. \E f : P(f)
  <2>1. PICK f : Iterates(f, BeatStep(b, t), ZStates, y, n) BY IteratesExist, BeatStepType
  <2>2. ASSUME NEW i \in 0 .. n
        PROVE  f[i] = IF i = 0 THEN y
                      ELSE IF Running(f[i - 1], b) /\ f[i - 1].lead < 0 THEN Beat(f[i - 1], t) ELSE f[i - 1]
    <3>1. CASE i = 0 BY <2>1, <3>1 DEF Iterates
    <3>2. CASE i # 0
      <4>1. i \in 1 .. n /\ i - 1 \in 0 .. n BY <3>2
      <4>2. f[i - 1] \in ZStates /\ f[i] = BeatStep(b, t)[f[i - 1]] BY <2>1, <4>1 DEF Iterates
      <4> QED BY <3>2, <4>2 DEF BeatStep
    <3> QED BY <3>1, <3>2
  <2>3. f \in [0 .. n -> ZStates] BY <2>1 DEF Iterates
  <2>4. P(f) BY <2>2, <2>3
  <2> QED BY <2>4
<1> DEFINE c == CHOOSE f : P(f)
<1>2. P(c)
  <2> HIDE DEF P
  <2> QED BY <1>1, Zenon
<1>3. Beats(y, b, t) = c[n]
  BY DEF Beats, Repeat
<1> HIDE DEF c
<1>4. c = [i \in 0 .. n |-> c[i]] /\ c[0] = y BY <1>2
<1>5. ASSUME NEW i \in 1 .. n, c[i - 1] \in ZStates PROVE c[i] = BeatStep(b, t)[c[i - 1]]
  <2>1. i \in 0 .. n /\ i # 0 OBVIOUS
  <2>2. c[i] = IF Running(c[i - 1], b) /\ c[i - 1].lead < 0 THEN Beat(c[i - 1], t) ELSE c[i - 1]
    BY <1>2, <2>1
  <2> QED BY <1>5, <2>2 DEF BeatStep
<1>6. Iterates(c, BeatStep(b, t), ZStates, y, n)
  BY <1>4, <1>5, IteratesFrom, BeatStepType
<1> QED BY <1>3, <1>6

\* At rest: nothing left to do.
Rests(y, b) == ~ (Running(y, b) /\ y.lead < 0)

\* A Z80 is at rest exactly if the function leaves it alone.
LEMMA RestsStep ==
    ASSUME NEW y \in ZStates, NEW b, NEW t, Rests(y, b)
    PROVE  BeatStep(b, t)[y] = y
BY DEF Rests, BeatStep

\* CatchUp is where the beats come to rest.
LEMMA CatchUpIs ==
    ASSUME NEW y \in ZStates, NEW b, NEW t, y.lead < 0
    PROVE  \E e \in Orbit(BeatStep(b, t), ZStates, y) :
               Rests(e, b) /\ CatchUp(y, b, t) = Settle(e, b)
<1> DEFINE g == BeatStep(b, t)
           R == {w \in ZStates : Running(w, b)}
           L == [w \in ZStates |-> w.lead]
<1>1. y.lead \in Int /\ Divider \in Nat \ {0} BY Constants0 DEF ZStates
<1>2. PICK n \in Nat : n = (0 - y.lead + Divider - 1) \div Divider
  <2>1. PICK a \in Nat \ {0} : a = 0 - y.lead BY <1>1
  <2>2. PICK m \in Nat \ {0} : m = (a + Divider - 1) \div Divider BY <1>1, CeilBounds
  <2> QED BY <2>1, <2>2
<1>3. PICK f : /\ Iterates(f, BeatStep(b, t), ZStates, y, n)
               /\ Beats(y, b, t) = f[n]
  BY <1>2, CatchUpRepeats
<1>4. f[n] \in Orbit(g, ZStates, y) BY <1>3, BeatStepType, IteratesInOrbit
<1>5. f[n] \in ZStates /\ (f[n] \in R => L[f[n]] >= 0)
  <2>1. g \in [ZStates -> ZStates] /\ R \in SUBSET ZStates /\ 0 \in Int /\ L[y] = y.lead
    BY BeatStepType
  <2>2. L \in [ZStates -> Int] BY DEF ZStates
  <2>3. \A s \in ZStates : ~ (s \in R /\ L[s] < 0) => g[s] = s BY DEF BeatStep
  <2>4. \A s \in ZStates : s \in R /\ L[s] < 0 /\ g[s] \in R => L[g[s]] >= L[s] + Divider
    BY BeatType DEF BeatStep
  <2> HIDE DEF g, R, L
  <2>5. Iterates(f, g, ZStates, y, n) BY <1>3 DEF g
  <2>6. L[y] < 0 /\ n = (0 - L[y] + Divider - 1) \div Divider BY <1>2, <2>1
  <2>7. f[n] \in ZStates /\ (f[n] \in R => L[f[n]] >= 0 /\ L[f[n]] >= L[y] + Divider)
    BY <1>1, <1>2, <2>1, <2>2, <2>3, <2>4, <2>5, <2>6, Progress, Zenon
  <2> QED BY <2>7
<1>6. f[n].lead \in Int BY <1>5 DEF ZStates
<1>7. Rests(f[n], b) BY <1>5, <1>6 DEF Rests
<1>8. CatchUp(y, b, t) = Settle(f[n], b) BY <1>1, <1>3 DEF CatchUp
<1> QED BY <1>4, <1>7, <1>8

-----------------------------------------------------------------------------
(* Segments: the INT line does not change within one.                      *)

\* The frame and the onset are positive numbers of ticks, and the pulse is within the frame.
LEMMA FrameFacts ==
    /\ Onset \in Nat \ {0} /\ Frame \in Nat \ {0} /\ Onset + LineTicks < Frame
<1>1. PICK o \in Nat, l \in Nat \ {0}, k \in Nat : o = OnsetLine /\ l = LineTicks /\ k = Lines
  BY Constants0
<1>2. o + 2 <= k /\ o >= 1 BY <1>1, Constants0
<1>3. l * 1 <= l * o /\ l * (o + 2) <= l * k BY <1>2, TimesMono
<1>4. l * 1 = l /\ l * (o + 2) = l * o + 2 * l /\ l * o = o * l /\ l * k = k * l OBVIOUS
<1>5. PICK p \in Int, q \in Int : p = o * l /\ q = k * l OBVIOUS
<1>6. p >= l /\ p + 2 * l <= q BY <1>3, <1>4, <1>5
<1> QED BY <1>1, <1>5, <1>6 DEF Onset, Frame

\* The next edge of the INT line is ahead, and the level is the same until then.
LEMMA EdgeFacts ==
    ASSUME NEW a \in Int
    PROVE  /\ NextIntEdge(a) \in Nat \ {0}
           /\ \A k \in Nat : k < NextIntEdge(a) => IntLevelAt(a + k) = IntLevelAt(a)
<1>1. PICK p \in 0 .. Frame - 1 : p = a % Frame BY FrameFacts
<1>2. NextIntEdge(a) = IF p < Onset THEN Onset - p
                       ELSE IF p < Onset + LineTicks THEN Onset + LineTicks - p
                       ELSE Frame + Onset - p
  BY <1>1 DEF NextIntEdge
<1>3. LineTicks \in Nat BY Constants0
<1>4. NextIntEdge(a) \in Nat \ {0} BY <1>1, <1>2, <1>3, FrameFacts
<1>5. ASSUME NEW k \in Nat, k < NextIntEdge(a) PROVE IntLevelAt(a + k) = IntLevelAt(a)
  <2>1. (a + k) % Frame = (p + k) % Frame
    <3>1. Frame \in Nat \ {0} /\ k \in Int BY FrameFacts
    <3>2. ((a % Frame) + k) % Frame = (a + k) % Frame BY <3>1, ModAdd, Zenon
    <3> QED BY <1>1, <3>2
  <2>2. p + k < Frame + Onset BY <1>1, <1>2, <1>3, <1>5, FrameFacts
  <2>3. CASE p + k < Frame
    <3>1. p + k = Frame * 0 + (p + k) /\ p + k \in 0 .. Frame - 1 /\ p + k \in Int BY <2>3, FrameFacts
    <3>2. (p + k) % Frame = p + k BY <3>1, FrameFacts, DivModUnique
    <3> QED BY <1>1, <1>2, <1>3, <1>5, <2>1, <3>2, FrameFacts DEF IntLevelAt
  <2>4. CASE p + k >= Frame
    <3>1. PICK m \in 0 .. Frame - 1 : m = p + k - Frame BY <2>2, <2>4, FrameFacts, <1>3
    <3>2. (p + k) % Frame = p + k - Frame
      <4>1. Frame * 1 = Frame BY FrameFacts
      <4>2. p + k = Frame * 1 + m /\ p + k \in Int /\ 1 \in Int /\ Frame \in Nat \ {0}
        BY <3>1, <4>1, FrameFacts
      <4>3. (p + k) % Frame = m BY <4>2, DivModUnique, Zenon
      <4> QED BY <3>1, <4>3
    <3>3. p >= Onset + LineTicks /\ p + k - Frame < Onset BY <1>1, <1>2, <1>3, <1>5, <2>2, <2>4, FrameFacts
    <3> QED BY <1>1, <1>3, <2>1, <3>2, <3>3, FrameFacts DEF IntLevelAt
  <2> QED BY <1>1, <2>3, <2>4, FrameFacts
<1> QED BY <1>4, <1>5

\* The INT line is the same from y up to `end'.
SameLevel(y, t, level, end) ==
    \A k \in Nat : y.lead + k < end => IntLevelAt(t + (y.lead + k)) = level

\* One jump of a halted Z80 is as many halted cycles.
LEMMA HaltedPath ==
    ASSUME NEW y \in ZStates, NEW b, NEW t \in Int, NEW level \in BOOLEAN, NEW end \in Int,
           end <= 0, y.lead < end, SameLevel(y, t, level, end),
           Running(y, b), y.halted, ~ (level /\ y.iff /\ ~ y.deferral)
    PROVE  Boundary(y, level, end) \in Orbit(BeatStep(b, t), ZStates, y)
<1>1. y.lead \in Int BY DEF ZStates
<1>2. PICK c \in Nat \ {0}, k \in Nat \ {0} :
               /\ c = M1 * Divider
               /\ k = (end - y.lead + c - 1) \div c
               /\ c * (k - 1) < end - y.lead
  BY <1>1, HaltedJump
<1> DEFINE h(j) == [y EXCEPT !.lead = y.lead + c * j]
           T == {j \in 0 .. k : h(j) \in Orbit(BeatStep(b, t), ZStates, y)}
<1>3. Boundary(y, level, end) = h(k) BY <1>2 DEF Boundary
<1>4. 0 \in T
  <2>1. c * 0 = 0 OBVIOUS
  <2>2. h(0) = y BY <1>1, <2>1 DEF ZStates
  <2> QED BY <2>2, OrbitStart
<1>5. ASSUME NEW j \in 0 .. k - 1, j \in T PROVE j + 1 \in T
  <2>1. PICK p \in Nat, q \in Int : p = c * j /\ q = c * (j + 1) /\ q = p + c OBVIOUS
  <2>2. y.lead + p < end
    <3>1. c * j <= c * (k - 1) BY TimesMono
    <3>2. PICK m \in Int : m = c * (k - 1) OBVIOUS
    <3> QED BY <1>1, <1>2, <2>1, <3>1, <3>2
  <2>3. h(j) = [y EXCEPT !.lead = y.lead + p] /\ h(j + 1) = [y EXCEPT !.lead = y.lead + q] BY <2>1
  <2> DEFINE w == [y EXCEPT !.lead = y.lead + p]
  <2>4. w \in ZStates /\ w.lead = y.lead + p /\ Running(w, b) /\ w.halted /\ w.lead \in Int
        /\ ~ (level /\ w.iff /\ ~ w.deferral)
    BY <1>1 DEF ZStates, Running
  <2>5. IntLevelAt(t + w.lead) = level BY <2>2, <2>4 DEF SameLevel
  <2>6. Beat(w, t) = [w EXCEPT !.lead = w.lead + c]
    <3>1. (w.lead + 1 - w.lead + c - 1) \div c = 1
      <4>1. c = c * 1 + 0 /\ 0 \in 0 .. c - 1 /\ c \in Int OBVIOUS
      <4>2. c \div c = 1 BY <4>1, DivModUnique
      <4>3. w.lead + 1 - w.lead + c - 1 = c BY <2>4
      <4> QED BY <4>2, <4>3
    <3>2. Beat(w, t) = [w EXCEPT !.lead = w.lead + c * ((w.lead + 1 - w.lead + c - 1) \div c)]
      <4> HIDE DEF w
      <4> QED BY <1>2, <2>4, <2>5 DEF Beat, Boundary
    <3>3. c * 1 = c OBVIOUS
    <3> HIDE DEF w
    <3> QED BY <3>1, <3>2, <3>3
  <2>7. [w EXCEPT !.lead = w.lead + c] = h(j + 1)
    <3>1. w.lead + c = y.lead + q BY <1>1, <2>1, <2>4
    <3>2. [w EXCEPT !.lead = y.lead + q] = [y EXCEPT !.lead = y.lead + q] BY DEF ZStates
    <3> QED BY <2>3, <3>1, <3>2
  <2>8. BeatStep(b, t)[w] = h(j + 1) BY <1>1, <2>2, <2>4, <2>6, <2>7 DEF BeatStep
  <2>9. w \in Orbit(BeatStep(b, t), ZStates, y) BY <1>5, <2>3
  <2>10. BeatStep(b, t)[w] \in Orbit(BeatStep(b, t), ZStates, y)
    <3> HIDE DEF w
    <3> QED BY <2>9, BeatStepType, OrbitStep
  <2>11. h(j + 1) \in Orbit(BeatStep(b, t), ZStates, y) /\ j + 1 \in 0 .. k BY <2>8, <2>10
  <2> QED BY <2>11
<1>6. \A j \in 0 .. k : j \in T
  <2> HIDE DEF T
  <2> QED BY <1>4, <1>5, Up
<1>7. k \in T BY <1>6
<1> QED BY <1>3, <1>7

Pieces(y, b, level, end) == Repeat(LAMBDA x : Boundary(x, level, end), y, b, end)

PieceStep(b, level, end) ==
    [y \in ZStates |-> IF Running(y, b) /\ y.lead < end THEN Boundary(y, level, end) ELSE y]

\* A boundary within a segment, as a function.
LEMMA PieceStepType ==
    ASSUME NEW b, NEW level \in BOOLEAN, NEW end \in Int
    PROVE  PieceStep(b, level, end) \in [ZStates -> ZStates]
BY BoundaryType DEF PieceStep

\* Repeat, for the boundaries of a segment, iterates that function.
LEMMA PiecesRepeat ==
    ASSUME NEW y \in ZStates, NEW b, NEW level \in BOOLEAN, NEW end \in Int,
           NEW n \in Nat, n = (end - y.lead + Divider - 1) \div Divider
    PROVE  \E f : /\ Iterates(f, PieceStep(b, level, end), ZStates, y, n)
                  /\ Pieces(y, b, level, end) = f[n]
<1> DEFINE P(f) == f = [i \in 0 .. n |-> IF i = 0 THEN y
                                         ELSE IF Running(f[i - 1], b) /\ f[i - 1].lead < end
                                              THEN Boundary(f[i - 1], level, end) ELSE f[i - 1]]
<1>1. \E f : P(f)
  <2>1. PICK f : Iterates(f, PieceStep(b, level, end), ZStates, y, n) BY IteratesExist, PieceStepType
  <2>2. ASSUME NEW i \in 0 .. n
        PROVE  f[i] = IF i = 0 THEN y
                      ELSE IF Running(f[i - 1], b) /\ f[i - 1].lead < end
                           THEN Boundary(f[i - 1], level, end) ELSE f[i - 1]
    <3>1. CASE i = 0 BY <2>1, <3>1 DEF Iterates
    <3>2. CASE i # 0
      <4>1. i \in 1 .. n /\ i - 1 \in 0 .. n BY <3>2
      <4>2. f[i - 1] \in ZStates /\ f[i] = PieceStep(b, level, end)[f[i - 1]] BY <2>1, <4>1 DEF Iterates
      <4> QED BY <3>2, <4>2 DEF PieceStep
    <3> QED BY <3>1, <3>2
  <2>3. f \in [0 .. n -> ZStates] BY <2>1 DEF Iterates
  <2>4. P(f) BY <2>2, <2>3
  <2> QED BY <2>4
<1> DEFINE c == CHOOSE f : P(f)
<1>2. P(c)
  <2> HIDE DEF P
  <2> QED BY <1>1, Zenon
<1>3. Pieces(y, b, level, end) = c[n]
  BY DEF Pieces, Repeat
<1> HIDE DEF c
<1>4. c = [i \in 0 .. n |-> c[i]] /\ c[0] = y BY <1>2
<1>5. ASSUME NEW i \in 1 .. n, c[i - 1] \in ZStates PROVE c[i] = PieceStep(b, level, end)[c[i - 1]]
  <2>1. i \in 0 .. n /\ i # 0 OBVIOUS
  <2>2. c[i] = IF Running(c[i - 1], b) /\ c[i - 1].lead < end
               THEN Boundary(c[i - 1], level, end) ELSE c[i - 1]
    BY <1>2, <2>1
  <2> QED BY <1>5, <2>2 DEF PieceStep
<1>6. Iterates(c, PieceStep(b, level, end), ZStates, y, n)
  BY <1>4, <1>5, IteratesFrom, PieceStepType
<1> QED BY <1>3, <1>6

\* What is reached in pieces is reached in beats.
LEMMA PiecesInOrbit ==
    ASSUME NEW y \in ZStates, NEW b, NEW t \in Int, NEW level \in BOOLEAN, NEW end \in Int,
           end <= 0, SameLevel(y, t, level, end)
    PROVE  Orbit(PieceStep(b, level, end), ZStates, y) \subseteq Orbit(BeatStep(b, t), ZStates, y)
<1> DEFINE O == Orbit(BeatStep(b, t), ZStates, y)
           g == PieceStep(b, level, end)
           T == {w \in O : w.lead >= y.lead}
<1>1. O \in SUBSET ZStates /\ y \in O /\ y.lead \in Int BY OrbitStart DEF Orbit, ZStates
<1>2. T \in SUBSET ZStates /\ y \in T BY <1>1
<1>3. ASSUME NEW w \in T PROVE g[w] \in T
  <2>1. w \in ZStates /\ w \in O /\ w.lead >= y.lead /\ w.lead \in Int BY <1>1 DEF ZStates
  <2>2. CASE ~ (Running(w, b) /\ w.lead < end) BY <2>1, <2>2 DEF PieceStep
  <2>3. CASE Running(w, b) /\ w.lead < end
    <3>1. g[w] = Boundary(w, level, end) BY <2>1, <2>3 DEF PieceStep
    <3>2. Boundary(w, level, end) \in ZStates /\ Boundary(w, level, end).lead >= w.lead
      BY <2>1, <2>3, BoundaryType
    <3>3. Boundary(w, level, end).lead \in Int BY <3>2 DEF ZStates
    <3>4. SameLevel(w, t, level, end)
      <4> SUFFICES ASSUME NEW k \in Nat, w.lead + k < end PROVE IntLevelAt(t + (w.lead + k)) = level
        BY DEF SameLevel
      <4>1. PICK m \in Nat : m = k + (w.lead - y.lead) BY <1>1, <2>1
      <4>2. y.lead + m = w.lead + k BY <1>1, <2>1, <4>1
      <4>3. IntLevelAt(t + (y.lead + m)) = level BY <4>2 DEF SameLevel
      <4> QED BY <4>2, <4>3
    <3>5. IntLevelAt(t + w.lead) = level
      <4>1. w.lead + 0 = w.lead /\ 0 \in Nat BY <2>1
      <4> QED BY <2>3, <3>4, <4>1 DEF SameLevel
    <3>6. Boundary(w, level, end) \in Orbit(BeatStep(b, t), ZStates, w)
      <4>1. CASE w.halted /\ ~ (level /\ w.iff /\ ~ w.deferral)
        BY <2>1, <2>3, <3>4, <4>1, HaltedPath
      <4>2. CASE ~ (w.halted /\ ~ (level /\ w.iff /\ ~ w.deferral))
        <5>1. Boundary(w, level, end) = Beat(w, t) BY <3>5, <4>2 DEF Boundary, Beat
        <5>2. w.lead < 0 BY <2>1, <2>3
        <5>3. BeatStep(b, t)[w] = Beat(w, t) BY <2>1, <2>3, <5>2 DEF BeatStep
        <5>4. BeatStep(b, t)[w] \in Orbit(BeatStep(b, t), ZStates, w)
          BY <2>1, BeatStepType, OrbitStart, OrbitStep
        <5> QED BY <5>1, <5>3, <5>4
      <4> QED BY <4>1, <4>2
    <3>7. Boundary(w, level, end) \in O
      <4>1. Orbit(BeatStep(b, t), ZStates, w) \subseteq O BY <2>1, BeatStepType, OrbitTrans
      <4> QED BY <3>6, <4>1
    <3> QED BY <1>1, <2>1, <3>1, <3>2, <3>3, <3>7
  <2> QED BY <2>2, <2>3
<1>4. Orbit(g, ZStates, y) \subseteq T
  <2> HIDE DEF T, g
  <2> QED BY <1>2, <1>3, OrbitWithin
<1> QED BY <1>4

\* The least of two numbers.
LEMMA MinOfTwo ==
    ASSUME NEW i \in Int, NEW j \in Int
    PROVE  Min({i, j}) = IF i <= j THEN i ELSE j
BY DEF Min

\* A segment ends in the orbit, and a Z80 that goes on is a clock later at least.
LEMMA SegmentIs ==
    ASSUME NEW y \in ZStates, NEW b, NEW t \in Int, y.lead < 0
    PROVE  /\ Segment(y, b, t) \in Orbit(BeatStep(b, t), ZStates, y)
           /\ Segment(y, b, t) \in ZStates
           /\ Running(Segment(y, b, t), b) => Segment(y, b, t).lead >= y.lead + Divider
<1>1. y.lead \in Int /\ Divider \in Nat \ {0} BY Constants0 DEF ZStates
<1>2. PICK end \in Int, level \in BOOLEAN :
          /\ end = Min({y.lead + NextIntEdge(t + y.lead), 0}) /\ y.lead < end /\ end <= 0
          /\ end - y.lead <= NextIntEdge(t + y.lead)
          /\ level = IntLevelAt(t + y.lead)
  <2>1. PICK q \in Nat \ {0} : q = NextIntEdge(t + y.lead) BY <1>1, EdgeFacts
  <2>2. PICK end \in Int : end = Min({y.lead + q, 0}) /\ end = IF y.lead + q <= 0 THEN y.lead + q ELSE 0
    BY <1>1, MinOfTwo
  <2>3. y.lead < end /\ end <= 0 /\ end - y.lead <= q BY <1>1, <2>1, <2>2
  <2> QED BY <2>1, <2>2, <2>3, LevelType
<1>3. SameLevel(y, t, level, end)
  <2> SUFFICES ASSUME NEW k \in Nat, y.lead + k < end PROVE IntLevelAt(t + (y.lead + k)) = level
    BY DEF SameLevel
  <2>1. t + y.lead \in Int /\ NextIntEdge(t + y.lead) \in Nat BY <1>1, EdgeFacts
  <2>2. k < NextIntEdge(t + y.lead) BY <1>1, <1>2, <2>1
  <2>3. IntLevelAt((t + y.lead) + k) = level BY <1>2, <2>1, <2>2, EdgeFacts
  <2>4. (t + y.lead) + k = t + (y.lead + k) BY <1>1
  <2> QED BY <2>3, <2>4
<1>4. Segment(y, b, t) = Pieces(y, b, level, end) BY <1>2 DEF Segment, Pieces
<1>5. PICK n \in Nat : n = (end - y.lead + Divider - 1) \div Divider
  <2>1. PICK a \in Nat \ {0} : a = end - y.lead BY <1>1, <1>2
  <2>2. PICK m \in Nat \ {0} : m = (a + Divider - 1) \div Divider BY <1>1, CeilBounds
  <2> QED BY <2>1, <2>2
<1>6. PICK f : /\ Iterates(f, PieceStep(b, level, end), ZStates, y, n)
               /\ Pieces(y, b, level, end) = f[n]
  BY <1>2, <1>5, PiecesRepeat
<1>7. f[n] \in Orbit(PieceStep(b, level, end), ZStates, y)
  BY <1>2, <1>5, <1>6, PieceStepType, IteratesInOrbit
<1>8. f[n] \in Orbit(BeatStep(b, t), ZStates, y) BY <1>2, <1>3, <1>7, PiecesInOrbit
<1> DEFINE g == PieceStep(b, level, end)
           R == {w \in ZStates : Running(w, b)}
           L == [w \in ZStates |-> w.lead]
<1>9. f[n] \in ZStates /\ (f[n] \in R => L[f[n]] >= L[y] + Divider)
  <2>1. g \in [ZStates -> ZStates] /\ R \in SUBSET ZStates /\ L[y] = y.lead
    BY <1>2, PieceStepType
  <2>2. L \in [ZStates -> Int] BY DEF ZStates
  <2>3. \A s \in ZStates : ~ (s \in R /\ L[s] < end) => g[s] = s BY DEF PieceStep
  <2>4. ASSUME NEW s \in ZStates, s \in R, L[s] < end, g[s] \in R PROVE L[g[s]] >= L[s] + Divider
    <3>1. Running(s, b) /\ s.lead < end /\ g[s] = Boundary(s, level, end) BY <2>4 DEF PieceStep
    <3> QED BY <1>2, <2>4, <3>1, BoundaryType DEF Running
  <2>8. \A s \in ZStates : s \in R /\ L[s] < end /\ g[s] \in R => L[g[s]] >= L[s] + Divider BY <2>4
  <2> HIDE DEF g, R, L
  <2>5. Iterates(f, g, ZStates, y, n) BY <1>6 DEF g
  <2>6. end \in Int /\ L[y] < end /\ n = (end - L[y] + Divider - 1) \div Divider BY <1>2, <1>5, <2>1
  <2>7. f[n] \in ZStates /\ (f[n] \in R => L[f[n]] >= end /\ L[f[n]] >= L[y] + Divider)
    BY <1>1, <1>5, <2>1, <2>2, <2>3, <2>5, <2>6, <2>8, Progress, Zenon
  <2> QED BY <2>7
<1> QED BY <1>4, <1>6, <1>8, <1>9

-----------------------------------------------------------------------------
(* The follower.                                                           *)

Runs(y, b, t) == Repeat(LAMBDA x : Segment(x, b, t), y, b, 0)

SegmentStep(b, t) ==
    [y \in ZStates |-> IF Running(y, b) /\ y.lead < 0 THEN Segment(y, b, t) ELSE y]

\* A segment, as a function.
LEMMA SegmentStepType ==
    ASSUME NEW b, NEW t \in Int
    PROVE  SegmentStep(b, t) \in [ZStates -> ZStates]
BY SegmentIs DEF SegmentStep

\* Repeat, for segments, iterates that function.
LEMMA RunsRepeat ==
    ASSUME NEW y \in ZStates, NEW b, NEW t \in Int,
           NEW n \in Nat, n = (0 - y.lead + Divider - 1) \div Divider
    PROVE  \E f : /\ Iterates(f, SegmentStep(b, t), ZStates, y, n)
                  /\ Runs(y, b, t) = f[n]
<1> DEFINE P(f) == f = [i \in 0 .. n |-> IF i = 0 THEN y
                                         ELSE IF Running(f[i - 1], b) /\ f[i - 1].lead < 0
                                              THEN Segment(f[i - 1], b, t) ELSE f[i - 1]]
<1>1. \E f : P(f)
  <2>1. PICK f : Iterates(f, SegmentStep(b, t), ZStates, y, n) BY IteratesExist, SegmentStepType
  <2>2. ASSUME NEW i \in 0 .. n
        PROVE  f[i] = IF i = 0 THEN y
                      ELSE IF Running(f[i - 1], b) /\ f[i - 1].lead < 0
                           THEN Segment(f[i - 1], b, t) ELSE f[i - 1]
    <3>1. CASE i = 0 BY <2>1, <3>1 DEF Iterates
    <3>2. CASE i # 0
      <4>1. i \in 1 .. n /\ i - 1 \in 0 .. n BY <3>2
      <4>2. f[i - 1] \in ZStates /\ f[i] = SegmentStep(b, t)[f[i - 1]] BY <2>1, <4>1 DEF Iterates
      <4> QED BY <3>2, <4>2 DEF SegmentStep
    <3> QED BY <3>1, <3>2
  <2>3. f \in [0 .. n -> ZStates] BY <2>1 DEF Iterates
  <2>4. P(f) BY <2>2, <2>3
  <2> QED BY <2>4
<1> DEFINE c == CHOOSE f : P(f)
<1>2. P(c)
  <2> HIDE DEF P
  <2> QED BY <1>1, Zenon
<1>3. Runs(y, b, t) = c[n]
  BY DEF Runs, Repeat
<1> HIDE DEF c
<1>4. c = [i \in 0 .. n |-> c[i]] /\ c[0] = y BY <1>2
<1>5. ASSUME NEW i \in 1 .. n, c[i - 1] \in ZStates PROVE c[i] = SegmentStep(b, t)[c[i - 1]]
  <2>1. i \in 0 .. n /\ i # 0 OBVIOUS
  <2>2. c[i] = IF Running(c[i - 1], b) /\ c[i - 1].lead < 0
               THEN Segment(c[i - 1], b, t) ELSE c[i - 1]
    BY <1>2, <2>1
  <2> QED BY <1>5, <2>2 DEF SegmentStep
<1>6. Iterates(c, SegmentStep(b, t), ZStates, y, n)
  BY <1>4, <1>5, IteratesFrom, SegmentStepType
<1> QED BY <1>3, <1>6

\* The iterations of segments stay in the orbit of the beats.
LEMMA RunsInOrbit ==
    ASSUME NEW y \in ZStates, NEW b, NEW t \in Int
    PROVE  Orbit(SegmentStep(b, t), ZStates, y) \subseteq Orbit(BeatStep(b, t), ZStates, y)
<1> DEFINE O == Orbit(BeatStep(b, t), ZStates, y)
           g == SegmentStep(b, t)
<1>1. O \in SUBSET ZStates /\ y \in O BY OrbitStart DEF Orbit
<1>2. ASSUME NEW w \in O PROVE g[w] \in O
  <2>1. w \in ZStates BY <1>1
  <2>2. CASE ~ (Running(w, b) /\ w.lead < 0) BY <2>1, <2>2 DEF SegmentStep
  <2>3. CASE Running(w, b) /\ w.lead < 0
    <3>1. g[w] \in Orbit(BeatStep(b, t), ZStates, w) BY <2>1, <2>3, SegmentIs DEF SegmentStep
    <3>2. Orbit(BeatStep(b, t), ZStates, w) \subseteq O BY <2>1, BeatStepType, OrbitTrans
    <3> QED BY <3>1, <3>2
  <2> QED BY <2>2, <2>3
<1>3. Orbit(g, ZStates, y) \subseteq O
  <2> HIDE DEF O, g
  <2> QED BY <1>1, <1>2, OrbitWithin
<1> QED BY <1>3

\* So is RunTo.
LEMMA RunToIs ==
    ASSUME NEW y \in ZStates, NEW b, NEW t \in Int, y.lead < 0
    PROVE  \E e \in Orbit(BeatStep(b, t), ZStates, y) :
               Rests(e, b) /\ RunTo(y, b, t) = Settle(e, b)
<1> DEFINE g == SegmentStep(b, t)
           R == {w \in ZStates : Running(w, b)}
           L == [w \in ZStates |-> w.lead]
<1>1. y.lead \in Int /\ Divider \in Nat \ {0} BY Constants0 DEF ZStates
<1>2. PICK n \in Nat : n = (0 - y.lead + Divider - 1) \div Divider
  <2>1. PICK a \in Nat \ {0} : a = 0 - y.lead BY <1>1
  <2>2. PICK m \in Nat \ {0} : m = (a + Divider - 1) \div Divider BY <1>1, CeilBounds
  <2> QED BY <2>1, <2>2
<1>3. PICK f : Iterates(f, SegmentStep(b, t), ZStates, y, n) /\ Runs(y, b, t) = f[n]
  BY <1>2, RunsRepeat
<1>4. f[n] \in Orbit(g, ZStates, y) BY <1>3, SegmentStepType, IteratesInOrbit
<1>5. f[n] \in Orbit(BeatStep(b, t), ZStates, y) BY <1>4, RunsInOrbit
<1>6. f[n] \in ZStates /\ (f[n] \in R => L[f[n]] >= 0)
  <2>1. g \in [ZStates -> ZStates] /\ R \in SUBSET ZStates /\ 0 \in Int /\ L[y] = y.lead
    BY SegmentStepType
  <2>2. L \in [ZStates -> Int] BY DEF ZStates
  <2>3. \A s \in ZStates : ~ (s \in R /\ L[s] < 0) => g[s] = s BY DEF SegmentStep
  <2>4. \A s \in ZStates : s \in R /\ L[s] < 0 /\ g[s] \in R => L[g[s]] >= L[s] + Divider
    BY SegmentIs DEF SegmentStep
  <2> HIDE DEF g, R, L
  <2>5. Iterates(f, g, ZStates, y, n) BY <1>3 DEF g
  <2>6. L[y] < 0 /\ n = (0 - L[y] + Divider - 1) \div Divider BY <1>2, <2>1
  <2>7. f[n] \in ZStates /\ (f[n] \in R => L[f[n]] >= 0 /\ L[f[n]] >= L[y] + Divider)
    BY <1>1, <1>2, <2>1, <2>2, <2>3, <2>4, <2>5, <2>6, Progress, Zenon
  <2> QED BY <2>7
<1>7. f[n].lead \in Int BY <1>6 DEF ZStates
<1>8. Rests(f[n], b) BY <1>6, <1>7 DEF Rests
<1>9. RunTo(y, b, t) = Settle(f[n], b) BY <1>1, <1>3 DEF RunTo, Runs
<1> QED BY <1>5, <1>8, <1>9

\* The follower, run in segments and jumps, is where the beats come to rest: for any Z80,
\* any latches and any time.
THEOREM RunToCatchesUp ==
    ASSUME NEW y \in ZStates, NEW b, NEW t \in Int
    PROVE  RunTo(y, b, t) = CatchUp(y, b, t)
<1>1. y.lead \in Int BY DEF ZStates
<1>2. CASE y.lead >= 0 BY <1>2 DEF RunTo, CatchUp
<1>3. CASE y.lead < 0
  <2>1. PICK e \in Orbit(BeatStep(b, t), ZStates, y) :
               Rests(e, b) /\ CatchUp(y, b, t) = Settle(e, b)
    BY <1>3, CatchUpIs
  <2>2. PICK f \in Orbit(BeatStep(b, t), ZStates, y) :
               Rests(f, b) /\ RunTo(y, b, t) = Settle(f, b)
    BY <1>3, RunToIs
  <2>3. e \in ZStates /\ f \in ZStates BY DEF Orbit
  <2>4. BeatStep(b, t)[e] = e /\ BeatStep(b, t)[f] = f BY <2>1, <2>2, <2>3, RestsStep
  <2>5. e = f BY <2>4, BeatStepType, OrbitRest
  <2> QED BY <2>1, <2>2, <2>5
<1> QED BY <1>1, <1>2, <1>3

-----------------------------------------------------------------------------
(* A Z80 that does not run is only behind or not.                          *)

\* Settle leaves a Z80 state, and a Z80 that runs as it is.
LEMMA SettleType ==
    ASSUME NEW y \in ZStates, NEW b
    PROVE  /\ Settle(y, b) \in ZStates
           /\ \A c : Running(Settle(y, b), c) <=> Running(y, c)
           /\ Settle(y, b).stop = y.stop /\ Settle(y, b).fault = y.fault
           /\ Settle(y, b).ram = y.ram /\ Settle(y, b).profile = y.profile
           /\ y.lead >= 0 \/ Running(y, b) => Settle(y, b) = y
           /\ y.lead < 0 => Settle(y, b).lead < 0
<1>1. y.lead \in Int /\ (y.lead % Divider) - Divider \in Int /\ (y.lead % Divider) - Divider < 0
  BY Constants0 DEF ZStates
<1>2. CASE y.lead >= 0 \/ Running(y, b) BY <1>1, <1>2 DEF Settle
<1>3. CASE ~ (y.lead >= 0 \/ Running(y, b))
  <2>1. Settle(y, b) = [y EXCEPT !.lead = (y.lead % Divider) - Divider] BY <1>3 DEF Settle
  <2>2. PICK a \in Int : a = (y.lead % Divider) - Divider /\ a < 0 BY <1>1
  <2>3. Settle(y, b) = [y EXCEPT !.lead = a] BY <2>1, <2>2
  <2> QED BY <1>3, <2>2, <2>3 DEF ZStates, Running
<1> QED BY <1>2, <1>3

\* The rest of a division does not depend on whole divisors.
LEMMA SettledMod ==
    ASSUME NEW a \in Int, NEW k \in Int, NEW d \in Nat \ {0}
    PROVE  (((a % d) - d) - k) % d = (a - k) % d
<1>1. PICK r \in 0 .. d - 1 : r = a % d OBVIOUS
<1>2. PICK m \in Int : m = -k OBVIOUS
<1>3. (r + m) % d = (a + m) % d BY <1>1, ModAdd
<1>4. ((r + m) + d * (-1)) % d = (r + m) % d
  <2>1. r + m \in Int /\ -1 \in Int OBVIOUS
  <2> QED BY <2>1, ModPeriod
<1>5. (r + m) + d * (-1) = (r - d) - k /\ a + m = a - k BY <1>1, <1>2
<1> QED BY <1>1, <1>3, <1>4, <1>5

Shift(y, k) == [y EXCEPT !.lead = @ - k]

\* What a shift of the clock leaves.
LEMMA ShiftType ==
    ASSUME NEW y \in ZStates, NEW k \in Int
    PROVE  /\ Shift(y, k) \in ZStates /\ Shift(y, k).lead = y.lead - k
           /\ \A b : Running(Shift(y, k), b) <=> Running(y, b)
           /\ Shift(y, k).stop = y.stop
BY DEF Shift, ZStates, Running

\* How much later it is looked at does not matter to a Z80 that does not run.
LEMMA SettledShift ==
    ASSUME NEW y \in ZStates, NEW b, NEW k \in Nat, ~ Running(y, b)
    PROVE  Settle(Shift(Settle(y, b), k), b) = Settle(Shift(y, k), b)
<1>1. y.lead \in Int /\ Divider \in Nat \ {0} BY Constants0 DEF ZStates
<1>2. CASE y.lead >= 0 BY <1>2, SettleType
<1>3. CASE y.lead < 0
  <2>1. PICK a \in Int : a = (y.lead % Divider) - Divider /\ a < 0 BY <1>1
  <2>2. Settle(y, b) = [y EXCEPT !.lead = a] BY <1>1, <1>3, <2>1 DEF Settle
  <2>3. Shift(Settle(y, b), k) = [y EXCEPT !.lead = a - k] BY <2>2 DEF Shift, ZStates
  <2>4. Shift(y, k) = [y EXCEPT !.lead = y.lead - k] BY DEF Shift
  <2>5. PICK m \in Int, n \in Int : m = a - k /\ n = y.lead - k /\ m < 0 /\ n < 0 BY <1>1, <1>3, <2>1
  <2>6. ASSUME NEW i \in Int, i < 0
        PROVE  Settle([y EXCEPT !.lead = i], b) = [y EXCEPT !.lead = (i % Divider) - Divider]
    <3> DEFINE w == [y EXCEPT !.lead = i]
    <3>1. w.lead = i /\ ~ Running(w, b) BY DEF ZStates, Running
    <3>2. Settle(w, b) = [w EXCEPT !.lead = (i % Divider) - Divider] BY <2>6, <3>1 DEF Settle
    <3> QED BY <3>2 DEF ZStates
  <2>7. m % Divider = n % Divider
    <3>1. k \in Int OBVIOUS
    <3>2. (((y.lead % Divider) - Divider) - k) % Divider = (y.lead - k) % Divider
      BY <1>1, <3>1, SettledMod, Zenon
    <3> QED BY <2>1, <2>5, <3>2, Zenon
  <2> QED BY <2>3, <2>4, <2>5, <2>6, <2>7
<1> QED BY <1>1, <1>2, <1>3

\* Settling twice is settling once.
LEMMA SettleTwice ==
    ASSUME NEW y \in ZStates, NEW b
    PROVE  Settle(Settle(y, b), b) = Settle(y, b)
<1>1. CASE Running(y, b) BY <1>1, SettleType
<1>2. CASE ~ Running(y, b)
  <2>1. \A w \in ZStates : Shift(w, 0) = w BY DEF Shift, ZStates
  <2>2. Settle(Shift(Settle(y, b), 0), b) = Settle(Shift(y, 0), b) BY <1>2, SettledShift
  <2> QED BY <2>1, <2>2, SettleType
<1> QED BY <1>1, <1>2

-----------------------------------------------------------------------------
(* Caught up.                                                              *)

\* Catching up leaves a Z80 at rest.
LEMMA CatchUpType ==
    ASSUME NEW y \in ZStates, NEW b, NEW t
    PROVE  /\ CatchUp(y, b, t) \in ZStates
           /\ Rests(CatchUp(y, b, t), b)
           /\ Settle(CatchUp(y, b, t), b) = CatchUp(y, b, t)
<1>1. y.lead \in Int BY DEF ZStates
<1>2. CASE y.lead >= 0 BY <1>1, <1>2, SettleType DEF CatchUp, Rests
<1>3. CASE y.lead < 0
  <2>1. PICK e \in Orbit(BeatStep(b, t), ZStates, y) :
               Rests(e, b) /\ CatchUp(y, b, t) = Settle(e, b)
    BY <1>3, CatchUpIs
  <2>2. e \in ZStates BY DEF Orbit
  <2>3. Rests(Settle(e, b), b)
    <3>1. CASE Running(e, b) BY <2>1, <2>2, <3>1, SettleType
    <3>2. CASE ~ Running(e, b) BY <2>2, <3>2, SettleType DEF Rests
    <3> QED BY <3>1, <3>2
  <2> QED BY <2>1, <2>2, <2>3, SettleType, SettleTwice
<1> QED BY <1>1, <1>2, <1>3

\* Nothing is left to do.
LEMMA CaughtUp ==
    ASSUME NEW y \in ZStates, NEW b, NEW t, Rests(y, b), Settle(y, b) = y
    PROVE  CatchUp(y, b, t) = y
<1>1. y.lead \in Int BY DEF ZStates
<1>2. CASE y.lead >= 0 BY <1>2 DEF CatchUp
<1>3. CASE y.lead < 0
  <2>1. PICK e \in Orbit(BeatStep(b, t), ZStates, y) :
               Rests(e, b) /\ CatchUp(y, b, t) = Settle(e, b)
    BY <1>3, CatchUpIs
  <2>2. e \in ZStates /\ y \in Orbit(BeatStep(b, t), ZStates, y) BY OrbitStart DEF Orbit
  <2>3. BeatStep(b, t)[y] = y /\ BeatStep(b, t)[e] = e BY <2>1, <2>2, RestsStep
  <2>4. e = y BY <2>2, <2>3, BeatStepType, OrbitRest
  <2> QED BY <2>1, <2>4
<1> QED BY <1>1, <1>2, <1>3

-----------------------------------------------------------------------------
(* The beats do not depend on when they are counted from.                  *)

\* The level at the time of the Z80 does not depend on where the clock is,
LEMMA LevelShift ==
    ASSUME NEW t \in Int, NEW k \in Int, NEW a \in Int
    PROVE  IntLevelAt(((t + k) % Frame) + (a - k)) = IntLevelAt(t + a)
<1>1. Frame \in Nat \ {0} /\ t + k \in Int /\ a - k \in Int BY FrameFacts
<1>2. (((t + k) % Frame) + (a - k)) % Frame = ((t + k) + (a - k)) % Frame BY <1>1, ModAdd, Zenon
<1>3. (t + k) + (a - k) = t + a OBVIOUS
<1> QED BY <1>2, <1>3 DEF IntLevelAt

\* nor do the clocks an instruction takes,
LEMMA AfterShift ==
    ASSUME NEW y \in ZStates, NEW k \in Int
    PROVE  /\ After(Shift(y, k), 1) = Shift(After(y, 1), k)
           /\ After(Shift(y, k), 2) = Shift(After(y, 2), k)
<1>1. y.lead \in Int BY DEF ZStates
<1>2. ASSUME NEW c \in Int PROVE After(Shift(y, k), c) = Shift(After(y, c), k)
  <2>1. PICK p \in Int : p = c * Divider BY Constants0
  <2>2. After(Shift(y, k), c) = [y EXCEPT !.lead = (y.lead - k) + p]
    BY <2>1 DEF After, Shift, ZStates
  <2>3. Shift(After(y, c), k) = [y EXCEPT !.lead = (y.lead + p) - k]
    BY <2>1 DEF After, Shift, ZStates
  <2>4. (y.lead - k) + p = (y.lead + p) - k BY <1>1
  <2> QED BY <2>2, <2>3, <2>4
<1> QED BY <1>2

\* its effect,
LEMMA EffectShift ==
    ASSUME NEW y \in ZStates, NEW k \in Int
    PROVE  Effect(Shift(y, k)) = Shift(Effect(y), k)
<1> DEFINE op == y.ram[y.pc]
           w == [y EXCEPT !.pc = (@ + 1) % CodeSize, !.deferral = FALSE]
           v == [Shift(y, k) EXCEPT !.pc = (@ + 1) % CodeSize, !.deferral = FALSE]
<1>1. y.pc \in Code /\ y.pc + 1 \in Int /\ (y.pc + 1) % CodeSize \in Code
  BY Constants0 DEF ZStates, Code
<1>2. w \in ZStates /\ w.ram = y.ram /\ w.ram \in Rams BY <1>1 DEF ZStates
<1>3. op \in 0 .. 3 BY <1>1, Memory DEF ZStates, Rams
<1>4. v = Shift(w, k) BY DEF Shift, ZStates
<1>5. Shift(y, k).ram[Shift(y, k).pc] = op BY DEF Shift, ZStates
<1> HIDE DEF w, op, v
<1>6. CASE op = Inc
  <2> DEFINE u == [w EXCEPT !.ram[Mailbox] = (@ + 1) % CodeSize]
  <2>1. w.ram[Mailbox] \in Code BY <1>2, Memory DEF Rams
  <2>2. (w.ram[Mailbox] + 1) % CodeSize \in Code BY <2>1, Constants0 DEF Code
  <2>3. [w.ram EXCEPT ![Mailbox] = (@ + 1) % CodeSize] \in Rams
    BY <1>2, <2>2, Memory, RamStore
  <2>4. u \in ZStates BY <1>2, <2>3 DEF ZStates
  <2>5. Effect(y) = After(u, 1) BY <1>6 DEF Effect, op, w, Inc, Ei, Halt, Bad
  <2>6. Effect(Shift(y, k)) = After([v EXCEPT !.ram[Mailbox] = (@ + 1) % CodeSize], 1)
    BY <1>5, <1>6 DEF Effect, v, Inc, Ei, Halt, Bad
  <2>7. [v EXCEPT !.ram[Mailbox] = (@ + 1) % CodeSize] = Shift(u, k)
    BY <1>2, <1>4 DEF Shift, ZStates
  <2> HIDE DEF u
  <2> QED BY <2>4, <2>5, <2>6, <2>7, AfterShift
<1>7. CASE op = Ei
  <2> DEFINE u == [w EXCEPT !.iff = TRUE, !.deferral = TRUE]
  <2>4. u \in ZStates BY <1>2 DEF ZStates
  <2>5. Effect(y) = After(u, 1) BY <1>7 DEF Effect, op, w, Inc, Ei, Halt, Bad
  <2>6. Effect(Shift(y, k)) = After([v EXCEPT !.iff = TRUE, !.deferral = TRUE], 1)
    BY <1>5, <1>7 DEF Effect, v, Inc, Ei, Halt, Bad
  <2>7. [v EXCEPT !.iff = TRUE, !.deferral = TRUE] = Shift(u, k)
    BY <1>2, <1>4 DEF Shift, ZStates
  <2> HIDE DEF u
  <2> QED BY <2>4, <2>5, <2>6, <2>7, AfterShift
<1>8. CASE op = Halt
  <2> DEFINE u == [w EXCEPT !.halted = TRUE]
  <2>4. u \in ZStates BY <1>2 DEF ZStates
  <2>5. Effect(y) = After(u, 1) BY <1>8 DEF Effect, op, w, Inc, Ei, Halt, Bad
  <2>6. Effect(Shift(y, k)) = After([v EXCEPT !.halted = TRUE], 1)
    BY <1>5, <1>8 DEF Effect, v, Inc, Ei, Halt, Bad
  <2>7. [v EXCEPT !.halted = TRUE] = Shift(u, k)
    BY <1>2, <1>4 DEF Shift, ZStates
  <2> HIDE DEF u
  <2> QED BY <2>4, <2>5, <2>6, <2>7, AfterShift
<1>9. CASE op = Bad
  <2>5. Effect(y) = After(w, 2) BY <1>9 DEF Effect, op, w, Inc, Ei, Halt, Bad
  <2>6. Effect(Shift(y, k)) = After(v, 2)
    BY <1>5, <1>9 DEF Effect, v, Inc, Ei, Halt, Bad
  <2> QED BY <1>2, <1>4, <2>5, <2>6, AfterShift
<1> QED BY <1>3, <1>6, <1>7, <1>8, <1>9 DEF Inc, Ei, Halt, Bad

\* the owner of the program counter,
LEMMA OwnerShift ==
    ASSUME NEW y \in ZStates, NEW k \in Int
    PROVE  Owner(Shift(y, k)) = Shift(Owner(y), k)
<1> DEFINE v == Shift(y, k)
<1>1. v.pc = y.pc /\ v.bound = y.bound /\ v.ram = y.ram BY DEF Shift, ZStates
<1>2. Effect(v) = Shift(Effect(y), k) /\ Effect(y) \in ZStates BY EffectShift, EffectType
<1>3. ASSUME NEW w \in ZStates
      PROVE  /\ Isolated(Shift(w, k)) = Shift(Isolated(w), k)
             /\ [Shift(w, k) EXCEPT !.stop = "no_owner"] = Shift([w EXCEPT !.stop = "no_owner"], k)
             /\ [Shift(w, k) EXCEPT !.stop = "view"] = Shift([w EXCEPT !.stop = "view"], k)
             /\ IsolateViewStops(Shift(w, k)) <=> IsolateViewStops(w)
  BY DEF Isolated, Shift, ZStates, IsolateViewStops
<1>4. ASSUME NEW w \in ZStates PROVE ViewStopped(Shift(w, k)) = Shift(ViewStopped(w), k)
  BY <1>3 DEF ViewStopped
<1> HIDE DEF v
<1>5. CASE y.pc \notin DOMAIN Images[y.bound]
  <2>1. Owner(y) = [y EXCEPT !.stop = "no_owner"] BY <1>5 DEF Owner
  <2>2. Owner(v) = [v EXCEPT !.stop = "no_owner"] BY <1>1, <1>5 DEF Owner
  <2> QED BY <1>3, <2>1, <2>2 DEF v
<1>6. CASE y.pc \in DOMAIN Images[y.bound] /\ y.ram[y.pc] # Images[y.bound][y.pc]
  <2>1. Owner(y) = Isolated(y) BY <1>6 DEF Owner
  <2>2. Owner(v) = Isolated(v) BY <1>1, <1>6 DEF Owner
  <2> QED BY <1>3, <2>1, <2>2 DEF v
<1>7. CASE y.pc \in DOMAIN Images[y.bound] /\ ~ (y.ram[y.pc] # Images[y.bound][y.pc])
  <2>1. Owner(y) = IF y.ram[y.pc] = Bad THEN ViewStopped(Effect(y)) ELSE Effect(y) BY <1>7 DEF Owner
  <2>2. Owner(v) = IF y.ram[y.pc] = Bad THEN ViewStopped(Effect(v)) ELSE Effect(v)
    BY <1>1, <1>7 DEF Owner
  <2> QED BY <1>2, <1>4, <2>1, <2>2 DEF v
<1> QED BY <1>5, <1>6, <1>7

\* or a beat.
LEMMA BeatShift ==
    ASSUME NEW y \in ZStates, NEW t \in Int, NEW k \in Int
    PROVE  Beat(Shift(y, k), (t + k) % Frame) = Shift(Beat(y, t), k)
<1> DEFINE v == Shift(y, k)
           level == IntLevelAt(t + y.lead)
<1>1. y.lead \in Int /\ v.lead = y.lead - k /\ v.lead \in Int BY DEF Shift, ZStates
<1>2. v.iff = y.iff /\ v.deferral = y.deferral /\ v.halted = y.halted /\ v.pc = y.pc
  BY DEF Shift, ZStates
<1>3. IntLevelAt(((t + k) % Frame) + v.lead) = level
  <2>1. IntLevelAt(((t + k) % Frame) + (y.lead - k)) = level BY <1>1, LevelShift
  <2> QED BY <1>1, <2>1
<1>4. Beat(y, t) = Boundary(y, level, y.lead + 1) /\ Beat(v, (t + k) % Frame) = Boundary(v, level, v.lead + 1)
  BY <1>3 DEF Beat
<1> HIDE DEF level
<1>5. CASE level /\ y.iff /\ ~ y.deferral
  <2> DEFINE w == [y EXCEPT !.iff = FALSE, !.halted = FALSE, !.deferral = FALSE,
                            !.ram[Mailbox] = y.pc, !.pc = 0]
             x == [v EXCEPT !.iff = FALSE, !.halted = FALSE, !.deferral = FALSE,
                            !.ram[Mailbox] = v.pc, !.pc = 0]
  <2>1. [y.ram EXCEPT ![Mailbox] = y.pc] \in Rams BY RamStore, Memory DEF ZStates
  <2>2. w \in ZStates BY <2>1, Memory DEF ZStates
  <2>3. x = Shift(w, k) BY <1>2 DEF Shift, ZStates
  <2> HIDE DEF v
  <2>4. Beat(y, t) = After(w, 2) BY <1>4, <1>5 DEF Boundary, AcceptInt
  <2>5. Beat(v, (t + k) % Frame) = After(x, 2) BY <1>2, <1>4, <1>5 DEF Boundary, AcceptInt
  <2> HIDE DEF w, x
  <2> QED BY <2>2, <2>3, <2>4, <2>5, AfterShift DEF v
<1>6. CASE ~ (level /\ y.iff /\ ~ y.deferral) /\ y.halted
  <2>1. PICK c \in Int : c = M1 * Divider /\ c > 0
    <3>1. \E c \in Nat \ {0} : c = M1 * Divider
      <4>1. 0 < 1 OBVIOUS
      <4> QED BY <4>1, HaltedJump
    <3> QED BY <3>1
  <2>2. PICK p \in Int : p = c * (c \div c) BY <2>1
  <2>3. ASSUME NEW a \in Int PROVE (a + 1) - a + c - 1 = c BY <2>1
  <2>4. Beat(y, t) = [y EXCEPT !.lead = y.lead + p]
    <3>1. Beat(y, t) = [y EXCEPT !.lead = y.lead + c * (((y.lead + 1) - y.lead + c - 1) \div c)]
      BY <1>4, <1>6, <2>1 DEF Boundary
    <3> QED BY <1>1, <2>2, <2>3, <3>1
  <2>5. Beat(v, (t + k) % Frame) = [v EXCEPT !.lead = v.lead + p]
    <3> HIDE DEF v
    <3>1. Beat(v, (t + k) % Frame) = [v EXCEPT !.lead = v.lead + c * (((v.lead + 1) - v.lead + c - 1) \div c)]
      BY <1>2, <1>4, <1>6, <2>1 DEF Boundary
    <3> QED BY <1>1, <2>2, <2>3, <3>1
  <2>6. Shift(Beat(y, t), k) = [y EXCEPT !.lead = (y.lead + p) - k] BY <2>4 DEF Shift, ZStates
  <2>7. [v EXCEPT !.lead = v.lead + p] = [y EXCEPT !.lead = (y.lead - k) + p] BY <1>1 DEF Shift, ZStates
  <2>8. (y.lead - k) + p = (y.lead + p) - k BY <1>1, <2>2
  <2> QED BY <2>5, <2>6, <2>7, <2>8
<1>7. CASE ~ (level /\ y.iff /\ ~ y.deferral) /\ ~ y.halted
  <2>1. Beat(y, t) = Owner(y) BY <1>4, <1>7 DEF Boundary
  <2>2. Beat(v, (t + k) % Frame) = Owner(v)
    <3> HIDE DEF v
    <3> QED BY <1>2, <1>4, <1>7 DEF Boundary
  <2> QED BY <2>1, <2>2, OwnerShift
<1> QED BY <1>5, <1>6, <1>7

\* It does not matter whether the Z80 is brought up to the clock before the clock moves on:
\* the quantum and every access in between cannot be told.
LEMMA CatchUpLater ==
    ASSUME NEW y \in ZStates, NEW b, NEW t \in Int, NEW k \in Nat
    PROVE  CatchUp(Later(CatchUp(y, b, t), b, k), b, (t + k) % Frame)
           = CatchUp(Later(y, b, k), b, (t + k) % Frame)
<1> DEFINE u == (t + k) % Frame
<1>1. y.lead \in Int BY DEF ZStates
<1>2. ASSUME NEW w PROVE Later(w, b, k) = Settle(Shift(w, k), b) BY DEF Later, Shift
<1>3. CASE y.lead >= 0 BY <1>3 DEF CatchUp
<1>4. CASE y.lead < 0 /\ ~ Running(y, b)
  <2>1. CatchUp(y, b, t) = Settle(y, b)
    <3>1. PICK e \in Orbit(BeatStep(b, t), ZStates, y) :
                 Rests(e, b) /\ CatchUp(y, b, t) = Settle(e, b)
      BY <1>4, CatchUpIs
    <3>2. e \in ZStates /\ y \in Orbit(BeatStep(b, t), ZStates, y) BY OrbitStart DEF Orbit
    <3>3. Rests(y, b) BY <1>4 DEF Rests
    <3>4. BeatStep(b, t)[y] = y /\ BeatStep(b, t)[e] = e BY <3>1, <3>2, <3>3, RestsStep
    <3>5. e = y BY <3>2, <3>4, BeatStepType, OrbitRest
    <3> QED BY <3>1, <3>5
  <2>2. Later(CatchUp(y, b, t), b, k) = Later(y, b, k) BY <1>2, <1>4, <2>1, SettledShift
  <2> QED BY <2>2
<1>5. CASE y.lead < 0 /\ Running(y, b)
  <2> DEFINE g == BeatStep(b, t)
             h == BeatStep(b, u)
             O == Orbit(h, ZStates, Shift(y, k))
  <2>1. PICK e \in Orbit(g, ZStates, y) : Rests(e, b) /\ CatchUp(y, b, t) = Settle(e, b)
    BY <1>5, CatchUpIs
  <2>2. e \in ZStates /\ e.lead \in Int BY DEF Orbit, ZStates
  <2>3. Shift(y, k) \in ZStates /\ Shift(e, k) \in ZStates
        /\ Shift(y, k).lead < 0 /\ Shift(e, k).lead = e.lead - k
        /\ Running(Shift(y, k), b) /\ (Running(Shift(e, k), b) <=> Running(e, b))
    <3>1. k \in Int /\ k >= 0 OBVIOUS
    <3>2. Shift(y, k) \in ZStates /\ Shift(y, k).lead = y.lead - k /\ (Running(Shift(y, k), b) <=> Running(y, b))
      BY <3>1, ShiftType
    <3>3. Shift(e, k) \in ZStates /\ Shift(e, k).lead = e.lead - k /\ (Running(Shift(e, k), b) <=> Running(e, b))
      BY <2>2, <3>1, ShiftType
    <3> QED BY <1>1, <1>5, <3>1, <3>2, <3>3
  <2>4. h \in [ZStates -> ZStates] BY BeatStepType
  <2>5. Shift(e, k) \in O
    <3> DEFINE T == {x \in ZStates : Shift(x, k) \in O}
    <3>1. T \in SUBSET ZStates /\ y \in T BY <2>3, OrbitStart
    <3>2. ASSUME NEW x \in T PROVE g[x] \in T
      <4>1. x \in ZStates /\ Shift(x, k) \in O OBVIOUS
      <4>2. CASE ~ (Running(x, b) /\ x.lead < 0) BY <4>1, <4>2 DEF BeatStep
      <4>3. CASE Running(x, b) /\ x.lead < 0
        <5>1. g[x] = Beat(x, t) /\ g[x] \in ZStates BY <4>1, <4>3, BeatType DEF BeatStep
        <5>2. Shift(Beat(x, t), k) = Beat(Shift(x, k), u) BY <4>1, BeatShift
        <5>3. Shift(x, k) \in ZStates /\ Running(Shift(x, k), b) /\ Shift(x, k).lead < 0
          <6>1. x.lead \in Int BY <4>1 DEF ZStates
          <6>2. k \in Int /\ k >= 0 OBVIOUS
          <6>3. Shift(x, k) \in ZStates /\ Shift(x, k).lead = x.lead - k /\ (Running(Shift(x, k), b) <=> Running(x, b))
            BY <4>1, <6>2, ShiftType
          <6> QED BY <4>3, <6>1, <6>2, <6>3
        <5>4. h[Shift(x, k)] = Beat(Shift(x, k), u) BY <5>3 DEF BeatStep
        <5>5. h[Shift(x, k)] \in O BY <2>3, <2>4, <4>1, OrbitStep
        <5> QED BY <5>1, <5>2, <5>4, <5>5
      <4> QED BY <4>2, <4>3
    <3>3. Orbit(g, ZStates, y) \subseteq T
      <4> HIDE DEF T, g
      <4> QED BY <3>1, <3>2, OrbitWithin
    <3> QED BY <2>1, <3>3
  <2>6. Later(y, b, k) = Shift(y, k) BY <1>2, <2>3, SettleType
  <2>7. PICK f \in O : Rests(f, b) /\ CatchUp(Shift(y, k), b, u) = Settle(f, b)
    BY <2>3, CatchUpIs
  <2>8. f \in ZStates /\ h[f] = f
    <3>1. f \in ZStates BY DEF Orbit
    <3> QED BY <2>7, <3>1, RestsStep
  <2>9. CASE Rests(Shift(e, k), b)
    <3>1. h[Shift(e, k)] = Shift(e, k) BY <2>3, <2>9, RestsStep
    <3>2. f = Shift(e, k) BY <2>3, <2>4, <2>5, <2>8, <3>1, OrbitRest
    <3>3. Later(CatchUp(y, b, t), b, k) = Settle(Shift(e, k), b)
      <4>1. CASE Running(e, b) BY <1>2, <2>1, <2>2, <4>1, SettleType
      <4>2. CASE ~ Running(e, b) BY <1>2, <2>1, <2>2, <4>2, SettledShift
      <4> QED BY <4>1, <4>2
    <3>4. CatchUp(Settle(Shift(e, k), b), b, u) = Settle(Shift(e, k), b)
      <4>1. Settle(Shift(e, k), b) \in ZStates /\ Rests(Settle(Shift(e, k), b), b)
        <5>1. CASE Running(Shift(e, k), b) BY <2>3, <2>9, <5>1, SettleType
        <5>2. CASE ~ Running(Shift(e, k), b) BY <2>3, <5>2, SettleType DEF Rests
        <5> QED BY <5>1, <5>2
      <4>2. Settle(Settle(Shift(e, k), b), b) = Settle(Shift(e, k), b) BY <2>3, SettleTwice
      <4> QED BY <4>1, <4>2, CaughtUp
    <3> QED BY <2>6, <2>7, <3>2, <3>3, <3>4
  <2>10. CASE ~ Rests(Shift(e, k), b)
    <3>1. Running(Shift(e, k), b) /\ Shift(e, k).lead < 0 /\ Running(e, b) BY <2>3, <2>10 DEF Rests
    <3>2. Later(CatchUp(y, b, t), b, k) = Shift(e, k) BY <1>2, <2>1, <2>2, <2>3, <3>1, SettleType
    <3>3. PICK d \in Orbit(h, ZStates, Shift(e, k)) :
              Rests(d, b) /\ CatchUp(Shift(e, k), b, u) = Settle(d, b)
      BY <2>3, <3>1, CatchUpIs
    <3>4. d \in O
      <4>1. Orbit(h, ZStates, Shift(e, k)) \subseteq O BY <2>3, <2>4, <2>5, OrbitTrans
      <4> QED BY <4>1
    <3>5. d \in ZStates BY DEF Orbit
    <3>6. h[d] = d BY <3>3, <3>5, RestsStep
    <3>7. d = f BY <2>3, <2>4, <2>8, <3>4, <3>6, OrbitRest
    <3> QED BY <2>6, <2>7, <3>2, <3>3, <3>7
  <2> QED BY <2>9, <2>10
<1> QED BY <1>1, <1>3, <1>4, <1>5

-----------------------------------------------------------------------------
(* The bus latches.                                                        *)

Buses == [requested : BOOLEAN, released : BOOLEAN, executed : BOOLEAN, written : SUBSET Cells]

\* The choice of an image leaves a Z80 state.
LEMMA ActivateType ==
    ASSUME NEW y \in ZStates, NEW cells
    PROVE  /\ Activate(y, cells) \in ZStates
           /\ Activate(y, cells).lead = y.lead /\ Activate(y, cells).fault = y.fault
<1> DEFINE signature == [c \in cells |-> y.ram[c]]
<1>1. CASE y.fault BY <1>1 DEF Activate
<1>2. CASE ~ y.fault /\ cells = {} /\ y.last # 0
  <2>1. Activate(y, cells) = [y EXCEPT !.bound = y.last] BY <1>2 DEF Activate
  <2> QED BY <2>1 DEF ZStates
<1>3. CASE ~ y.fault /\ ~ (cells = {} /\ y.last # 0) /\ \E i \in DOMAIN Images : Images[i] = signature
  <2>1. PICK i \in DOMAIN Images : i = CHOOSE j \in DOMAIN Images : Images[j] = signature
    BY <1>3
  <2>2. Activate(y, cells) = [y EXCEPT !.bound = i, !.last = i] BY <1>3, <2>1 DEF Activate
  <2> QED BY <2>2 DEF ZStates, Bindings
<1>4. CASE ~ y.fault /\ ~ (cells = {} /\ y.last # 0) /\ ~ \E i \in DOMAIN Images : Images[i] = signature
  <2>1. \E s \in StopCodes : Activate(y, cells) = [y EXCEPT !.bound = 0, !.stop = s]
    <3>1. CASE QuiesceUnknownImage(y)
      <4>1. Activate(y, cells) = [y EXCEPT !.bound = 0, !.stop = y.stop] BY <1>4, <3>1 DEF Activate, ZStates
      <4>2. y.stop \in StopCodes BY DEF ZStates
      <4> QED BY <4>1, <4>2
    <3>2. CASE ~ QuiesceUnknownImage(y)
      <4>1. Activate(y, cells) = [y EXCEPT !.bound = 0, !.stop = "unknown_image"] BY <1>4, <3>2 DEF Activate
      <4> QED BY <4>1 DEF StopCodes
    <3> QED BY <3>1, <3>2
  <2> QED BY <2>1 DEF ZStates, Bindings
<1> QED BY <1>1, <1>2, <1>3, <1>4

\* The next Z80 clock is not before the clock.
LEMMA ToZ80ClockType == ASSUME NEW t \in Int PROVE ToZ80Clock(t) \in Nat
BY Constants0 DEF ToZ80Clock

\* The release of /RESET leaves a Z80 state.
LEMMA ResetReleasedType ==
    ASSUME NEW y \in ZStates, NEW t \in Int
    PROVE  ResetReleased(y, t) \in ZStates
<1>1. PICK a \in Int : a = ToZ80Clock(t) BY ToZ80ClockType
<1>2. CASE y.fault /\ ~ RearmFaultedOnEpoch(y) BY <1>2 DEF ResetReleased
<1>3. CASE ~ (y.fault /\ ~ RearmFaultedOnEpoch(y))
  <2>1. ResetReleased(y, t) = [y EXCEPT !.pc = 0, !.iff = FALSE, !.deferral = FALSE,
                                        !.halted = FALSE, !.lead = a]
    BY <1>1, <1>3 DEF ResetReleased
  <2> QED BY <2>1, Memory DEF ZStates
<1> QED BY <1>2, <1>3

\* A Z80 that may run again is not behind.
LEMMA ResumedType ==
    ASSUME NEW y \in ZStates, NEW t \in Int
    PROVE  /\ Resumed(y, t) \in ZStates /\ Resumed(y, t).fault = y.fault
           /\ ~ y.fault => Resumed(y, t).lead >= 0
<1>1. PICK a \in Nat : a = ToZ80Clock(t) BY ToZ80ClockType
<1>2. y.lead \in Int BY DEF ZStates
<1>3. CASE ~ y.fault /\ y.lead < a
  <2>1. Resumed(y, t) = [y EXCEPT !.lead = a] BY <1>1, <1>3 DEF Resumed
  <2> QED BY <2>1 DEF ZStates
<1>4. CASE ~ (~ y.fault /\ y.lead < a)
  <2>1. Resumed(y, t) = y BY <1>1, <1>4 DEF Resumed
  <2> QED BY <1>1, <1>2, <1>4, <2>1
<1> QED BY <1>3, <1>4

\* A latch is written: the Z80 that runs afterwards is not behind.
LEMMA BusWrittenType ==
    ASSUME NEW y \in ZStates, NEW b \in Buses, NEW latch \in {"requested", "released"},
           NEW set \in BOOLEAN, NEW t \in Int, Rests(y, b), Settle(y, b) = y
    PROVE  LET w == BusWritten(y, b, latch, set, t)
           IN  /\ w.z \in ZStates /\ w.bus \in Buses
               /\ Rests(w.z, w.bus) /\ Settle(w.z, w.bus) = w.z
<1>1. CASE b[latch] = set
  <2>1. BusWritten(y, b, latch, set, t) = [z |-> y, bus |-> b] BY <1>1 DEF BusWritten
  <2> QED BY <2>1
<1>2. CASE b[latch] # set
  <2> DEFINE release == latch = "released" /\ set
             moved == [b EXCEPT ![latch] = set, !.executed = @ /\ ~ release]
             transition == Runnable(moved) /\ ~ Runnable(b)
             epoch == transition /\ ~ moved.executed
             reset == IF release THEN ResetReleased(y, t) ELSE y
             armed == [reset EXCEPT !.fault = @ /\ ~ (epoch /\ RearmFaultedOnEpoch(y))]
             timed == IF transition THEN Resumed(armed, t) ELSE armed
             after == [moved EXCEPT !.executed = @ \/ epoch,
                                    !.written = IF transition /\ (epoch \/ ~ AccumulateUntilEpoch(y))
                                                THEN {} ELSE @]
             bound == IF epoch THEN Activate(timed, b.written) ELSE timed
  <2>1. BusWritten(y, b, latch, set, t)
        = [z |-> Settle(bound, after), bus |-> IF bound.stop = None THEN after ELSE moved]
    BY <1>2 DEF BusWritten
  <2>2. moved \in Buses /\ (Runnable(moved) => transition)
    <3>1. CASE latch = "requested" BY <1>2, <3>1 DEF Buses, Runnable
    <3>2. CASE latch = "released" BY <1>2, <3>2 DEF Buses, Runnable
    <3> QED BY <3>1, <3>2
  <2>3. transition \in BOOLEAN /\ epoch \in BOOLEAN /\ release \in BOOLEAN BY DEF Runnable
  <2> HIDE DEF moved, transition, epoch, release
  <2>4. after \in Buses /\ (Runnable(after) <=> Runnable(moved)) BY <2>2, <2>3 DEF Buses, Runnable
  <2> HIDE DEF after
  <2>5. reset \in ZStates BY ResetReleasedType
  <2> HIDE DEF reset
  <2>6. armed \in ZStates BY <2>5 DEF ZStates
  <2> HIDE DEF armed
  <2>7. timed \in ZStates /\ timed.fault = armed.fault /\ (transition /\ ~ timed.fault => timed.lead >= 0)
    BY <2>6, ResumedType
  <2> HIDE DEF timed
  <2>8. bound \in ZStates /\ bound.lead = timed.lead /\ bound.fault = timed.fault
    BY <2>7, ActivateType
  <2> HIDE DEF bound
  <2>9. PICK c \in Buses : c = BusWritten(y, b, latch, set, t).bus /\ (Runnable(c) <=> Runnable(moved))
    BY <2>1, <2>2, <2>4
  <2>10. PICK x \in ZStates : x = BusWritten(y, b, latch, set, t).z /\ x = Settle(bound, after)
    BY <2>1, <2>8, SettleType
  <2>11. Running(bound, after) => bound.lead >= 0 /\ x = bound
    BY <2>2, <2>4, <2>7, <2>8, <2>10, SettleType DEF Running
  <2>12. Running(x, c) <=> Running(bound, after)
    <3>1. Running(x, c) <=> Running(bound, c) BY <2>8, <2>10, SettleType
    <3>2. Running(bound, c) <=> Running(bound, after) BY <2>4, <2>9 DEF Running
    <3> QED BY <3>1, <3>2
  <2>13. Rests(x, c) /\ Settle(x, c) = x
    <3>1. x.lead \in Int BY DEF ZStates
    <3>2. CASE Running(bound, after) BY <2>11, <2>12, <3>1, <3>2, SettleType DEF Rests
    <3>3. CASE ~ Running(bound, after)
      <4>1. Settle(x, after) = x BY <2>8, <2>10, SettleTwice
      <4>2. ~ Running(x, c) /\ ~ Running(x, after) BY <2>8, <2>10, <2>12, <3>3, SettleType
      <4>3. Settle(x, c) = Settle(x, after) BY <4>2 DEF Settle
      <4> QED BY <4>1, <4>2, <4>3 DEF Rests
    <3> QED BY <3>2, <3>3
  <2> QED BY <2>9, <2>10, <2>13
<1> QED BY <1>1, <1>2

-----------------------------------------------------------------------------
(* The inductive invariant.                                                *)

Hints == [counter : Nat, pending : BOOLEAN]
Diagnostics ==
    StopCodes \cup {"hint_not_installed", "irq6_in_work_ram", "area_without_bus",
                    "no_wake_source", "inconsistent"}

Types ==
    /\ program \in {"sound", "interrupts"} /\ rom \in Roms
    /\ clock \in 0 .. Frame - 1 /\ unsynced \in Nat
    /\ z \in ZStates /\ bus \in Buses
    /\ vdp \in [ie0 : BOOLEAN, ie1 : BOOLEAN, every : Nat]
    /\ hint \in Hints /\ vblank \in BOOLEAN
    /\ cpu \in [mask : 0 .. 7, stopped : BOOLEAN]
    /\ at \in {"run", "charge", "wait"} /\ steps \in Nat /\ ended \in Diagnostics

\* Waiting, on line `line', for the reload of the counter; or since then, for the counter.
\* `e' lines at least have begun since the wait did.
BeforeReload(e, line) == e <= line + 1 /\ (line = Lines - 1 => e = 0)
SinceReload(e, line, h) ==
    \/ line = Lines - 1 /\ h.counter = vdp.every /\ e <= Lines
    \/ line < OnsetLine /\ h.counter = vdp.every - (line + 1) /\ e <= Lines + line + 1

\* The lines since the last onset.
SinceOnset(line) == IF line >= OnsetLine THEN line - OnsetLine ELSE line - OnsetLine + Lines

VblankWakes == vdp.ie0 /\ rom.irq6 # "absent" /\ cpu.mask < 6
HintComes == HintWakes /\ vdp.every <= OnsetLine

\* What a wait that goes on says of the requests.
Waited ==
    ended = None /\ at = "wait" =>
        LET line == clock \div LineTicks
        IN  /\ VblankWakes => steps <= SinceOnset(line)
            /\ HintComes /\ ~ vblank => BeforeReload(steps, line) \/ SinceReload(steps, line, hint)

IInv == Types /\ LagIsBounded /\ Waited /\ WakelessIsFinal /\ JumpWakes

-----------------------------------------------------------------------------
(* Scanlines.                                                              *)

\* The line of a time, and of a time one frame on.
LEMMA LineOf ==
    ASSUME NEW c \in Nat
    PROVE  /\ c \div LineTicks \in Nat
           /\ (c % Frame) \div LineTicks = (c \div LineTicks) % Lines
           /\ c % Frame \in 0 .. Frame - 1
<1>1. PICK l \in Nat \ {0}, m \in Nat \ {0}, f \in Nat \ {0} : l = LineTicks /\ m = Lines /\ f = Frame /\ f = m * l
  BY Constants0, FrameFacts DEF Frame
<1>2. PICK q \in Int, s \in 0 .. f - 1 : q = c \div f /\ s = c % f /\ c = f * q + s
  BY DivMod
<1>3. PICK p \in Int, u \in 0 .. l - 1 : p = s \div l /\ s = l * p + u BY DivMod
<1>4. p \in 0 .. m - 1
  <2>1. l * p <= s /\ s < l * m /\ s < l * (p + 1)
    <3>1. l * (p + 1) = l * p + l /\ m * l = l * m OBVIOUS
    <3> QED BY <1>1, <1>2, <1>3, <3>1
  <2>2. ~ (m <= p)
    <3> SUFFICES ASSUME m <= p PROVE FALSE OBVIOUS
    <3>1. l * m <= l * p BY TimesMono
    <3> QED BY <2>1, <3>1
  <2>3. ~ (p + 1 <= 0)
    <3> SUFFICES ASSUME p + 1 <= 0 PROVE FALSE OBVIOUS
    <3>1. l * (p + 1) <= l * 0 /\ l * 0 = 0 BY TimesMono
    <3> QED BY <2>1, <3>1
  <2> QED BY <2>2, <2>3
<1>5. c = l * (m * q + p) + u
  <2>1. l * (m * q + p) = (m * l) * q + l * p OBVIOUS
  <2>2. PICK a \in Int, e \in Int : a = f * q /\ e = l * p OBVIOUS
  <2>3. l * (m * q + p) = a + e BY <1>1, <2>1, <2>2
  <2>4. c = a + s /\ s = e + u BY <1>2, <1>3, <2>2, Zenon
  <2> QED BY <2>3, <2>4
<1>6. PICK k \in Int : k = m * q + p OBVIOUS
<1>7. c \div l = k BY <1>5, <1>6, DivModUnique
<1>8. k % m = p BY <1>4, <1>6, DivModUnique
<1>9. c \div l \in Nat
  <2>1. ~ (k + 1 <= 0)
    <3> SUFFICES ASSUME k + 1 <= 0 PROVE FALSE OBVIOUS
    <3>1. l * (k + 1) <= l * 0 /\ l * 0 = 0 BY TimesMono
    <3>2. l * (k + 1) = l * k + l OBVIOUS
    <3>3. c = l * k + u BY <1>5, <1>6
    <3> QED BY <3>1, <3>2, <3>3
  <2> QED BY <1>7, <2>1
<1> QED BY <1>1, <1>2, <1>3, <1>7, <1>8, <1>9

\* The machine's lines: the present one, and how many begin.
LEMMA LinesAhead ==
    ASSUME Types, NEW ticks \in Nat
    PROVE  /\ clock \div LineTicks \in 0 .. Lines - 1
           /\ clock + ticks \in Nat
           /\ (clock + ticks) \div LineTicks - clock \div LineTicks \in Nat
           /\ (clock % LineTicks) + ticks >= LineTicks =>
                  (clock + ticks) \div LineTicks - clock \div LineTicks >= 1
<1>1. PICK l \in Nat \ {0}, m \in Nat \ {0}, f \in Nat \ {0} : l = LineTicks /\ m = Lines /\ f = Frame /\ f = m * l
  BY Constants0, FrameFacts DEF Frame
<1>2. clock \in 0 .. f - 1 BY <1>1 DEF Types
<1>3. PICK p \in Int, u \in 0 .. l - 1 : p = clock \div l /\ u = clock % l /\ clock = l * p + u
  BY <1>2, DivMod
<1>4. PICK q \in Int, s \in 0 .. l - 1 : q = (clock + ticks) \div l /\ clock + ticks = l * q + s
  <2>1. clock + ticks \in Int BY <1>2
  <2> QED BY <2>1, DivMod
<1>5. PICK lp \in Int, lq \in Int : lp = l * p /\ lq = l * q OBVIOUS
<1>6. p \in 0 .. m - 1
  <2>1. l * (p + 1) = lp + l /\ m * l = l * m BY <1>5
  <2>2. ~ (m <= p)
    <3> SUFFICES ASSUME m <= p PROVE FALSE OBVIOUS
    <3>1. l * m <= l * p BY TimesMono
    <3> QED BY <1>1, <1>2, <1>3, <1>5, <2>1, <3>1
  <2>3. ~ (p + 1 <= 0)
    <3> SUFFICES ASSUME p + 1 <= 0 PROVE FALSE OBVIOUS
    <3>1. l * (p + 1) <= l * 0 /\ l * 0 = 0 BY TimesMono
    <3> QED BY <1>2, <1>3, <1>5, <2>1, <3>1
  <2> QED BY <2>2, <2>3
<1>7. clock = lp + u /\ clock + ticks = lq + s BY <1>3, <1>4, <1>5, Zenon
<1>8. ~ (q + 1 <= p)
  <2> SUFFICES ASSUME q + 1 <= p PROVE FALSE OBVIOUS
  <2>1. l * (q + 1) <= l * p /\ l * (q + 1) = lq + l BY <1>5, TimesMono
  <2> QED BY <1>2, <1>5, <1>7, <2>1
<1>9. u + ticks >= l => ~ (q <= p)
  <2> SUFFICES ASSUME u + ticks >= l, q <= p PROVE FALSE OBVIOUS
  <2>1. l * q <= l * p BY TimesMono
  <2> QED BY <1>2, <1>5, <1>7, <2>1
<1> QED BY <1>1, <1>2, <1>3, <1>4, <1>6, <1>8, <1>9

\* A line leaves a counter and a request.
LEMMA EnterLineType ==
    ASSUME Types, NEW h \in Hints, NEW line \in Nat
    PROVE  EnterLine(h, line) \in Hints /\ (h.pending => EnterLine(h, line).pending)
<1>1. h.counter \in Nat /\ h.pending \in BOOLEAN /\ vdp.every \in Nat BY DEF Hints, Types
<1>2. CASE line < OnsetLine
  <2>1. CASE h.counter = 0
    <3>1. EnterLine(h, line) = [counter |-> vdp.every, pending |-> TRUE] BY <1>2, <2>1 DEF EnterLine
    <3> QED BY <1>1, <3>1 DEF Hints
  <2>2. CASE h.counter # 0
    <3>1. EnterLine(h, line) = [h EXCEPT !.counter = h.counter - 1] BY <1>2, <2>2 DEF EnterLine
    <3> QED BY <1>1, <2>2, <3>1 DEF Hints
  <2> QED BY <2>1, <2>2
<1>3. CASE ~ (line < OnsetLine)
  <2>1. \/ EnterLine(h, line) = [h EXCEPT !.pending = h.pending \/ h.counter = 0]
        \/ EnterLine(h, line) = [h EXCEPT !.counter = vdp.every]
        \/ EnterLine(h, line) = h
    BY <1>3 DEF EnterLine
  <2> QED BY <1>1, <2>1 DEF Hints
<1> QED BY <1>2, <1>3

\* The lines one after the other.
Rows == Nat \X Hints
EnterNext(first) == [p \in Rows |-> <<p[1] + 1, EnterLine(p[2], (first + (p[1] + 1)) % Lines)>>]

\* The function of lines and counters that the scanlines iterate.
LEMMA EnterNextType ==
    ASSUME Types, NEW first \in Nat
    PROVE  EnterNext(first) \in [Rows -> Rows]
<1>1. ASSUME NEW p \in Rows PROVE <<p[1] + 1, EnterLine(p[2], (first + (p[1] + 1)) % Lines)>> \in Rows
  <2>1. p[1] \in Nat /\ p[2] \in Hints BY DEF Rows
  <2>2. (first + (p[1] + 1)) % Lines \in Nat /\ p[1] + 1 \in Nat BY <2>1, Constants0
  <2> QED BY <2>1, <2>2, EnterLineType DEF Rows
<1> QED BY <1>1 DEF EnterNext

\* genesis_raster_advance iterates it.
LEMMA RasterIs ==
    ASSUME Types, NEW ticks \in Nat,
           NEW first \in Nat, first = clock \div LineTicks,
           NEW n \in Nat, n = (clock + ticks) \div LineTicks - first
    PROVE  \E f : /\ Iterates(f, EnterNext(first), Rows, <<0, hint>>, n)
                  /\ \A i \in 0 .. n : f[i][1] = i
                  /\ RasterAdvance(ticks) = f[n][2]
<1> DEFINE P(h) == h = [i \in 0 .. n |-> IF i = 0 THEN hint ELSE EnterLine(h[i - 1], (first + i) % Lines)]
<1>1. <<0, hint>> \in Rows BY DEF Rows, Types
<1>2. PICK f : Iterates(f, EnterNext(first), Rows, <<0, hint>>, n)
  BY <1>1, EnterNextType, IteratesExist
<1>3. f \in [0 .. n -> Rows] /\ f[0] = <<0, hint>> /\ \A i \in 1 .. n : f[i] = EnterNext(first)[f[i - 1]]
  BY <1>2 DEF Iterates
<1>4. ASSUME NEW i \in 1 .. n
      PROVE  /\ i - 1 \in 0 .. n /\ f[i - 1] \in Rows
             /\ f[i] = <<f[i - 1][1] + 1, EnterLine(f[i - 1][2], (first + (f[i - 1][1] + 1)) % Lines)>>
  <2>1. i - 1 \in 0 .. n OBVIOUS
  <2> QED BY <1>3, <2>1 DEF EnterNext
<1>5. \A i \in 0 .. n : f[i][1] = i
  <2> DEFINE T == {i \in 0 .. n : f[i][1] = i}
  <2>1. 0 \in T BY <1>3
  <2>2. ASSUME NEW i \in 0 .. n - 1, i \in T PROVE i + 1 \in T
    <3>1. i + 1 \in 1 .. n /\ (i + 1) - 1 = i OBVIOUS
    <3>2. f[i + 1][1] = f[i][1] + 1 BY <1>4, <3>1
    <3> QED BY <2>2, <3>1, <3>2
  <2>3. \A i \in 0 .. n : i \in T
    <3> HIDE DEF T
    <3> QED BY <2>1, <2>2, Up
  <2> QED BY <2>3
<1>6. ASSUME NEW i \in 1 .. n PROVE f[i][2] = EnterLine(f[i - 1][2], (first + i) % Lines)
  <2>1. i - 1 \in 0 .. n BY <1>4
  <2>2. f[i - 1][1] = i - 1 BY <1>5, <2>1
  <2>3. f[i - 1][1] + 1 = i BY <2>2
  <2> QED BY <1>4, <2>3
<1>7. \E h : P(h)
  <2> DEFINE h == [i \in 0 .. n |-> f[i][2]]
  <2>1. ASSUME NEW i \in 0 .. n
        PROVE  h[i] = IF i = 0 THEN hint ELSE EnterLine(h[i - 1], (first + i) % Lines)
    <3>1. CASE i = 0 BY <1>3, <3>1
    <3>2. CASE i # 0
      <4>1. i \in 1 .. n /\ i - 1 \in 0 .. n BY <3>2
      <4>2. h[i] = f[i][2] /\ h[i - 1] = f[i - 1][2] BY <4>1
      <4> QED BY <1>6, <3>2, <4>1, <4>2
    <3> QED BY <3>1, <3>2
  <2>2. P(h) BY <2>1
  <2> QED BY <2>2
<1> DEFINE c == CHOOSE h : P(h)
<1>8. P(c)
  <2> HIDE DEF P
  <2> QED BY <1>7, Zenon
<1>9. RasterAdvance(ticks) = c[n] BY DEF RasterAdvance
<1> HIDE DEF c
<1>10. \A i \in 0 .. n : c[i] = f[i][2]
  <2> DEFINE T == {i \in 0 .. n : c[i] = f[i][2]}
  <2>1. 0 \in T BY <1>3, <1>8
  <2>2. ASSUME NEW i \in 0 .. n - 1, i \in T PROVE i + 1 \in T
    <3>1. i + 1 \in 1 .. n /\ (i + 1) - 1 = i /\ i + 1 \in 0 .. n /\ i + 1 # 0 OBVIOUS
    <3>2. c[i + 1] = EnterLine(c[i], (first + (i + 1)) % Lines) BY <1>8, <3>1
    <3>3. f[i + 1][2] = EnterLine(f[i][2], (first + (i + 1)) % Lines) BY <1>6, <3>1
    <3> QED BY <2>2, <3>1, <3>2, <3>3
  <2>3. \A i \in 0 .. n : i \in T
    <3> HIDE DEF T
    <3> QED BY <2>1, <2>2, Up
  <2> QED BY <2>3
<1> QED BY <1>2, <1>5, <1>9, <1>10

\* The scanlines keep the types.
LEMMA RasterType ==
    ASSUME Types, NEW ticks \in Nat
    PROVE  RasterAdvance(ticks) \in Hints
<1>1. PICK first \in Nat, n \in Nat : first = clock \div LineTicks /\ n = (clock + ticks) \div LineTicks - first
  BY LinesAhead
<1>2. PICK f : /\ Iterates(f, EnterNext(first), Rows, <<0, hint>>, n)
               /\ RasterAdvance(ticks) = f[n][2]
  BY <1>1, RasterIs
<1>3. f[n] \in Rows BY <1>2 DEF Iterates
<1> QED BY <1>2, <1>3 DEF Rows

\* A line begins: a counter that is reloaded with a value a field of lines counts down
\* comes to a request.
Phase(e, line, h) == h.pending \/ BeforeReload(e, line) \/ SinceReload(e, line, h)

\* One more line keeps the account of the lines waited for, or makes the request.
LEMMA PhaseStep ==
    ASSUME Types, vdp.every <= OnsetLine, NEW h \in Hints, NEW e \in Nat, NEW line \in 0 .. Lines - 1,
           Phase(e, line, h)
    PROVE  Phase(e + 1, (line + 1) % Lines, EnterLine(h, (line + 1) % Lines))
<1>1. PICK m \in Nat, o \in Nat \ {0} : m = Lines /\ o = OnsetLine /\ o + 1 < m BY Constants0
<1>2. h.counter \in Nat /\ h.pending \in BOOLEAN /\ vdp.every \in Nat BY DEF Hints, Types
<1>3. PICK next \in 0 .. m - 1 : next = (line + 1) % m /\ next = IF line = m - 1 THEN 0 ELSE line + 1
  <2>1. CASE line = m - 1
    <3>1. line + 1 = m * 1 + 0 /\ 0 \in 0 .. m - 1 /\ m \in Nat \ {0} BY <1>1, <2>1
    <3>2. (line + 1) % m = 0 BY <1>1, <3>1, DivModUnique
    <3> QED BY <1>1, <2>1, <3>2
  <2>2. CASE line # m - 1
    <3>1. line + 1 = m * 0 + (line + 1) /\ line + 1 \in 0 .. m - 1 /\ m \in Nat \ {0} BY <1>1, <2>2
    <3>3. line + 1 \in Int /\ 0 \in Int BY <3>1
    <3>2. (line + 1) % m = line + 1 BY <3>1, <3>3, DivModUnique, Zenon
    <3> QED BY <1>1, <2>2, <3>1, <3>2
  <2> QED BY <2>1, <2>2
<1> DEFINE k == EnterLine(h, next)
<1>4. CASE h.pending
  <2>1. next \in Nat BY <1>1, <1>3
  <2> QED BY <1>1, <1>3, <1>4, <2>1, EnterLineType DEF Phase
<1>5. CASE BeforeReload(e, line)
  <2>1. CASE line = m - 2
    <3>1. next = m - 1 BY <1>1, <1>3, <2>1
    <3>2. k = [h EXCEPT !.counter = vdp.every] BY <1>1, <3>1 DEF EnterLine
    <3>3. k.counter = vdp.every BY <3>2 DEF Hints
    <3>4. e + 1 <= m BY <1>1, <1>5, <2>1 DEF BeforeReload
    <3> QED BY <1>1, <1>3, <3>1, <3>3, <3>4 DEF Phase, SinceReload
  <2>2. CASE line # m - 2
    <3>1. BeforeReload(e + 1, next) BY <1>1, <1>3, <1>5, <2>2 DEF BeforeReload
    <3> QED BY <1>1, <1>3, <3>1 DEF Phase
  <2> QED BY <2>1, <2>2
<1>6. CASE SinceReload(e, line, h)
  <2>1. /\ next <= o /\ h.counter = vdp.every - next /\ e <= m + next
    <3>1. CASE line = m - 1 BY <1>1, <1>2, <1>3, <1>6, <3>1 DEF SinceReload
    <3>2. CASE line # m - 1 BY <1>1, <1>2, <1>3, <1>6, <3>2 DEF SinceReload
    <3> QED BY <3>1, <3>2
  <2>2. CASE next = o
    <3>1. h.counter = 0 BY <1>1, <1>2, <2>1, <2>2
    <3>2. k = [h EXCEPT !.pending = h.pending \/ h.counter = 0] BY <1>1, <2>2 DEF EnterLine
    <3>3. k.pending BY <3>1, <3>2 DEF Hints
    <3> QED BY <1>1, <1>3, <3>3 DEF Phase
  <2>3. CASE next # o /\ h.counter = 0
    <3>1. next < OnsetLine BY <1>1, <1>3, <2>1, <2>3
    <3>2. k = [counter |-> vdp.every, pending |-> TRUE] BY <2>3, <3>1 DEF EnterLine
    <3>3. k.pending BY <3>2
    <3> QED BY <1>1, <1>3, <3>3 DEF Phase
  <2>4. CASE next # o /\ h.counter # 0
    <3>1. next < OnsetLine BY <1>1, <1>3, <2>1, <2>4
    <3>2. k = [h EXCEPT !.counter = h.counter - 1] BY <2>4, <3>1 DEF EnterLine
    <3>3. k.counter = vdp.every - (next + 1)
      <4>1. k.counter = h.counter - 1 BY <3>2 DEF Hints
      <4> QED BY <1>2, <1>3, <2>1, <4>1
    <3>4. e + 1 <= m + next + 1 BY <1>1, <1>3, <2>1
    <3> QED BY <1>1, <1>3, <3>1, <3>3, <3>4 DEF Phase, SinceReload
  <2> QED BY <2>2, <2>3, <2>4
<1> QED BY <1>4, <1>5, <1>6 DEF Phase

\* So do any number of lines.
LEMMA PhaseAdvance ==
    ASSUME Types, vdp.every <= OnsetLine, NEW e \in Nat, Phase(e, clock \div LineTicks, hint),
           NEW ticks \in Nat
    PROVE  Phase(e + ((clock + ticks) \div LineTicks - clock \div LineTicks),
                 ((clock + ticks) % Frame) \div LineTicks, RasterAdvance(ticks))
<1>1. PICK first \in Nat, n \in Nat : first = clock \div LineTicks /\ n = (clock + ticks) \div LineTicks - first
  BY LinesAhead
<1>2. PICK f : /\ Iterates(f, EnterNext(first), Rows, <<0, hint>>, n)
               /\ \A i \in 0 .. n : f[i][1] = i
               /\ RasterAdvance(ticks) = f[n][2]
  BY <1>1, RasterIs
<1>3. f \in [0 .. n -> Rows] /\ f[0] = <<0, hint>> /\ \A i \in 1 .. n : f[i] = EnterNext(first)[f[i - 1]]
  BY <1>2 DEF Iterates
<1>4. Lines \in Nat \ {0} /\ first \in 0 .. Lines - 1 BY <1>1, Constants0, LinesAhead
<1> DEFINE T == {i \in 0 .. n : Phase(e + i, (first + i) % Lines, f[i][2])}
<1>5. 0 \in T
  <2>1. first = Lines * 0 + first /\ first \in Int BY <1>4
  <2>2. first % Lines = first BY <1>4, <2>1, DivModUnique
  <2>3. e + 0 = e /\ first + 0 = first /\ f[0][2] = hint BY <1>3
  <2> QED BY <1>1, <2>2, <2>3
<1>6. ASSUME NEW i \in 0 .. n - 1, i \in T PROVE i + 1 \in T
  <2>1. i + 1 \in 1 .. n /\ (i + 1) - 1 = i /\ i + 1 \in 0 .. n OBVIOUS
  <2>2. f[i] \in Rows /\ f[i][1] = i /\ f[i][2] \in Hints BY <1>2, <1>3, <2>1 DEF Rows
  <2>3. f[i + 1] = <<f[i][1] + 1, EnterLine(f[i][2], (first + (f[i][1] + 1)) % Lines)>>
    BY <1>3, <2>1, <2>2 DEF EnterNext
  <2>4. f[i + 1][2] = EnterLine(f[i][2], (first + (i + 1)) % Lines) BY <2>2, <2>3
  <2>5. PICK line \in 0 .. Lines - 1 : line = (first + i) % Lines BY <1>4
  <2>6. (line + 1) % Lines = (first + (i + 1)) % Lines
    <3>1. first + i \in Int /\ 1 \in Int /\ (first + i) + 1 = first + (i + 1) OBVIOUS
    <3>2. (((first + i) % Lines) + 1) % Lines = ((first + i) + 1) % Lines BY <1>4, <3>1, ModAdd, Zenon
    <3> QED BY <2>5, <3>1, <3>2
  <2>7. e + i \in Nat /\ Phase(e + i, line, f[i][2]) BY <1>6, <2>5
  <2>8. Phase((e + i) + 1, (line + 1) % Lines, EnterLine(f[i][2], (line + 1) % Lines))
    BY <2>2, <2>7, PhaseStep
  <2>9. (e + i) + 1 = e + (i + 1) OBVIOUS
  <2>10. Phase(e + (i + 1), (first + (i + 1)) % Lines, f[i + 1][2]) BY <2>4, <2>6, <2>8, <2>9
  <2> QED BY <2>1, <2>10
<1>7. \A i \in 0 .. n : i \in T
  <2> HIDE DEF T
  <2> QED BY <1>5, <1>6, Up
<1>8. Phase(e + n, (first + n) % Lines, f[n][2]) BY <1>7
<1>9. (first + n) % Lines = ((clock + ticks) % Frame) \div LineTicks
  <2>1. PICK q \in Nat : q = (clock + ticks) \div LineTicks BY LineOf, LinesAhead
  <2>2. first + n = q BY <1>1, <2>1
  <2>3. ((clock + ticks) % Frame) \div LineTicks = q % Lines BY <2>1, LineOf, LinesAhead
  <2> QED BY <2>2, <2>3
<1> QED BY <1>1, <1>2, <1>8, <1>9

-----------------------------------------------------------------------------
(* Time passes.                                                            *)

\* What Scheduler does to the clock and the Z80.
TimeStep(ticks) ==
    /\ clock' = (clock + ticks) % Frame
    /\ unsynced' = IF unsynced + ticks >= Quantum THEN 0 ELSE unsynced + ticks
    /\ z' = IF unsynced + ticks >= Quantum THEN RunTo(Later(z, bus, ticks), bus, clock')
            ELSE Later(z, bus, ticks)
    /\ UNCHANGED <<program, rom, bus, vdp>>

\* What the clock's moving on leaves of a Z80.
LEMMA LaterType ==
    ASSUME NEW y \in ZStates, NEW b, NEW k \in Nat
    PROVE  /\ Later(y, b, k) \in ZStates
           /\ \A c : Running(Later(y, b, k), c) <=> Running(y, c)
           /\ Running(y, b) => Later(y, b, k).lead = y.lead - k
<1>1. Later(y, b, k) = Settle(Shift(y, k), b) BY DEF Later, Shift
<1>2. k \in Int OBVIOUS
<1>3. /\ Shift(y, k) \in ZStates /\ Shift(y, k).lead = y.lead - k
      /\ \A c : Running(Shift(y, k), c) <=> Running(y, c)
  BY <1>2, ShiftType
<1> QED BY <1>1, <1>3, SettleType

\* A step keeps the types of what it moves, and the lag.
LEMMA TimeStepKeeps ==
    ASSUME Types, LagIsBounded, NEW ticks \in Nat, TimeStep(ticks)
    PROVE  /\ clock' \in 0 .. Frame - 1 /\ unsynced' \in Nat /\ z' \in ZStates
           /\ program' = program /\ rom' = rom /\ bus' = bus /\ vdp' = vdp
           /\ LagIsBounded'
<1>1. unsynced \in Nat /\ z \in ZStates /\ clock \in 0 .. Frame - 1 /\ z.lead \in Int BY DEF Types, ZStates
<1>2. clock' \in 0 .. Frame - 1 BY <1>1, FrameFacts DEF TimeStep
<1> DEFINE late == Later(z, bus, ticks)
<1>3. /\ late \in ZStates /\ (Running(late, bus) <=> Running(z, bus))
      /\ Running(z, bus) => late.lead = z.lead - ticks
  BY <1>1, LaterType
<1>4. program' = program /\ rom' = rom /\ bus' = bus /\ vdp' = vdp BY DEF TimeStep
<1> HIDE DEF late
<1>5. CASE unsynced + ticks >= Quantum
  <2>1. unsynced' = 0 /\ z' = RunTo(late, bus, clock') BY <1>5 DEF TimeStep, late
  <2>2. clock' \in Int BY <1>2, FrameFacts
  <2>3. z' = CatchUp(late, bus, clock') BY <1>3, <2>1, <2>2, RunToCatchesUp
  <2>4. z' \in ZStates /\ Rests(z', bus) BY <1>3, <2>3, CatchUpType
  <2>5. z'.lead \in Int BY <2>4 DEF ZStates
  <2> QED BY <1>2, <1>4, <2>1, <2>4, <2>5 DEF LagIsBounded, Rests
<1>6. CASE ~ (unsynced + ticks >= Quantum)
  <2>1. unsynced' = unsynced + ticks /\ z' = late BY <1>6 DEF TimeStep, late
  <2>2. Running(z', bus') => z'.lead >= -unsynced'
    BY <1>1, <1>3, <1>4, <2>1 DEF LagIsBounded
  <2> QED BY <1>1, <1>2, <1>3, <1>4, <2>1, <2>2 DEF LagIsBounded
<1> QED BY <1>5, <1>6

\* The requests that a step finds.
Blank(ticks) == vblank \/ (CrossesOnset(ticks) /\ vdp.ie0)

\* The requests have their types.
LEMMA RequestType ==
    ASSUME Types, NEW ticks \in Nat
    PROVE  Blank(ticks) \in BOOLEAN /\ RasterAdvance(ticks) \in Hints
BY RasterType DEF Blank, Types

\* The cycles of an instruction, an interrupt entry or a wait, in ticks.
LEMMA TicksType ==
    ASSUME NEW cycles \in Nat
    PROVE  cycles * CycleTicks \in Nat
BY GenesisAssumption

\* The cycles of a wait reach its end, and exceed it by less than a cycle.
LEMMA InCyclesBounds ==
    ASSUME NEW a \in Nat \ {0}
    PROVE  /\ InCycles(a) \in Nat /\ InCycles(a) * CycleTicks >= a
           /\ InCycles(a) * CycleTicks < a + CycleTicks
<1>1. PICK c \in Nat \ {0} : c = CycleTicks BY GenesisAssumption
<1>2. PICK n \in Nat \ {0} : n = (a + c - 1) \div c /\ c * (n - 1) < a /\ a <= c * n BY CeilBounds
<1>3. InCycles(a) = n BY <1>1, <1>2 DEF InCycles
<1>4. c * n = n * c /\ c * (n - 1) = n * c - c OBVIOUS
<1>5. PICK p \in Int : p = n * c OBVIOUS
<1> QED BY <1>1, <1>2, <1>3, <1>4, <1>5

\* A time within the frame is on one of its lines.
LEMMA LineInFrame ==
    ASSUME NEW c \in 0 .. Frame - 1
    PROVE  c \div LineTicks \in 0 .. Lines - 1
<1>1. PICK f \in Nat \ {0} : f = Frame BY FrameFacts
<1>2. c \in Int /\ c \in Nat /\ c \in 0 .. f - 1 /\ c = f * 0 + c /\ 0 \in Int BY <1>1
<1>3. c % f = c BY <1>2, DivModUnique, Zenon
<1>4. (c % Frame) \div LineTicks = (c \div LineTicks) % Lines BY <1>2, LineOf
<1>5. c \div LineTicks \in Nat BY <1>2, LineOf
<1>6. (c \div LineTicks) % Lines \in 0 .. Lines - 1 BY <1>5, Constants0
<1> QED BY <1>1, <1>3, <1>4, <1>6

-----------------------------------------------------------------------------
(* Steps.                                                                  *)

CpuType == [mask : 0 .. 7, stopped : BOOLEAN]

\* The retirement of an instruction, with the admission of an interrupt, keeps the invariant.
LEMMA RetireKeeps ==
    ASSUME IInv, NEW cycles \in Cycles, Retire(cycles)
    PROVE  IInv'
<1> DEFINE ticks == cycles * CycleTicks
           v == Blank(ticks)
           h == RasterAdvance(ticks)
<1>1. ticks \in Nat BY GenesisAssumption, TicksType
<1>2. TimeStep(ticks) BY DEF Retire, Scheduler, TimeStep
<1>3. Types /\ LagIsBounded BY DEF IInv
<1>4. v \in BOOLEAN /\ h \in Hints /\ vblank \in BOOLEAN /\ hint \in Hints /\ cpu \in CpuType
      /\ ended = None /\ at = "run" /\ steps' = 0
  BY <1>1, <1>3, RequestType DEF Types, CpuType, Retire
<1>5. /\ clock' \in 0 .. Frame - 1 /\ unsynced' \in Nat /\ z' \in ZStates
      /\ program' = program /\ rom' = rom /\ bus' = bus /\ vdp' = vdp
      /\ LagIsBounded'
  BY <1>1, <1>2, <1>3, TimeStepKeeps
<1>6. /\ vblank' \in BOOLEAN /\ hint' \in Hints /\ cpu' \in CpuType
      /\ at' \in {"run", "charge", "wait"}
      /\ ended' \in Diagnostics \ {"no_wake_source", "inconsistent"}
  <2>1. CASE z'.stop # None
    <3>1. ended' = z'.stop /\ UNCHANGED <<hint, vblank, cpu, at>> BY <2>1 DEF Retire, Scheduler
    <3>2. z'.stop \in StopCodes BY <1>5 DEF ZStates
    <3> QED BY <1>4, <3>1, <3>2 DEF Diagnostics, StopCodes, None
  <2>2. CASE z'.stop = None
    <3>1. Admit(v, h, /\ at' = IF cpu.stopped THEN "wait" ELSE "run"
                      /\ UNCHANGED <<cpu, ended>>)
      BY <2>2 DEF Retire, Scheduler, Blank
    <3> HIDE DEF v, h
    <3>2. [h EXCEPT !.pending = FALSE] \in Hints BY <1>4 DEF Hints
    <3>3. [mask |-> 4, stopped |-> FALSE] \in CpuType /\ [mask |-> 6, stopped |-> FALSE] \in CpuType
      BY DEF CpuType
    <3> QED BY <1>4, <3>1, <3>2, <3>3 DEF Admit, Entered, Diagnostics, StopCodes, None
  <2> QED BY <2>1, <2>2
<1>7. Types' BY <1>3, <1>4, <1>5, <1>6 DEF Types, CpuType
<1>8. Waited'
  <2>1. PICK line \in 0 .. Lines - 1 : line = (clock \div LineTicks)'
    BY <1>5, LineInFrame
  <2>2. Lines \in Nat /\ OnsetLine \in Nat /\ OnsetLine < Lines BY Constants0
  <2> QED BY <1>4, <2>1, <2>2 DEF Waited, SinceOnset, BeforeReload
<1>9. WakelessIsFinal' /\ JumpWakes' BY <1>6 DEF WakelessIsFinal, JumpWakes, Diagnostics
<1> QED BY <1>5, <1>7, <1>8, <1>9 DEF IInv

\* So does the cost of an interrupt entry.
LEMMA ChargeKeeps == ASSUME IInv, Charge PROVE IInv'
<1> DEFINE ticks == EntryCycles * CycleTicks
           v == Blank(ticks)
           h == RasterAdvance(ticks)
<1>1. ticks \in Nat BY GenesisAssumption, TicksType
<1>2. TimeStep(ticks) BY DEF Charge, Scheduler, TimeStep
<1>3. Types /\ LagIsBounded BY DEF IInv
<1>4. v \in BOOLEAN /\ h \in Hints /\ vblank \in BOOLEAN /\ hint \in Hints
      /\ ended = None /\ at = "charge" /\ steps' = steps
  BY <1>1, <1>3, RequestType DEF Types, Charge
<1>5. /\ clock' \in 0 .. Frame - 1 /\ unsynced' \in Nat /\ z' \in ZStates
      /\ program' = program /\ rom' = rom /\ bus' = bus /\ vdp' = vdp
      /\ LagIsBounded'
  BY <1>1, <1>2, <1>3, TimeStepKeeps
<1>6. /\ vblank' \in BOOLEAN /\ hint' \in Hints /\ cpu' = cpu
      /\ at' \in {"run", "charge"}
      /\ ended' \in Diagnostics \ {"no_wake_source", "inconsistent"}
  <2>1. CASE z'.stop # None
    <3>1. ended' = z'.stop /\ UNCHANGED <<hint, vblank, cpu, at>> BY <2>1 DEF Charge, Scheduler
    <3>2. z'.stop \in StopCodes BY <1>5 DEF ZStates
    <3> QED BY <1>4, <3>1, <3>2 DEF Diagnostics, StopCodes, None
  <2>2. CASE z'.stop = None
    <3>1. vblank' = v /\ hint' = h /\ at' = "run" /\ UNCHANGED <<cpu, ended>>
      BY <2>2 DEF Charge, Scheduler, Blank
    <3> QED BY <1>4, <3>1 DEF Diagnostics, StopCodes, None
  <2> QED BY <2>1, <2>2
<1>7. Types' BY <1>3, <1>4, <1>5, <1>6 DEF Types
<1>8. Waited' BY <1>6 DEF Waited
<1>9. WakelessIsFinal' /\ JumpWakes' BY <1>6 DEF WakelessIsFinal, JumpWakes
<1> QED BY <1>5, <1>7, <1>8, <1>9 DEF IInv

-----------------------------------------------------------------------------
(* Accesses to the sound domain.                                           *)

\* The Z80 that an access meets.
LEMMA SyncedIs ==
    ASSUME Types
    PROVE  /\ Synced = CatchUp(z, bus, clock) /\ Synced \in ZStates
           /\ Rests(Synced, bus) /\ Settle(Synced, bus) = Synced
<1>1. z \in ZStates /\ clock \in Int BY FrameFacts DEF Types
<1> QED BY <1>1, RunToCatchesUp, CatchUpType DEF Synced

\* An access that looks keeps the invariant.
LEMMA LooksKeeps == ASSUME IInv, LooksAtSound PROVE IInv'
<1>1. Types BY DEF IInv
<1>2. /\ z' = Synced /\ ended' = z'.stop /\ unsynced' = 0 /\ ended = None /\ at = "run"
      /\ UNCHANGED <<program, rom, clock, vdp, hint, vblank, cpu, at, steps, bus>>
  BY DEF LooksAtSound, SoundAccess, Executes, video
<1>3. z' \in ZStates /\ Rests(z', bus') /\ z'.lead \in Int /\ z'.stop \in StopCodes
  BY <1>1, <1>2, SyncedIs DEF ZStates
<1>4. Types' BY <1>1, <1>2, <1>3 DEF Types, Diagnostics
<1>5. LagIsBounded' BY <1>2, <1>3 DEF LagIsBounded, Rests
<1>6. Waited' BY <1>2 DEF Waited
<1>7. WakelessIsFinal' /\ JumpWakes'
  BY <1>2, <1>3 DEF WakelessIsFinal, JumpWakes, StopCodes, None
<1> QED BY <1>4, <1>5, <1>6, <1>7 DEF IInv

\* What a write to a latch leaves.
LEMMA BusStep ==
    ASSUME Types, NEW latch \in {"requested", "released"}, NEW set \in BOOLEAN, WritesBus(latch, set)
    PROVE  /\ z' \in ZStates /\ bus' \in Buses /\ Rests(z', bus') /\ Settle(z', bus') = z'
           /\ \/ Synced.stop # None /\ z' = Synced /\ bus' = bus
              \/ /\ Synced.stop = None
                 /\ z' = BusWritten(Synced, bus, latch, set, clock).z
                 /\ bus' = BusWritten(Synced, bus, latch, set, clock).bus
<1>1. bus \in Buses /\ clock \in Int BY FrameFacts DEF Types
<1>2. CASE Synced.stop # None
  <2>1. z' = Synced /\ bus' = bus BY <1>2 DEF WritesBus
  <2> QED BY <1>1, <1>2, <2>1, SyncedIs
<1>3. CASE Synced.stop = None
  <2>1. /\ z' = BusWritten(Synced, bus, latch, set, clock).z
        /\ bus' = BusWritten(Synced, bus, latch, set, clock).bus
    BY <1>3 DEF WritesBus
  <2>2. PICK y \in ZStates : y = Synced /\ Rests(y, bus) /\ Settle(y, bus) = y BY SyncedIs
  <2>3. LET w == BusWritten(y, bus, latch, set, clock)
        IN  /\ w.z \in ZStates /\ w.bus \in Buses
            /\ Rests(w.z, w.bus) /\ Settle(w.z, w.bus) = w.z
    BY <1>1, <2>2, BusWrittenType
  <2> QED BY <1>3, <2>1, <2>2, <2>3
<1> QED BY <1>2, <1>3

\* A write to a bus latch keeps the invariant.
LEMMA BusKeeps ==
    ASSUME IInv, NEW latch \in {"requested", "released"}, NEW set \in BOOLEAN, WritesBus(latch, set)
    PROVE  IInv'
<1>1. Types BY DEF IInv
<1>2. /\ ended' = z'.stop /\ unsynced' = 0 /\ ended = None /\ at = "run"
      /\ UNCHANGED <<program, rom, clock, vdp, hint, vblank, cpu, at, steps>>
  BY DEF WritesBus, SoundAccess, Executes, video
<1>3. z' \in ZStates /\ Rests(z', bus') /\ z'.lead \in Int /\ z'.stop \in StopCodes /\ bus' \in Buses
  BY <1>1, BusStep DEF ZStates
<1>4. Types' BY <1>1, <1>2, <1>3 DEF Types, Diagnostics
<1>5. LagIsBounded' BY <1>2, <1>3 DEF LagIsBounded, Rests
<1>6. Waited' BY <1>2 DEF Waited
<1>7. WakelessIsFinal' /\ JumpWakes'
  BY <1>2, <1>3 DEF WakelessIsFinal, JumpWakes, StopCodes, None
<1> QED BY <1>4, <1>5, <1>6, <1>7 DEF IInv

\* A byte for the sound RAM: a Z80 whose bus is taken does not run.
LEMMA RamStep ==
    ASSUME Types, NEW c \in Cells, NEW v \in Uploads[c], WritesSoundRam(c, v)
    PROVE  /\ z' \in ZStates /\ bus' \in Buses /\ Rests(z', bus') /\ Settle(z', bus') = z'
           /\ \/ z' = Synced /\ bus' = bus
              \/ /\ Synced.stop = None /\ Granted(bus)
                 /\ z' = [Synced EXCEPT !.ram[c] = v]
                 /\ bus' = [bus EXCEPT !.written = @ \cup {c}]
<1>1. bus \in Buses BY DEF Types
<1>2. PICK y \in ZStates : y = Synced /\ Rests(y, bus) /\ Settle(y, bus) = y BY SyncedIs
<1>3. CASE Synced.stop = None /\ Granted(bus)
  <2>1. z' = [y EXCEPT !.ram[c] = v] /\ bus' = [bus EXCEPT !.written = @ \cup {c}]
    BY <1>2, <1>3 DEF WritesSoundRam
  <2>2. v \in Contents(c) BY GenesisAssumption
  <2>3. [y.ram EXCEPT ![c] = v] \in Rams BY <2>2, RamStore DEF ZStates
  <2>4. z' \in ZStates /\ z'.lead = y.lead /\ y.lead \in Int BY <2>1, <2>3 DEF ZStates
  <2>5. bus' \in Buses /\ ~ Runnable(bus') /\ ~ Runnable(bus)
    BY <1>1, <1>3, <2>1 DEF Buses, Granted, Runnable
  <2>6. ~ Running(z', bus') /\ ~ Running(y, bus) BY <2>5 DEF Running
  <2>7. Settle(z', bus') = z'
    <3>1. CASE y.lead >= 0 BY <2>4, <3>1 DEF Settle
    <3>2. CASE y.lead < 0
      <4>1. Settle(y, bus) = [y EXCEPT !.lead = (y.lead % Divider) - Divider]
        BY <2>4, <2>6, <3>2 DEF Settle
      <4>2. PICK a \in Int : a = (y.lead % Divider) - Divider BY <2>4, Constants0
      <4>3. [y EXCEPT !.lead = a].lead = a BY DEF ZStates
      <4>4. y.lead = a BY <1>2, <4>1, <4>2, <4>3
      <4>5. Settle(z', bus') = [z' EXCEPT !.lead = a] BY <2>4, <2>6, <3>2, <4>2 DEF Settle
      <4>6. [z' EXCEPT !.lead = a] = z' BY <2>4, <4>4 DEF ZStates
      <4> QED BY <4>5, <4>6
    <3> QED BY <2>4, <3>1, <3>2
  <2> QED BY <1>2, <1>3, <2>1, <2>4, <2>5, <2>6, <2>7 DEF Rests
<1>4. CASE ~ (Synced.stop = None /\ Granted(bus))
  <2>1. z' = Synced /\ bus' = bus BY <1>4 DEF WritesSoundRam
  <2> QED BY <1>1, <1>2, <2>1
<1> QED BY <1>3, <1>4

\* A write to the sound RAM keeps the invariant.
LEMMA RamKeeps ==
    ASSUME IInv, NEW c \in Cells, NEW v \in Uploads[c], WritesSoundRam(c, v)
    PROVE  IInv'
<1>1. Types BY DEF IInv
<1>2. /\ unsynced' = 0 /\ ended = None /\ at = "run"
      /\ UNCHANGED <<program, rom, clock, vdp, hint, vblank, cpu, at, steps>>
  BY DEF WritesSoundRam, SoundAccess, Executes, video
<1>3. z' \in ZStates /\ Rests(z', bus') /\ z'.lead \in Int /\ bus' \in Buses
  BY <1>1, RamStep DEF ZStates
<1>4. Synced.stop \in StopCodes BY <1>1, SyncedIs DEF ZStates
<1>5. ended' \in StopCodes \cup {"area_without_bus"}
  BY <1>2, <1>4 DEF WritesSoundRam, StopCodes
<1>6. Types' BY <1>1, <1>2, <1>3, <1>5 DEF Types, Diagnostics
<1>7. LagIsBounded' BY <1>2, <1>3 DEF LagIsBounded, Rests
<1>8. Waited' BY <1>2 DEF Waited
<1>9. WakelessIsFinal' /\ JumpWakes'
  BY <1>5 DEF WakelessIsFinal, JumpWakes, StopCodes, None
<1> QED BY <1>6, <1>7, <1>8, <1>9 DEF IInv

-----------------------------------------------------------------------------
(* The registers of the 68000's side.                                      *)

\* A write to a VDP register keeps the invariant: no wait is going on.
LEMMA VdpKeeps ==
    ASSUME IInv, NEW r \in [ie0 : BOOLEAN, ie1 : BOOLEAN, every : HintEvery], WritesVdp(r)
    PROVE  IInv'
<1>1. /\ vdp' = r /\ ended = None /\ at = "run"
      /\ UNCHANGED <<program, rom, clock, unsynced, z, bus, hint, vblank, cpu, at, steps, ended>>
  BY DEF WritesVdp, Executes
<1>2. r \in [ie0 : BOOLEAN, ie1 : BOOLEAN, every : Nat] BY GenesisAssumption
<1>3. Types' BY <1>1, <1>2 DEF IInv, Types
<1>4. LagIsBounded' BY <1>1 DEF IInv, LagIsBounded
<1>5. Waited' BY <1>1 DEF Waited
<1>6. WakelessIsFinal' /\ JumpWakes' BY <1>1 DEF WakelessIsFinal, JumpWakes, None
<1> QED BY <1>3, <1>4, <1>5, <1>6 DEF IInv

\* A load of SR, or STOP, keeps the invariant.
LEMMA MaskKeeps ==
    ASSUME IInv, NEW mask \in Masks, NEW stop \in BOOLEAN, LoadsMask(mask, stop)
    PROVE  IInv'
<1>1. /\ cpu' = [mask |-> mask, stopped |-> stop] /\ ended = None /\ at = "run"
      /\ UNCHANGED <<program, rom, clock, unsynced, z, bus, vdp, hint, vblank, at, steps, ended>>
  BY DEF LoadsMask, Executes
<1>2. cpu' \in [mask : 0 .. 7, stopped : BOOLEAN] BY <1>1, GenesisAssumption
<1>3. Types' BY <1>1, <1>2 DEF IInv, Types
<1>4. LagIsBounded' BY <1>1 DEF IInv, LagIsBounded
<1>5. Waited' BY <1>1 DEF Waited
<1>6. WakelessIsFinal' /\ JumpWakes' BY <1>1 DEF WakelessIsFinal, JumpWakes, None
<1> QED BY <1>3, <1>4, <1>5, <1>6 DEF IInv

-----------------------------------------------------------------------------
(* Waits.                                                                  *)

\* A wait may be given up if no request would come.
LEMMA EndsKeeps ==
    ASSUME IInv, Ends("no_wake_source"),
           ~ VblankWakes, ~ (HintComes /\ ~ vblank)
    PROVE  IInv'
<1>1. /\ ended' = "no_wake_source"
      /\ UNCHANGED <<program, rom, clock, unsynced, z, bus, vdp, hint, vblank, cpu, at, steps>>
  BY DEF Ends, video
<1>2. Types' BY <1>1 DEF IInv, Types, Diagnostics
<1>3. LagIsBounded' BY <1>1 DEF IInv, LagIsBounded
<1>4. Waited' BY <1>1 DEF Waited, None
<1>5. WakelessIsFinal' BY <1>1 DEF WakelessIsFinal, VblankWakes, HintComes, HintWakes, HintSource
<1>6. JumpWakes' BY <1>1 DEF JumpWakes
<1> QED BY <1>2, <1>3, <1>4, <1>5, <1>6 DEF IInv

\* That is so if the wake condition does not hold.
LEMMA NoWakeKeeps == ASSUME IInv, NoWake PROVE IInv'
<1>1. cpu.mask \in 0 .. 7 BY DEF IInv, Types
<1>2. ~ VblankWakes /\ ~ HintWakes
  BY <1>1 DEF NoWake, WakePossible, VblankSource, VblankWakes, HintWakes
<1> QED BY <1>2, EndsKeeps DEF NoWake, HintComes

\* Without the onset in between, the lines since the last one count up.
LEMMA OnsetCounts ==
    ASSUME Types, NEW ticks \in Nat, ~ CrossesOnset(ticks), (clock % LineTicks) + ticks >= LineTicks
    PROVE  SinceOnset(((clock + ticks) % Frame) \div LineTicks) >= SinceOnset(clock \div LineTicks) + 1
<1>1. PICK l \in Nat \ {0}, m \in Nat \ {0}, o \in Nat \ {0}, f \in Nat \ {0}, s \in Nat \ {0} :
          /\ l = LineTicks /\ m = Lines /\ o = OnsetLine /\ f = Frame /\ s = Onset
          /\ f = m * l /\ s = o * l /\ o < m /\ s < f
  BY Constants0, FrameFacts DEF Frame, Onset
<1>2. clock \in 0 .. f - 1 BY <1>1 DEF Types
<1>3. PICK p \in 0 .. m - 1, q \in Nat :
          /\ p = clock \div l /\ q = (clock + ticks) \div l /\ q >= p + 1
          /\ ((clock + ticks) % f) \div l = q % m
  <2>1. PICK c \in Nat : c = clock + ticks BY <1>2
  <2>2. /\ clock \div LineTicks \in 0 .. Lines - 1
        /\ (clock + ticks) \div LineTicks - clock \div LineTicks >= 1
    BY LinesAhead
  <2>3. c \div LineTicks \in Nat /\ (c % Frame) \div LineTicks = (c \div LineTicks) % Lines
    BY <2>1, LineOf
  <2>4. PICK p \in 0 .. m - 1, q \in Nat : p = clock \div l /\ q = c \div l BY <1>1, <2>2, <2>3
  <2>5. q - p >= 1 BY <1>1, <2>1, <2>2, <2>4
  <2>6. q >= p + 1 BY <2>5
  <2> QED BY <1>1, <2>1, <2>3, <2>4, <2>6
<1>4. ((clock + ticks) % f) \div l = q % m BY <1>3
<1>5. ASSUME NEW c \in Nat PROVE c < s <=> c \div l < o
  <2>1. PICK r \in Int, u \in 0 .. l - 1 : r = c \div l /\ u = c % l /\ c = l * r + u BY DivMod
  <2>2. PICK lr \in Int : lr = l * r OBVIOUS
  <2>3. c = lr + u BY <2>1, <2>2
  <2>4. CASE r < o
    <3>1. l * (r + 1) <= l * o BY <1>1, <2>4, TimesMono
    <3>2. l * (r + 1) = lr + l /\ l * o = o * l BY <2>2
    <3> QED BY <1>1, <2>1, <2>3, <2>4, <3>1, <3>2
  <2>5. CASE r >= o
    <3>1. l * o <= l * r BY <1>1, <2>5, TimesMono
    <3>2. l * o = o * l OBVIOUS
    <3> QED BY <1>1, <2>1, <2>2, <2>3, <2>5, <3>1, <3>2
  <2> QED BY <2>1, <2>4, <2>5
<1>6. CASE clock < s
  <2>1. clock + ticks < s BY <1>1, <1>2, <1>6 DEF CrossesOnset
  <2>2. p < o /\ q < o BY <1>2, <1>3, <1>5, <1>6, <2>1
  <2>3. q = m * 0 + q /\ q \in 0 .. m - 1 /\ q \in Int /\ 0 \in Int BY <1>1, <1>3, <2>2
  <2>4. q % m = q BY <2>3, DivModUnique, Zenon
  <2> QED BY <1>1, <1>3, <1>4, <2>2, <2>4 DEF SinceOnset
<1>7. CASE clock >= s
  <2>1. clock + ticks < s + f BY <1>1, <1>2, <1>7 DEF CrossesOnset
  <2>2. p >= o BY <1>2, <1>3, <1>5, <1>7
  <2>3. q < o + m
    <3>1. PICK r \in Int, u \in 0 .. l - 1 : r = (clock + ticks) \div l /\ u = (clock + ticks) % l /\ clock + ticks = l * r + u
      <4>1. clock + ticks \in Int BY <1>2
      <4> QED BY <4>1, DivMod
    <3>2. r = q BY <1>3, <3>1
    <3> SUFFICES ASSUME o + m <= q PROVE FALSE BY <1>1, <1>3
    <3>3. l * (o + m) <= l * q BY <1>1, <1>3, TimesMono
    <3>4. l * (o + m) = o * l + m * l BY <1>1
    <3>5. PICK lq \in Int : lq = l * q OBVIOUS
    <3> QED BY <1>1, <1>2, <2>1, <3>1, <3>2, <3>3, <3>4, <3>5
  <2>4. CASE q < m
    <3>1. q = m * 0 + q /\ q \in 0 .. m - 1 /\ q \in Int /\ 0 \in Int BY <1>1, <1>3, <2>4
    <3>2. q % m = q BY <3>1, DivModUnique, Zenon
    <3> QED BY <1>1, <1>3, <1>4, <2>2, <2>4, <3>2 DEF SinceOnset
  <2>5. CASE q >= m
    <3>1. PICK i \in 0 .. m - 1 : i = q - m /\ i < o BY <1>1, <1>3, <2>3, <2>5
    <3>2. m * 1 = m OBVIOUS
    <3>3. q = m * 1 + i /\ q \in Int /\ 1 \in Int BY <1>3, <3>1, <3>2
    <3>4. q % m = i BY <3>3, DivModUnique, Zenon
    <3> QED BY <1>1, <1>3, <1>4, <2>2, <3>1, <3>4 DEF SinceOnset
  <2> QED BY <1>3, <2>4, <2>5
<1> QED BY <1>1, <1>2, <1>6, <1>7

\* A wait is over before its bound if a request would come.
LEMMA WaitBounded ==
    ASSUME IInv, Waits, ~ (steps < LinesWaited)
    PROVE  ~ VblankWakes /\ ~ (HintComes /\ ~ vblank)
<1>1. Types /\ Waited /\ ended = None /\ at = "wait" BY DEF IInv, Waits
<1>2. PICK line \in 0 .. Lines - 1 : line = clock \div LineTicks BY <1>1, LineInFrame DEF Types
<1>3. PICK m \in Nat, o \in Nat \ {0} : m = Lines /\ o = OnsetLine /\ o + 1 < m BY Constants0
<1>4. steps \in Nat /\ steps >= 2 * m + 4 BY <1>1, <1>3 DEF Types, LinesWaited, MaxSteps
<1>5. ~ VblankWakes BY <1>1, <1>2, <1>3, <1>4 DEF Waited, SinceOnset
<1>6. ~ BeforeReload(steps, line) BY <1>2, <1>3, <1>4 DEF BeforeReload
<1>7. ~ SinceReload(steps, line, hint) BY <1>2, <1>3, <1>4 DEF SinceReload
<1> QED BY <1>1, <1>2, <1>5, <1>6, <1>7 DEF Waited

\* A wait for the next line keeps the invariant.
LEMMA WaitLineKeeps == ASSUME IInv, WaitLine PROVE IInv'
<1>1. Types /\ LagIsBounded /\ Waited /\ ended = None /\ at = "wait" /\ HintWakes /\ Waits
  BY DEF IInv, WaitLine, Waits
<1>2. CASE ~ (steps < LinesWaited)
  <2>1. Ends("no_wake_source") BY <1>2 DEF WaitLine
  <2> QED BY <1>1, <1>2, <2>1, WaitBounded, EndsKeeps
<1>3. CASE steps < LinesWaited
  <2> DEFINE cycles == InCycles(LineTicks - (clock % LineTicks))
             ticks == cycles * CycleTicks
             v == Blank(ticks)
             h == RasterAdvance(ticks)
  <2>1. /\ Scheduler(cycles, TRUE, UNCHANGED <<at, cpu, ended>>)
        /\ steps' = IF at' = "wait" THEN steps + 1 ELSE 0
    BY <1>3 DEF WaitLine
  <2>2. clock % LineTicks \in 0 .. LineTicks - 1 /\ LineTicks - (clock % LineTicks) \in Nat \ {0}
    <3>1. clock \in Nat BY <1>1, FrameFacts DEF Types
    <3> QED BY <3>1, Constants0
  <2>3. cycles \in Nat /\ ticks \in Nat /\ ticks >= LineTicks - (clock % LineTicks)
    BY <2>2, InCyclesBounds, TicksType
  <2>4. (clock % LineTicks) + ticks >= LineTicks BY <2>2, <2>3, Constants0
  <2> HIDE DEF cycles
  <2>5. TimeStep(ticks) BY <2>1 DEF Scheduler, TimeStep
  <2>6. /\ clock' \in 0 .. Frame - 1 /\ unsynced' \in Nat /\ z' \in ZStates
        /\ program' = program /\ rom' = rom /\ bus' = bus /\ vdp' = vdp
        /\ LagIsBounded' /\ clock' = (clock + ticks) % Frame
    <3> HIDE DEF ticks
    <3> QED BY <1>1, <2>3, <2>5, TimeStepKeeps DEF TimeStep
  <2>7. v \in BOOLEAN /\ h \in Hints /\ vblank \in BOOLEAN /\ hint \in Hints /\ cpu \in CpuType
    BY <1>1, <2>3, RequestType DEF Types, CpuType
  <2>8. z'.stop = None => Admit(v, h, UNCHANGED <<at, cpu, ended>>)
    BY <2>1 DEF Scheduler, Blank
  <2>9. z'.stop # None => ended' = z'.stop /\ UNCHANGED <<hint, vblank, cpu, at>>
    BY <2>1 DEF Scheduler
  <2>10. z'.stop \in StopCodes BY <2>6 DEF ZStates
  <2>11. /\ vblank' \in BOOLEAN /\ hint' \in Hints /\ cpu' \in CpuType
         /\ at' \in {"run", "charge", "wait"}
         /\ ended' \in Diagnostics \ {"no_wake_source", "inconsistent"}
    <3> HIDE DEF v, h
    <3>1. [h EXCEPT !.pending = FALSE] \in Hints BY <2>7 DEF Hints
    <3>2. [mask |-> 4, stopped |-> FALSE] \in CpuType /\ [mask |-> 6, stopped |-> FALSE] \in CpuType
      BY DEF CpuType
    <3>3. CASE z'.stop # None
      BY <1>1, <2>7, <2>9, <2>10, <3>3 DEF Diagnostics, StopCodes, None
    <3>4. CASE z'.stop = None
      BY <1>1, <2>7, <2>8, <3>1, <3>2, <3>4 DEF Admit, Entered, Diagnostics, StopCodes, None
    <3> QED BY <3>3, <3>4
  <2>12. Types'
    <3>1. steps' \in Nat BY <1>1, <2>1 DEF Types
    <3> QED BY <1>1, <2>6, <2>11, <3>1 DEF Types, CpuType
  <2>13. ASSUME ended' = None, at' = "wait"
         PROVE  /\ cpu' = cpu /\ steps' = steps + 1
                /\ VblankWakes => ~ v
                /\ HintWakes /\ ~ vblank' => ~ vblank /\ ~ h.pending /\ hint' = h
    <3>1. z'.stop = None BY <2>9, <2>13
    <3>2. cpu.mask \in 0 .. 7 BY <2>7 DEF CpuType
    <3>3. Admit(v, h, UNCHANGED <<at, cpu, ended>>) BY <2>8, <3>1
    <3>4. v = FALSE => vblank = FALSE BY <2>7 DEF Blank
    <3> HIDE DEF v, h
    <3>5. cpu' = cpu /\ steps' = steps + 1
      BY <2>1, <2>13, <3>3 DEF Admit, Entered, None
    <3>6. VblankWakes => ~ v
      <4> SUFFICES ASSUME VblankWakes, v PROVE FALSE OBVIOUS
      <4>1. Level(v, h) = 6 /\ cpu.mask < 6 /\ rom.irq6 # "absent" BY DEF Level, VblankWakes
      <4>2. rom.irq6 \in {"present", "work_ram", "absent"} BY <1>1 DEF Types, Roms
      <4>3. ~ (6 <= cpu.mask) /\ 6 # 4 BY <3>2, <4>1
      <4> QED BY <2>13, <3>3, <4>1, <4>2, <4>3 DEF Admit, Entered, None
    <3>7. HintWakes /\ ~ vblank' => ~ v /\ ~ h.pending /\ hint' = h
      BY <1>1, <2>7, <2>13, <3>2, <3>3 DEF Admit, Entered, None, Level, HintWakes, HintSource, Types, Roms
    <3> QED BY <2>7, <3>4, <3>5, <3>6, <3>7
  <2>14. Waited'
    <3>5. CASE ~ (ended' = None /\ at' = "wait") BY <3>5 DEF Waited
    <3>6. CASE ended' = None /\ at' = "wait"
      <4>1. PICK line \in 0 .. Lines - 1, old \in 0 .. Lines - 1 : line = clock' \div LineTicks /\ old = clock \div LineTicks
        BY <1>1, <2>6, LineInFrame DEF Types
      <4>2. steps \in Nat /\ steps' = steps + 1 /\ cpu' = cpu BY <1>1, <2>13, <3>6 DEF Types
      <4>3. VblankWakes' => steps' <= SinceOnset(line)
        <5> SUFFICES ASSUME VblankWakes' PROVE steps' <= SinceOnset(line) OBVIOUS
        <5>1. VblankWakes BY <2>6, <4>2 DEF VblankWakes
        <5>2. ~ CrossesOnset(ticks) BY <2>13, <3>6, <5>1 DEF Blank, VblankWakes
        <5>3. SinceOnset(line) >= SinceOnset(old) + 1
          <6> HIDE DEF ticks
          <6> QED BY <1>1, <2>3, <2>4, <2>6, <4>1, <5>2, OnsetCounts
        <5>4. steps <= SinceOnset(old) BY <1>1, <4>1, <5>1 DEF Waited
        <5>5. SinceOnset(old) \in Int /\ SinceOnset(line) \in Int BY <4>1, Constants0 DEF SinceOnset
        <5> QED BY <4>2, <5>3, <5>4, <5>5
      <4>4. (HintComes /\ ~ vblank)' => BeforeReload(steps', line) \/ SinceReload(steps', line, hint')
        <5> SUFFICES ASSUME HintComes', ~ vblank'
                     PROVE  BeforeReload(steps', line) \/ SinceReload(steps', line, hint')
          OBVIOUS
        <5>1. HintComes BY <2>6, <4>2 DEF HintComes, HintWakes, HintSource
        <5>2. ~ vblank /\ ~ h.pending /\ hint' = h BY <2>13, <3>6, <5>1 DEF HintComes
        <5>3. vdp.every <= OnsetLine /\ Phase(steps, old, hint)
          BY <1>1, <4>1, <5>1, <5>2 DEF HintComes, Waited, Phase
        <5>4. PICK n \in Nat : n = (clock + ticks) \div LineTicks - clock \div LineTicks /\ n >= 1
          <6> HIDE DEF ticks
          <6> QED BY <1>1, <2>3, <2>4, LinesAhead
        <5>5. Phase(steps + n, line, h)
          <6> HIDE DEF ticks
          <6> QED BY <1>1, <2>3, <2>6, <4>1, <4>2, <5>3, <5>4, PhaseAdvance
        <5> HIDE DEF h
        <5>6. BeforeReload(steps + n, line) \/ SinceReload(steps + n, line, h) BY <5>2, <5>5 DEF Phase
        <5>7. CASE BeforeReload(steps + n, line)
          BY <4>1, <4>2, <5>4, <5>7, Constants0 DEF BeforeReload
        <5>8. CASE SinceReload(steps + n, line, h)
          <6>1. Lines \in Nat /\ steps' <= steps + n BY <4>2, <5>4, Constants0
          <6>2. (steps + n <= Lines => steps' <= Lines) /\ (steps + n <= Lines + line + 1 => steps' <= Lines + line + 1)
            BY <4>1, <4>2, <5>4, <6>1
          <6> QED BY <5>2, <5>8, <6>2 DEF SinceReload
        <5> QED BY <5>6, <5>7, <5>8
      <4>9. (VblankWakes => steps <= SinceOnset(clock \div LineTicks))'
        BY <4>1, <4>3 DEF SinceOnset
      <4>10. SinceReload(steps', line, hint') => SinceReload(steps, clock \div LineTicks, hint)'
        BY <2>6, <4>1 DEF SinceReload
      <4>11. BeforeReload(steps', line) => BeforeReload(steps, clock \div LineTicks)'
        BY <4>1 DEF BeforeReload
      <4> QED BY <4>4, <3>6, <4>9, <4>10, <4>11 DEF Waited
    <3> QED BY <3>5, <3>6
  <2>15. WakelessIsFinal' /\ JumpWakes' BY <2>11 DEF WakelessIsFinal, JumpWakes
  <2> QED BY <2>6, <2>12, <2>14, <2>15 DEF IInv
<1> QED BY <1>2, <1>3

\* The jump of a wait reaches the onset.
LEMMA OnsetReached ==
    ASSUME Types
    PROVE  LET d == IF clock < Onset THEN Onset - clock ELSE Onset + Frame - clock
           IN  /\ d \in 1 .. Frame
               /\ \A ticks \in Nat : ticks >= d => CrossesOnset(ticks)
<1>1. PICK f \in Nat \ {0}, s \in Nat \ {0} : f = Frame /\ s = Onset /\ s < f
  BY Constants0, FrameFacts DEF Frame, Onset
<1>2. clock \in 0 .. f - 1 BY <1>1 DEF Types
<1> QED BY <1>1, <1>2 DEF CrossesOnset

\* The jump to the onset keeps the invariant: the request is admitted there.
LEMMA WaitOnsetKeeps == ASSUME IInv, WaitOnset PROVE IInv'
<1>1. Types /\ LagIsBounded /\ ended = None /\ at = "wait" /\ WakePossible /\ ~ HintWakes
  BY DEF IInv, WaitOnset, Waits
<1> DEFINE d == IF clock < Onset THEN Onset - clock ELSE Onset + Frame - clock
           cycles == InCycles(d)
           ticks == cycles * CycleTicks
           v == Blank(ticks)
           h == RasterAdvance(ticks)
           Idle == ended' = "inconsistent" /\ UNCHANGED <<at, cpu>>
<1>2. Scheduler(cycles, TRUE, Idle) /\ UNCHANGED steps BY DEF WaitOnset
<1>3. d \in 1 .. Frame /\ d \in Nat \ {0} BY <1>1, OnsetReached, FrameFacts
<1> HIDE DEF d
<1>4. cycles \in Nat /\ ticks \in Nat /\ ticks >= d BY <1>3, InCyclesBounds, TicksType
<1> HIDE DEF cycles
<1>5. CrossesOnset(ticks) BY <1>1, <1>4, OnsetReached DEF d
<1>6. TimeStep(ticks) BY <1>2 DEF Scheduler, TimeStep
<1>7. /\ clock' \in 0 .. Frame - 1 /\ unsynced' \in Nat /\ z' \in ZStates
      /\ program' = program /\ rom' = rom /\ bus' = bus /\ vdp' = vdp
      /\ LagIsBounded'
  <2> HIDE DEF ticks
  <2> QED BY <1>1, <1>4, <1>6, TimeStepKeeps
<1>8. v \in BOOLEAN /\ h \in Hints /\ vblank \in BOOLEAN /\ hint \in Hints /\ cpu \in CpuType
  BY <1>1, <1>4, RequestType DEF Types, CpuType
<1>9. cpu.mask \in 0 .. 7 BY <1>8 DEF CpuType
<1>10. VblankSource /\ cpu.mask < 6 BY <1>1, <1>9 DEF WakePossible, HintWakes
<1>11. v /\ rom.irq6 \in {"present", "work_ram"}
  BY <1>1, <1>5, <1>10 DEF VblankSource, Blank, Types, Roms
<1>12. z'.stop = None => Admit(v, h, Idle) BY <1>2 DEF Scheduler, Blank
<1>13. z'.stop # None => ended' = z'.stop /\ UNCHANGED <<hint, vblank, cpu, at>> BY <1>2 DEF Scheduler
<1> HIDE DEF v, h, ticks, Idle
<1>14. z'.stop = None =>
           /\ hint' = h
           /\ \/ Entered(6) /\ vblank' = FALSE
              \/ ended' = "irq6_in_work_ram" /\ vblank' = v /\ UNCHANGED <<cpu, at>>
  <2> SUFFICES ASSUME z'.stop = None
               PROVE  /\ hint' = h
                      /\ \/ Entered(6) /\ vblank' = FALSE
                         \/ ended' = "irq6_in_work_ram" /\ vblank' = v /\ UNCHANGED <<cpu, at>>
    OBVIOUS
  <2>1. Level(v, h) = 6 BY <1>11 DEF Level
  <2>2. ~ (6 <= cpu.mask) /\ 6 # 4 BY <1>9, <1>10
  <2> QED BY <1>11, <1>12, <2>1, <2>2 DEF Admit
<1>15. /\ vblank' \in BOOLEAN /\ hint' \in Hints /\ cpu' \in CpuType
       /\ at' \in {"run", "charge", "wait"}
       /\ ended' \in Diagnostics \ {"no_wake_source", "inconsistent"}
       /\ ~ (ended' = None /\ at' = "wait")
  <2>1. z'.stop \in StopCodes BY <1>7 DEF ZStates
  <2>2. [mask |-> 6, stopped |-> FALSE] \in CpuType BY DEF CpuType
  <2>3. CASE z'.stop # None
    BY <1>1, <1>8, <1>13, <2>1, <2>3 DEF Diagnostics, StopCodes, None
  <2>4. CASE z'.stop = None
    BY <1>1, <1>8, <1>14, <2>2, <2>4 DEF Entered, Diagnostics, StopCodes, None
  <2> QED BY <2>3, <2>4
<1>16. Types' BY <1>1, <1>2, <1>7, <1>15 DEF Types, CpuType
<1>17. Waited' BY <1>15 DEF Waited
<1>18. WakelessIsFinal' /\ JumpWakes' BY <1>15 DEF WakelessIsFinal, JumpWakes
<1> QED BY <1>7, <1>16, <1>17, <1>18 DEF IInv

-----------------------------------------------------------------------------
(* The invariant.                                                          *)

\* It holds at first,
LEMMA InitIInv == ASSUME Init PROVE IInv
<1>1. /\ program \in {"sound", "interrupts"} /\ rom \in Roms
      /\ \E p \in Profiles : z = PowerOn(p)
  BY GenesisAssumption DEF Init, Roms, Profiles
<1>2. PICK p \in Profiles : z = PowerOn(p) BY <1>1
<1>3. z \in ZStates /\ z.bound = 0
  <2>1. [c \in Cells |-> 0] \in Rams
    BY Constants0, Memory DEF Rams, Contents, Inc, Bad, Code
  <2> QED BY <1>2, <2>1, Constants0 DEF PowerOn, ZStates, Profiles, StopCodes, Bindings, None, Code
<1>4. bus \in Buses BY DEF Init, BusPowerOn, Buses
<1>5. Types
  <2>1. clock \in 0 .. Frame - 1 BY FrameFacts DEF Init
  <2>2. hint \in Hints BY DEF Init, Hints
  <2>3. vdp \in [ie0 : BOOLEAN, ie1 : BOOLEAN, every : Nat] BY DEF Init
  <2>4. cpu \in [mask : 0 .. 7, stopped : BOOLEAN] BY DEF Init
  <2>5. ended \in Diagnostics BY DEF Init, Diagnostics, StopCodes, None
  <2> QED BY <1>1, <1>3, <1>4, <2>1, <2>2, <2>3, <2>4, <2>5 DEF Init, Types
<1>6. LagIsBounded BY <1>3 DEF LagIsBounded, Running
<1> QED BY <1>5, <1>6 DEF Init, IInv, Waited, WakelessIsFinal, JumpWakes, None

\* it is kept by every step,
LEMMA IInvInductive == ASSUME IInv, [Next]_vars PROVE IInv'
<1>1. CASE LooksAtSound BY <1>1, LooksKeeps
<1>2. CASE \E latch \in {"requested", "released"}, set \in BOOLEAN : WritesBus(latch, set)
  BY <1>2, BusKeeps
<1>3. CASE \E c \in Cells : \E v \in Uploads[c] : WritesSoundRam(c, v) BY <1>3, RamKeeps
<1>4. CASE \E r \in [ie0 : BOOLEAN, ie1 : BOOLEAN, every : HintEvery] : WritesVdp(r) BY <1>4, VdpKeeps
<1>5. CASE \E mask \in Masks, stop \in BOOLEAN : LoadsMask(mask, stop) BY <1>5, MaskKeeps
<1>6. CASE \E cycles \in Cycles : Retire(cycles) BY <1>6, RetireKeeps
<1>7. CASE Charge BY <1>7, ChargeKeeps
<1>8. CASE NoWake BY <1>8, NoWakeKeeps
<1>9. CASE WaitLine BY <1>9, WaitLineKeeps
<1>10. CASE WaitOnset BY <1>10, WaitOnsetKeeps
<1>11. CASE UNCHANGED vars
  <2>1. /\ UNCHANGED <<program, rom, clock, unsynced, z, bus, vdp, hint, vblank, cpu, at, steps, ended>>
    BY <1>11 DEF vars, video
  <2>2. Types' BY <2>1 DEF IInv, Types
  <2>3. LagIsBounded' BY <2>1 DEF IInv, LagIsBounded
  <2>4. Waited'
    BY <2>1 DEF IInv, Waited, VblankWakes, HintComes, HintWakes, HintSource, SinceReload
  <2>5. WakelessIsFinal' /\ JumpWakes'
    BY <2>1 DEF IInv, WakelessIsFinal, JumpWakes, HintWakes, HintSource
  <2> QED BY <2>2, <2>3, <2>4, <2>5 DEF IInv
<1> QED
  BY <1>1, <1>2, <1>3, <1>4, <1>5, <1>6, <1>7, <1>8, <1>9, <1>10, <1>11 DEF Next

\* and so it always holds.
LEMMA AlwaysIInv == Spec => []IInv
<1>1. Init => IInv BY InitIInv
<1>2. IInv /\ [Next]_vars => IInv' BY IInvInductive
<1> QED BY <1>1, <1>2, PTL DEF Spec

\* For every program, quantum and instruction timing: a running Z80 is behind the 68000 by no
\* more than the time since it was last synchronized (genesis_z80_machine_run_to and
\* hook_bus_event).
THEOREM LagStaysBounded == Spec => []LagIsBounded
<1>1. IInv => LagIsBounded BY DEF IInv
<1> QED BY <1>1, AlwaysIInv, PTL

\* For every geometry of the frame and every counter value: a wait that ends without a wake
\* source (genesis_m68k_wait_while_stopped) would have waited for ever; two frames of lines
\* and four are enough.
THEOREM WaitsEndRightly == Spec => []WakelessIsFinal
<1>1. IInv => WakelessIsFinal BY DEF IInv
<1> QED BY <1>1, AlwaysIInv, PTL

\* The jump to the onset ends the wait: the branch the code calls unreachable is.
THEOREM JumpAlwaysWakes == Spec => []JumpWakes
<1>1. IInv => JumpWakes BY DEF IInv
<1> QED BY <1>1, AlwaysIInv, PTL

-----------------------------------------------------------------------------
(* The follower implements a Z80 that runs along with the clock.           *)

\* The operators of the abstract specification are the ones of this one.
LEMMA SameCatchUp ==
    ASSUME NEW y, NEW b, NEW t
    PROVE  /\ S!CatchUp(y, b, t) = CatchUp(y, b, t)
           /\ Follower!CatchUp(y, b, t) = CatchUp(y, b, t)
BY Zenon DEF S!CatchUp, Follower!CatchUp, CatchUp, S!Settle, Follower!Settle, Settle, S!Repeat,
       Follower!Repeat, Repeat, S!Beat, Follower!Beat, Beat, S!Boundary, Follower!Boundary,
       Boundary, S!IntLevelAt, Follower!IntLevelAt, IntLevelAt, S!Running, Follower!Running,
       Running, S!Runnable, Follower!Runnable, Runnable, S!None, Follower!None, None,
       S!AcceptInt, Follower!AcceptInt, AcceptInt, S!Owner, Follower!Owner, Owner, S!Effect,
       Follower!Effect, Effect, S!After, Follower!After, After, S!Isolated,
       Follower!Isolated, Isolated, S!ViewStopped, Follower!ViewStopped, ViewStopped,
       S!IsolateViewStops, Follower!IsolateViewStops, IsolateViewStops, S!Inc, Follower!Inc,
       Inc, S!Ei, Follower!Ei, Ei, S!Halt, Follower!Halt, Halt, S!Bad, Follower!Bad, Bad,
       S!Mailbox, Follower!Mailbox, Mailbox, S!Frame, Follower!Frame, Frame, S!Onset,
       Follower!Onset, Onset, Beats

\* And so is everything else it uses.
LEMMA SameMachine ==
    ASSUME NEW y, NEW b, NEW latch, NEW set, NEW t, NEW k
    PROVE  /\ Follower!Later(y, b, k) = Later(y, b, k)
           /\ Follower!BusWritten(y, b, latch, set, t) = BusWritten(y, b, latch, set, t)
           /\ Follower!Granted(b) = Granted(b) /\ Follower!Contents(k) = Contents(k)
           /\ Follower!PowerOn(k) = PowerOn(k) /\ Follower!BusPowerOn = BusPowerOn
           /\ Follower!Profiles = Profiles /\ Follower!Cells = Cells
           /\ Follower!Frame = Frame /\ Follower!None = None
<1>1. Follower!None = None /\ Follower!Frame = Frame /\ Follower!Profiles = Profiles
      /\ Follower!BusPowerOn = BusPowerOn /\ Follower!Granted(b) = Granted(b)
  BY DEF Follower!None, None, Follower!Frame, Frame, Follower!Profiles, Profiles,
         Follower!BusPowerOn, BusPowerOn, Follower!Granted, Granted
<1>2. Follower!Cells = Cells /\ Follower!Contents(k) = Contents(k)
  BY DEF Follower!Cells, Cells, Follower!Code, Code, Follower!Mailbox, Mailbox,
         Follower!Contents, Contents, Follower!Inc, Inc, Follower!Bad, Bad
<1>3. Follower!PowerOn(k) = PowerOn(k) BY <1>1, <1>2 DEF Follower!PowerOn, PowerOn
<1>4. Follower!Later(y, b, k) = Later(y, b, k)
  BY DEF Follower!Later, Later, Follower!Settle, Settle, Follower!Running, Running,
         Follower!Runnable, Runnable, Follower!None, None
<1>5. Follower!BusWritten(y, b, latch, set, t) = BusWritten(y, b, latch, set, t)
  <2>1. ASSUME NEW x, NEW c
        PROVE  /\ Follower!Settle(x, c) = Settle(x, c) /\ Follower!Runnable(c) = Runnable(c)
               /\ Follower!RearmFaultedOnEpoch(x) = RearmFaultedOnEpoch(x)
               /\ Follower!AccumulateUntilEpoch(x) = AccumulateUntilEpoch(x)
               /\ Follower!Resumed(x, t) = Resumed(x, t)
               /\ Follower!ResetReleased(x, t) = ResetReleased(x, t)
    BY DEF Follower!Settle, Settle, Follower!Running, Running,
           Follower!Runnable, Runnable, Follower!None, None,
           Follower!RearmFaultedOnEpoch, RearmFaultedOnEpoch,
           Follower!AccumulateUntilEpoch, AccumulateUntilEpoch, Follower!Resumed, Resumed,
           Follower!ResetReleased, ResetReleased, Follower!ToZ80Clock, ToZ80Clock
  <2>2. ASSUME NEW x, NEW w PROVE Follower!Activate(x, w) = Activate(x, w)
    BY DEF Follower!Activate, Activate, Follower!QuiesceUnknownImage, QuiesceUnknownImage
  <2> DEFINE release == latch = "released" /\ set
             moved == [b EXCEPT ![latch] = set, !.executed = @ /\ ~ release]
             transition == Runnable(moved) /\ ~ Runnable(b)
             epoch == transition /\ ~ moved.executed
             reset == IF release THEN ResetReleased(y, t) ELSE y
             armed == [reset EXCEPT !.fault = @ /\ ~ (epoch /\ RearmFaultedOnEpoch(y))]
             timed == IF transition THEN Resumed(armed, t) ELSE armed
             after == [moved EXCEPT !.executed = @ \/ epoch,
                                    !.written = IF transition /\ (epoch \/ ~ AccumulateUntilEpoch(y))
                                                THEN {} ELSE @]
             bound == IF epoch THEN Activate(timed, b.written) ELSE timed
             transition2 == Follower!Runnable(moved) /\ ~ Follower!Runnable(b)
             epoch2 == transition2 /\ ~ moved.executed
             reset2 == IF release THEN Follower!ResetReleased(y, t) ELSE y
             armed2 == [reset2 EXCEPT !.fault = @ /\ ~ (epoch2 /\ Follower!RearmFaultedOnEpoch(y))]
             timed2 == IF transition2 THEN Follower!Resumed(armed2, t) ELSE armed2
             after2 == [moved EXCEPT !.executed = @ \/ epoch2,
                                     !.written = IF transition2 /\ (epoch2 \/ ~ Follower!AccumulateUntilEpoch(y))
                                                 THEN {} ELSE @]
             bound2 == IF epoch2 THEN Follower!Activate(timed2, b.written) ELSE timed2
  <2>3. BusWritten(y, b, latch, set, t) =
            IF b[latch] = set THEN [z |-> y, bus |-> b]
            ELSE [z |-> Settle(bound, after), bus |-> IF bound.stop = None THEN after ELSE moved]
    BY Zenon DEF BusWritten
  <2>4. Follower!BusWritten(y, b, latch, set, t) =
            IF b[latch] = set THEN [z |-> y, bus |-> b]
            ELSE [z |-> Follower!Settle(bound2, after2),
                  bus |-> IF bound2.stop = Follower!None THEN after2 ELSE moved]
    BY Zenon DEF Follower!BusWritten
  <2> HIDE DEF moved, release
  <2>5. transition2 = transition BY <2>1, Zenon
  <2> HIDE DEF transition, transition2
  <2>6. epoch2 = epoch BY <2>5, Zenon
  <2> HIDE DEF epoch, epoch2
  <2>7. reset2 = reset BY <2>1, Zenon
  <2> HIDE DEF reset, reset2
  <2>8. armed2 = armed BY <2>1, <2>6, <2>7, Zenon
  <2> HIDE DEF armed, armed2
  <2>9. timed2 = timed BY <2>1, <2>5, <2>8, Zenon
  <2> HIDE DEF timed, timed2
  <2>10. after2 = after BY <2>1, <2>5, <2>6, Zenon
  <2> HIDE DEF after, after2
  <2>11. bound2 = bound BY <2>2, <2>6, <2>9, Zenon
  <2> HIDE DEF bound, bound2
  <2>12. Follower!Settle(bound2, after2) = Settle(bound, after) BY <2>1, <2>10, <2>11, Zenon
  <2>13. (IF bound2.stop = Follower!None THEN after2 ELSE moved)
         = (IF bound.stop = None THEN after ELSE moved)
    BY <1>1, <2>10, <2>11, Zenon
  <2> QED BY <2>3, <2>4, <2>12, <2>13
<1> QED BY <1>1, <1>2, <1>3, <1>4, <1>5

\* What the abstract specification sees, before and after a step.
LEMMA SeenIs ==
    /\ S!CatchUp(z, bus, clock) = CatchUp(z, bus, clock)
    /\ S!CatchUp(z, bus, clock)' = CatchUp(z', bus', clock')
<1>1. S!CatchUp(z, bus, clock)' = S!CatchUp(z', bus', clock') OBVIOUS
<1> QED BY <1>1, SameCatchUp

\* The clock moves on for both of them.
LEMMA TimeRefines ==
    ASSUME IInv, NEW ticks \in 1 .. 2 * Frame, TimeStep(ticks)
    PROVE  Follower!TimePasses(ticks)
<1>1. Types /\ LagIsBounded /\ ticks \in Nat BY FrameFacts DEF IInv
<1>2. z \in ZStates /\ clock \in Int /\ clock \in Nat BY <1>1, FrameFacts DEF Types
<1> DEFINE t == (clock + ticks) % Frame
<1>3. clock' = t /\ bus' = bus BY DEF TimeStep
<1>4. CatchUp(z', bus', clock') = CatchUp(Later(z, bus, ticks), bus, t)
  <2>1. Later(z, bus, ticks) \in ZStates BY <1>1, <1>2, LaterType
  <2>2. t \in Int BY <1>1, <1>2, FrameFacts
  <2>3. CASE unsynced + ticks >= Quantum
    <3>1. PICK y \in ZStates : y = Later(z, bus, ticks) BY <2>1
    <3>2. z' = RunTo(y, bus, t) BY <1>3, <2>3, <3>1 DEF TimeStep
    <3> HIDE DEF t
    <3>3. z' = CatchUp(y, bus, t) BY <2>2, <3>2, RunToCatchesUp
    <3>4. z' \in ZStates /\ Rests(z', bus) /\ Settle(z', bus) = z' BY <3>3, CatchUpType
    <3>5. CatchUp(z', bus, t) = z' BY <3>4, CaughtUp
    <3> QED BY <1>3, <3>1, <3>3, <3>5
  <2>4. CASE ~ (unsynced + ticks >= Quantum)
    <3>1. z' = Later(z, bus, ticks) BY <2>4 DEF TimeStep
    <3> QED BY <1>3, <3>1
  <2> QED BY <2>3, <2>4
<1>5. CatchUp(Later(z, bus, ticks), bus, t) = CatchUp(Later(CatchUp(z, bus, clock), bus, ticks), bus, t)
  BY <1>1, <1>2, CatchUpLater
<1> QED BY <1>3, <1>4, <1>5, SeenIs, SameCatchUp, SameMachine DEF Follower!TimePasses

\* Everything that takes time takes less than two frames.
LEMMA TimeStepsRefine ==
    ASSUME IInv, (\E cycles \in Cycles : Retire(cycles)) \/ Charge \/ WaitLine \/ WaitOnset
    PROVE  \/ \E ticks \in 1 .. 2 * Frame : Follower!TimePasses(ticks)
           \/ UNCHANGED <<clock, z, bus>>
<1>1. PICK f \in Nat \ {0}, c \in Nat \ {0} :
          /\ f = Frame /\ c = CycleTicks /\ c <= f
          /\ \A a \in Cycles \cup {EntryCycles} : a \in Nat \ {0} /\ a * c <= 2 * f
  BY FrameFacts, GenesisAssumption
<1>2. ASSUME NEW a \in Cycles \cup {EntryCycles} PROVE a * CycleTicks \in 1 .. 2 * Frame
  <2>1. a \in Nat \ {0} /\ a * c <= 2 * f BY <1>1
  <2>2. c * 1 <= c * a BY <1>1, <2>1, TimesMono
  <2>3. c * 1 = c /\ c * a = a * c BY <2>1
  <2>4. PICK p \in Int : p = a * c BY <2>1
  <2>5. p \in 1 .. 2 * f BY <2>1, <2>2, <2>3, <2>4
  <2> QED BY <1>1, <2>4, <2>5
<1>3. ASSUME NEW d \in 1 .. Frame PROVE InCycles(d) * CycleTicks \in 1 .. 2 * Frame
  <2>1. d \in Nat \ {0} /\ d <= f BY <1>1
  <2>2. /\ InCycles(d) \in Nat /\ InCycles(d) * CycleTicks >= d
        /\ InCycles(d) * CycleTicks < d + CycleTicks
    BY <2>1, InCyclesBounds
  <2>3. PICK p \in Nat : p = InCycles(d) * CycleTicks BY <2>2, TicksType
  <2> QED BY <1>1, <2>1, <2>2, <2>3
<1>4. CASE \E cycles \in Cycles : Retire(cycles)
  <2>1. PICK cycles \in Cycles : Retire(cycles) BY <1>4
  <2>2. TimeStep(cycles * CycleTicks) BY <2>1 DEF Retire, Scheduler, TimeStep
  <2> QED BY <1>2, <2>2, TimeRefines
<1>5. CASE Charge
  <2>1. TimeStep(EntryCycles * CycleTicks) BY <1>5 DEF Charge, Scheduler, TimeStep
  <2> QED BY <1>2, <2>1, TimeRefines
<1>6. CASE WaitLine
  <2>1. CASE ~ (steps < LinesWaited) BY <1>6, <2>1 DEF WaitLine, Ends
  <2>2. CASE steps < LinesWaited
    <3> DEFINE d == LineTicks - (clock % LineTicks)
    <3>1. TimeStep(InCycles(d) * CycleTicks) BY <1>6, <2>2 DEF WaitLine, Scheduler, TimeStep
    <3>2. d \in 1 .. Frame
      <4>1. clock \in Nat BY FrameFacts DEF IInv, Types
      <4>2. clock % LineTicks \in 0 .. LineTicks - 1 /\ LineTicks \in Nat BY <4>1, Constants0
      <4>3. LineTicks <= Frame
        <5>1. PICK l \in Nat \ {0}, m \in Nat \ {0} : l = LineTicks /\ m = Lines BY Constants0
        <5>2. l * 1 <= l * m BY <5>1, TimesMono
        <5>3. l * 1 = l /\ l * m = m * l BY <5>1
        <5> QED BY <5>1, <5>2, <5>3 DEF Frame
      <4> QED BY <1>1, <4>2, <4>3
    <3> QED BY <1>3, <3>1, <3>2, TimeRefines
  <2> QED BY <2>1, <2>2
<1>7. CASE WaitOnset
  <2> DEFINE d == IF clock < Onset THEN Onset - clock ELSE Onset + Frame - clock
  <2>1. TimeStep(InCycles(d) * CycleTicks) BY <1>7 DEF WaitOnset, Scheduler, TimeStep
  <2>2. d \in 1 .. Frame BY OnsetReached DEF IInv
  <2> QED BY <1>3, <2>1, <2>2, TimeRefines
<1> QED BY <1>4, <1>5, <1>6, <1>7

\* An access meets the Z80 that the abstract specification has.
LEMMA AccessRefines ==
    ASSUME IInv,
           \/ LooksAtSound
           \/ \E latch \in {"requested", "released"}, set \in BOOLEAN : WritesBus(latch, set)
           \/ \E c \in Cells : \E v \in Uploads[c] : WritesSoundRam(c, v)
    PROVE  Follower!Next \/ UNCHANGED <<clock, S!CatchUp(z, bus, clock), bus>>
<1>1. Types /\ clock' = clock BY DEF IInv, LooksAtSound, WritesBus, WritesSoundRam, SoundAccess
<1>2. /\ Synced = CatchUp(z, bus, clock) /\ Synced \in ZStates
      /\ Rests(Synced, bus) /\ Settle(Synced, bus) = Synced
  BY <1>1, SyncedIs
<1>3. ASSUME z' \in ZStates, Rests(z', bus'), Settle(z', bus') = z'
      PROVE  S!CatchUp(z, bus, clock)' = z' /\ S!CatchUp(z, bus, clock) = Synced
  BY <1>2, <1>3, SeenIs, CaughtUp
<1>4. CASE LooksAtSound
  <2>1. z' = Synced /\ bus' = bus BY <1>4 DEF LooksAtSound
  <2> QED BY <1>1, <1>2, <1>3, <2>1
<1>5. ASSUME NEW latch \in {"requested", "released"}, NEW set \in BOOLEAN, WritesBus(latch, set)
      PROVE  Follower!Next \/ UNCHANGED <<clock, S!CatchUp(z, bus, clock), bus>>
  <2>1. /\ z' \in ZStates /\ bus' \in Buses /\ Rests(z', bus') /\ Settle(z', bus') = z'
        /\ \/ Synced.stop # None /\ z' = Synced /\ bus' = bus
           \/ /\ Synced.stop = None
              /\ z' = BusWritten(Synced, bus, latch, set, clock).z
              /\ bus' = BusWritten(Synced, bus, latch, set, clock).bus
    BY <1>1, <1>5, BusStep
  <2>2. S!CatchUp(z, bus, clock)' = z' /\ S!CatchUp(z, bus, clock) = Synced BY <1>3, <2>1
  <2>3. CASE z' = Synced /\ bus' = bus BY <1>1, <2>2, <2>3
  <2>4. CASE /\ Synced.stop = None
             /\ z' = BusWritten(Synced, bus, latch, set, clock).z
             /\ bus' = BusWritten(Synced, bus, latch, set, clock).bus
    <3>1. Follower!BusWritten(Synced, bus, latch, set, clock) = BusWritten(Synced, bus, latch, set, clock)
          /\ Follower!None = None
      BY SameMachine
    <3>2. Follower!WriteBus(latch, set) BY <1>1, <2>2, <2>4, <3>1 DEF Follower!WriteBus
    <3> QED BY <3>2 DEF Follower!Next
  <2> QED BY <2>1, <2>3, <2>4
<1>6. ASSUME NEW c \in Cells, NEW v \in Uploads[c], WritesSoundRam(c, v)
      PROVE  Follower!Next \/ UNCHANGED <<clock, S!CatchUp(z, bus, clock), bus>>
  <2>1. /\ z' \in ZStates /\ bus' \in Buses /\ Rests(z', bus') /\ Settle(z', bus') = z'
        /\ \/ z' = Synced /\ bus' = bus
           \/ /\ Synced.stop = None /\ Granted(bus)
              /\ z' = [Synced EXCEPT !.ram[c] = v]
              /\ bus' = [bus EXCEPT !.written = @ \cup {c}]
    BY <1>1, <1>6, RamStep
  <2>2. S!CatchUp(z, bus, clock)' = z' /\ S!CatchUp(z, bus, clock) = Synced BY <1>3, <2>1
  <2>3. CASE z' = Synced /\ bus' = bus BY <1>1, <2>2, <2>3
  <2>4. CASE /\ Synced.stop = None /\ Granted(bus)
             /\ z' = [Synced EXCEPT !.ram[c] = v]
             /\ bus' = [bus EXCEPT !.written = @ \cup {c}]
    <3>1. Follower!Granted(bus) = Granted(bus) /\ Follower!None = None BY SameMachine
    <3>2. Follower!WriteRam(c, v) BY <1>1, <2>2, <2>4, <3>1 DEF Follower!WriteRam
    <3>3. c \in Follower!Cells /\ v \in Follower!Contents(c) BY SameMachine, GenesisAssumption
    <3> QED BY <3>2, <3>3 DEF Follower!Next
  <2> QED BY <2>1, <2>3, <2>4
<1> QED BY <1>4, <1>5, <1>6

\* Every step of the machine is a step of the Z80 that runs along, or none.
LEMMA StepRefines ==
    ASSUME IInv, [Next]_vars
    PROVE  [Follower!Next]_<<clock, S!CatchUp(z, bus, clock), bus>>
<1>1. ASSUME UNCHANGED <<clock, z, bus>>
      PROVE  UNCHANGED <<clock, S!CatchUp(z, bus, clock), bus>>
  BY <1>1, SeenIs
<1>2. CASE (\E cycles \in Cycles : Retire(cycles)) \/ Charge \/ WaitLine \/ WaitOnset
  <2>1. \/ \E ticks \in 1 .. 2 * Frame : Follower!TimePasses(ticks)
        \/ UNCHANGED <<clock, z, bus>>
    BY <1>2, TimeStepsRefine
  <2>2. Follower!Frame = Frame BY SameMachine
  <2> QED BY <1>1, <2>1, <2>2 DEF Follower!Next
<1>3. CASE \/ LooksAtSound
           \/ \E latch \in {"requested", "released"}, set \in BOOLEAN : WritesBus(latch, set)
           \/ \E c \in Cells : \E v \in Uploads[c] : WritesSoundRam(c, v)
  BY <1>3, AccessRefines
<1>4. CASE \/ \E r \in [ie0 : BOOLEAN, ie1 : BOOLEAN, every : HintEvery] : WritesVdp(r)
           \/ \E mask \in Masks, stop \in BOOLEAN : LoadsMask(mask, stop)
           \/ NoWake \/ UNCHANGED vars
  <2>1. UNCHANGED <<clock, z, bus>>
    BY <1>4 DEF WritesVdp, LoadsMask, NoWake, Ends, vars
  <2> QED BY <1>1, <2>1
<1> QED BY <1>2, <1>3, <1>4 DEF Next

\* Both begin with a Z80 in reset.
LEMMA InitRefines == ASSUME Init PROVE Follower!Init
<1>1. PICK p \in Profiles : z = PowerOn(p) BY DEF Init, Profiles
<1>2. CatchUp(z, bus, clock) = z BY <1>1 DEF CatchUp, PowerOn
<1>3. S!CatchUp(z, bus, clock) = PowerOn(p) BY <1>1, <1>2, SeenIs
<1>4. Follower!PowerOn(p) = PowerOn(p) /\ Follower!Profiles = Profiles /\ Follower!BusPowerOn = BusPowerOn
  BY SameMachine
<1>5. S!CatchUp(z, bus, clock) \in {Follower!PowerOn(q) : q \in Follower!Profiles} BY <1>3, <1>4
<1> QED BY <1>4, <1>5 DEF Init, Follower!Init

\* For every program, quantum and instruction timing: what the 68000 sees of the Z80 that is
\* run up to the clock when somebody looks (genesis_z80_sync) is a Z80 that runs along.
THEOREM FollowerImplements == Spec => ImplementsSoundCpu
<1>1. Init => Follower!Init BY InitRefines
<1>2. IInv /\ [Next]_vars => [Follower!Next]_<<clock, S!CatchUp(z, bus, clock), bus>> BY StepRefines
<1> QED BY <1>1, <1>2, AlwaysIInv, PTL DEF Spec, ImplementsSoundCpu, Follower!Spec
=============================================================================
