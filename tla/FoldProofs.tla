------------------------------ MODULE FoldProofs ------------------------------
(*****************************************************************************)
(* What a loop over a sequence computes: the rules of induction for          *)
(* FoldLeft, which the models use for the loops of the code.                 *)
(* op(c, a, e) is one turn of the loop: a is what was computed so far, e the *)
(* element, and c what does not change during the loop. A module that needs  *)
(* the rules for a loop instantiates this one with the loop's turn for op.   *)
(* The induction itself is on sets of numbers (NatInduct), a form that needs *)
(* no predicate as a parameter.                                              *)
(*****************************************************************************)
EXTENDS Naturals, Sequences, SequencesExt, WellFoundedInduction, TLAPS

CONSTANT op(_, _, _)

\* The loop over seq, from base
Loop(c, base, seq) == FoldLeft(LAMBDA a, e : op(c, a, e), base, seq)

\* One turn leads from A to A, whatever element of E it is given: A is an
\* invariant of the loop.
Closed(c, A, E) == \A a \in A, e \in E : op(c, a, e) \in A

\* The loop's values are those of a sequence that starts with base and is
\* continued by op.
Passes(c, A, base, seq) ==
  \E acc \in [0 .. Len(seq) -> A] :
    /\ acc[0] = base
    /\ \A i \in 1 .. Len(seq) : acc[i] = op(c, acc[i - 1], seq[i])
    /\ Loop(c, base, seq) = acc[Len(seq)]

\* Induction: a set with 0 and, with each number, the next one has all numbers.
LEMMA NatInduct ==
  ASSUME NEW S, 0 \in S, \A n \in Nat : n \in S => n + 1 \in S
  PROVE  Nat \subseteq S
<1> DEFINE T == Nat \ S
           R == {ss \in Nat \X Nat : ss[1] < ss[2]}
<1>1. IsWellFoundedOn(R, Nat)
  BY NatLessThanWellFounded DEF OpToRel
<1> HIDE DEF R
<1>2. SUFFICES ASSUME T # {} PROVE FALSE
  OBVIOUS
<1>3. T \subseteq Nat
  OBVIOUS
<1>4. \E x \in T : \A y \in T : ~(<<y, x>> \in R)
  BY <1>1, <1>2, <1>3, WFMin, Zenon
<1>5. PICK x \in T : \A y \in T : ~(<<y, x>> \in R)
  BY <1>4
<1>6. x \in Nat /\ x # 0 /\ x - 1 \in Nat /\ x - 1 \notin S
  BY <1>5
<1>7. <<x - 1, x>> \in R
  BY <1>6 DEF R
<1> QED
  BY <1>5, <1>6, <1>7

\* Max is what it is called.
LEMMA MaxIs ==
  ASSUME NEW s \in SUBSET Nat, NEW x \in s, \A y \in s : y <= x
  PROVE  Max(s) = x
<1>1. \A z \in s : (\A y \in s : z >= y) => z = x
  OBVIOUS
<1>2. \E z \in s : \A y \in s : z >= y
  OBVIOUS
<1> QED
  BY <1>1, <1>2 DEF Max

\* Max of a set of numbers up to n is one of them.
LEMMA MaxIn ==
  ASSUME NEW n \in Nat, NEW s \in SUBSET (1 .. n), s # {}
  PROVE  Max(s) \in s
<1> DEFINE S == { k \in Nat : \A t \in SUBSET (1 .. k) : t # {} => Max(t) \in t }
<1>1. 0 \in S
  <2>1. 1 .. 0 = {}
    OBVIOUS
  <2>2. \A t \in SUBSET (1 .. 0) : t = {}
    BY <2>1
  <2> QED
    BY <2>2
<1>2. ASSUME NEW k \in Nat, k \in S
      PROVE  k + 1 \in S
  <2> SUFFICES ASSUME NEW t \in SUBSET (1 .. k + 1), t # {} PROVE Max(t) \in t
    OBVIOUS
  <2>1. CASE k + 1 \in t
    <3>1. t \in SUBSET Nat /\ \A y \in t : y <= k + 1
      OBVIOUS
    <3> QED
      BY <2>1, <3>1, MaxIs
  <2>2. CASE k + 1 \notin t
    <3>1. t \in SUBSET (1 .. k)
      BY <2>2
    <3> QED
      BY <3>1, <1>2
  <2> QED
    BY <2>1, <2>2
<1> HIDE DEF S
<1>3. Nat \subseteq S
  BY <1>1, <1>2, NatInduct
<1> QED
  BY <1>3 DEF S

\* g is the function of MapThenFoldSet on the subsets of 1 .. n, for a turn F.
Iterates(F, base, n, g) ==
  \A s \in SUBSET (1 .. n) :
    g[s] = IF s = {} THEN base ELSE F[<<g[s \ {Max(s)}], Max(s)>>]

\* one function on the subsets of 1 .. n
\* There is such a function for every n, so the recursive definition of
\* MapThenFoldSet has a solution and CHOOSE finds one.
LEMMA IterExists ==
  ASSUME NEW A, NEW base \in A, NEW F \in [A \X Nat -> A]
  PROVE  \A n \in Nat : \E g \in [SUBSET (1 .. n) -> A] : Iterates(F, base, n, g)
<1> DEFINE Good(n, g) == Iterates(F, base, n, g)
           S == { n \in Nat : \E g \in [SUBSET (1 .. n) -> A] : Good(n, g) }
<1> USE DEF Iterates
<1>1. 0 \in S
  <2> DEFINE g == [s \in SUBSET (1 .. 0) |-> base]
  <2>1. g \in [SUBSET (1 .. 0) -> A]
    OBVIOUS
  <2>2. 1 .. 0 = {}
    OBVIOUS
  <2>3. Good(0, g)
    BY <2>2
  <2> QED
    BY <2>1, <2>3
<1>2. ASSUME NEW n \in Nat, n \in S
      PROVE  n + 1 \in S
  <2>1. PICK g \in [SUBSET (1 .. n) -> A] : Good(n, g)
    BY <1>2
  <2> DEFINE h == [s \in SUBSET (1 .. n + 1) |->
                     IF n + 1 \in s THEN F[<<g[s \ {n + 1}], n + 1>>] ELSE g[s]]
  <2>2. ASSUME NEW s \in SUBSET (1 .. n + 1), n + 1 \in s
        PROVE  s \ {n + 1} \in SUBSET (1 .. n) /\ Max(s) = n + 1
    <3>1. s \ {n + 1} \in SUBSET (1 .. n)
      OBVIOUS
    <3>2. s \in SUBSET Nat /\ \A y \in s : y <= n + 1
      OBVIOUS
    <3> QED
      BY <2>2, <3>1, <3>2, MaxIs
  <2>3. ASSUME NEW s \in SUBSET (1 .. n + 1), n + 1 \notin s
        PROVE  s \in SUBSET (1 .. n)
    BY <2>3
  <2>4. h \in [SUBSET (1 .. n + 1) -> A]
    <3> SUFFICES ASSUME NEW s \in SUBSET (1 .. n + 1)
                 PROVE  (IF n + 1 \in s THEN F[<<g[s \ {n + 1}], n + 1>>] ELSE g[s]) \in A
      OBVIOUS
    <3> QED
      BY <2>1, <2>2, <2>3
  <2>5. ASSUME NEW s \in SUBSET (1 .. n + 1)
        PROVE  h[s] = IF s = {} THEN base ELSE F[<<h[s \ {Max(s)}], Max(s)>>]
    <3>1. CASE n + 1 \in s
      <4>1. s \ {n + 1} \in SUBSET (1 .. n + 1) /\ n + 1 \notin s \ {n + 1}
        OBVIOUS
      <4>2. h[s \ {n + 1}] = g[s \ {n + 1}]
        BY <4>1
      <4> QED
        BY <3>1, <2>2, <4>2
    <3>2. CASE n + 1 \notin s
      <4>1. h[s] = g[s] /\ s \in SUBSET (1 .. n)
        BY <3>2, <2>3
      <4>2. CASE s = {}
        BY <4>1, <4>2, <2>1
      <4>3. CASE s # {}
        <5>2. h[s \ {Max(s)}] = g[s \ {Max(s)}]
          <6>1. n + 1 \notin s \ {Max(s)}
            BY <3>2
          <6>2. s \ {Max(s)} \in SUBSET (1 .. n + 1)
            OBVIOUS
          <6> QED
            BY <6>1, <6>2
        <5>3. g[s] = F[<<g[s \ {Max(s)}], Max(s)>>]
          BY <2>1, <4>1, <4>3
        <5> HIDE DEF h
        <5> QED
          BY <4>1, <4>3, <5>2, <5>3
      <4> QED
        BY <4>2, <4>3
    <3> QED
      BY <3>1, <3>2
  <2> HIDE DEF h
  <2>6. Good(n + 1, h)
    BY <2>5
  <2> HIDE DEF Iterates
  <2>7. \E k \in [SUBSET (1 .. n + 1) -> A] : Good(n + 1, k)
    BY <2>4, <2>6
  <2>8. n + 1 \in Nat
    OBVIOUS
  <2> QED
    BY <2>7, <2>8
<1> HIDE DEF S
<1>3. Nat \subseteq S
  BY <1>1, <1>2, NatInduct
<1> QED
  BY <1>3 DEF S

\* FoldLeft makes one turn for each element, in order, provided that the turns
\* stay in some set A.
THEOREM FoldSteps ==
  ASSUME NEW c, NEW A, NEW E, NEW base \in A, NEW seq \in Seq(E),
         Closed(c, A, E)
  PROVE  Passes(c, A, base, seq)
<1> USE DEF Closed
<1> DEFINE n == Len(seq)
           D == 1 .. n
           F == [x \in A \X Nat |-> IF x[2] \in D THEN op(c, x[1], seq[x[2]]) ELSE base]
           Iter(g) == [s \in SUBSET D |-> IF s = {} THEN base ELSE op(c, g[s \ {Max(s)}], seq[Max(s)])]
           iter == CHOOSE g : g = Iter(g)
           fold == Loop(c, base, seq)
<1>1. DOMAIN seq = D /\ n \in Nat /\ \A i \in D : seq[i] \in E
  OBVIOUS
<1>2. fold = iter[D]
  BY <1>1 DEF Loop, FoldLeft, MapThenFoldSet
<1> HIDE DEF fold
<1>3. F \in [A \X Nat -> A]
  BY <1>1
<1>4. \A s \in SUBSET D : s # {} => Max(s) \in D
  BY <1>1, MaxIn
<1>5. \E g : g = Iter(g)
  <2>1. PICK g \in [SUBSET D -> A] : Iterates(F, base, n, g)
    <3>1. n \in Nat
      BY <1>1
    <3> HIDE DEF F, n
    <3> QED
      BY <3>1, <1>3, IterExists
  <2> USE DEF Iterates
  <2>2. ASSUME NEW s \in SUBSET D
        PROVE  g[s] = IF s = {} THEN base ELSE op(c, g[s \ {Max(s)}], seq[Max(s)])
    <3>1. CASE s = {}
      BY <2>1, <3>1
    <3>2. CASE s # {}
      <4>1. Max(s) \in D /\ Max(s) \in Nat
        BY <1>4, <3>2
      <4>2. g[s \ {Max(s)}] \in A
        OBVIOUS
      <4>3. F[<<g[s \ {Max(s)}], Max(s)>>] = op(c, g[s \ {Max(s)}], seq[Max(s)])
        BY <4>1, <4>2
      <4> HIDE DEF F
      <4> QED
        BY <2>1, <3>2, <4>3
    <3> QED
      BY <3>1, <3>2
  <2>3. g = Iter(g)
    BY <2>2
  <2> QED
    BY <2>3
<1>6. iter = Iter(iter)
  BY <1>5
<1> DEFINE acc == [i \in 0 .. n |-> iter[1 .. i]]
<1>7. \A s \in SUBSET D : iter[s] = IF s = {} THEN base ELSE op(c, iter[s \ {Max(s)}], seq[Max(s)])
  BY <1>6
<1> HIDE DEF iter, Iter, F
<1>8. acc[0] = base
  <2>1. 1 .. 0 = {} /\ {} \in SUBSET D /\ 0 \in 0 .. n
    BY <1>1
  <2> QED
    BY <2>1, <1>7
<1>9. ASSUME NEW i \in 1 .. n
      PROVE  acc[i] = op(c, acc[i - 1], seq[i])
  <2>1. 1 .. i \in SUBSET D /\ 1 \in 1 .. i /\ i \in 0 .. n /\ i - 1 \in 0 .. n
    BY <1>1
  <2>2. Max(1 .. i) = i
    BY MaxIs, <1>1
  <2>3. (1 .. i) \ {i} = 1 .. i - 1
    BY <1>1
  <2> QED
    BY <1>7, <2>1, <2>2, <2>3
<1>10. acc \in [0 .. n -> A]
  <2> DEFINE T == { i \in Nat : i \in 0 .. n => acc[i] \in A }
  <2> HIDE DEF acc
  <2>1. 0 \in T
    BY <1>8
  <2>2. ASSUME NEW i \in Nat, i \in T
        PROVE  i + 1 \in T
    <3> SUFFICES ASSUME i + 1 \in 0 .. n PROVE acc[i + 1] \in A
      OBVIOUS
    <3>1. i + 1 \in 1 .. n /\ i \in 0 .. n /\ (i + 1) - 1 = i
      BY <1>1
    <3>2. acc[i + 1] = op(c, acc[i], seq[i + 1])
      BY <1>9, <3>1
    <3>3. acc[i] \in A /\ seq[i + 1] \in E
      BY <2>2, <3>1, <1>1
    <3> QED
      BY <3>2, <3>3
  <2> HIDE DEF T
  <2>3. Nat \subseteq T
    BY <2>1, <2>2, NatInduct
  <2>4. \A i \in 0 .. n : acc[i] \in A
    BY <2>3, <1>1 DEF T
  <2> QED
    BY <2>4 DEF acc
<1>11. fold = acc[n]
  <2>1. n \in 0 .. n
    BY <1>1
  <2> QED
    BY <2>1, <1>2
<1> HIDE DEF acc
<1>12. \E a \in [0 .. n -> A] :
         a[0] = base /\ (\A i \in 1 .. n : a[i] = op(c, a[i - 1], seq[i])) /\ fold = a[n]
  BY <1>8, <1>9, <1>10, <1>11
<1> QED
  BY <1>12 DEF fold, Passes
\* Min of a set of numbers is one of them.
LEMMA MinIn ==
  ASSUME NEW s \in SUBSET Nat, s # {}
  PROVE  Min(s) \in s
<1> DEFINE R == { ss \in Nat \X Nat : ss[1] < ss[2] }
<1>1. IsWellFoundedOn(R, Nat)
  BY NatLessThanWellFounded DEF OpToRel
<1>2. \E x \in s : \A y \in s : ~(<<y, x>> \in R)
  <2> HIDE DEF R
  <2>1. s \subseteq Nat
    OBVIOUS
  <2> QED
    BY <1>1, <2>1, WFMin, Zenon
<1>3. PICK x \in s : \A y \in s : ~(<<y, x>> \in R)
  BY <1>2
<1>4. ASSUME NEW y \in s PROVE x <= y
  <2>1. ~(<<y, x>> \in R) /\ x \in Nat /\ y \in Nat
    BY <1>3
  <2>2. ~(y < x)
    BY <2>1
  <2> QED
    BY <2>1, <2>2
<1> QED
  BY <1>4 DEF Min

\* The rule for loop invariants: what holds at first and is kept by each turn
\* holds at the end.
THEOREM FoldInvariant ==
  ASSUME NEW c, NEW A, NEW E, NEW base \in A, NEW seq \in Seq(E), Closed(c, A, E)
  PROVE  Loop(c, base, seq) \in A
<1>1. PICK acc \in [0 .. Len(seq) -> A] : Loop(c, base, seq) = acc[Len(seq)]
  <2>1. Passes(c, A, base, seq)
    BY FoldSteps
  <2> QED
    BY <2>1 DEF Passes
<1>2. Len(seq) \in 0 .. Len(seq)
  OBVIOUS
<1> QED
  BY <1>1, <1>2

\* What one turn brings about and all turns keep holds at the end.
THEOREM FoldReaches ==
  ASSUME NEW c, NEW A, NEW E, NEW base \in A, NEW seq \in Seq(E), Closed(c, A, E),
         NEW G, Closed(c, A \cap G, E),
         NEW k \in 1 .. Len(seq), \A a \in A : op(c, a, seq[k]) \in G
  PROVE  Loop(c, base, seq) \in G
<1>1. PICK acc \in [0 .. Len(seq) -> A] :
        /\ \A i \in 1 .. Len(seq) : acc[i] = op(c, acc[i - 1], seq[i])
        /\ Loop(c, base, seq) = acc[Len(seq)]
  <2>1. Passes(c, A, base, seq)
    BY FoldSteps
  <2> QED
    BY <2>1 DEF Passes
<1> DEFINE T == { i \in Nat : k + i \in 0 .. Len(seq) => acc[k + i] \in G }
<1>2. 0 \in T
  <2>1. k - 1 \in 0 .. Len(seq) /\ k + 0 = k
    OBVIOUS
  <2> QED
    BY <1>1, <2>1
<1>3. ASSUME NEW i \in Nat, i \in T
      PROVE  i + 1 \in T
  <2> SUFFICES ASSUME k + (i + 1) \in 0 .. Len(seq) PROVE acc[k + (i + 1)] \in G
    OBVIOUS
  <2> DEFINE j == k + i
  <2>1. j \in 0 .. Len(seq) /\ k + (i + 1) = j + 1 /\ j + 1 \in 1 .. Len(seq) /\ (j + 1) - 1 = j
    OBVIOUS
  <2>2. acc[j] \in A \cap G
    BY <1>3, <2>1
  <2> HIDE DEF j
  <2>3. acc[j + 1] = op(c, acc[j], seq[j + 1])
    BY <1>1, <2>1
  <2>4. seq[j + 1] \in E
    BY <2>1
  <2> QED
    BY <2>1, <2>2, <2>3, <2>4 DEF Closed
<1> HIDE DEF T
<1>4. Nat \subseteq T
  BY <1>2, <1>3, NatInduct
<1>5. Len(seq) - k \in Nat /\ k + (Len(seq) - k) = Len(seq) /\ Len(seq) \in 0 .. Len(seq)
  OBVIOUS
<1>6. acc[Len(seq)] \in G
  BY <1>4, <1>5 DEF T
<1> QED
  BY <1>1, <1>6

===============================================================================
