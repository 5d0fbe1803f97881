-------------------------- MODULE LocalFiles_proofs --------------------------
(***************************************************************************)
(* Proofs about what the app keeps on disk: a store file behaves as one    *)
(* cell (AtomicFile), nothing waits to be sent once sharing is off and     *)
(* nothing else that waits is lost (Outbox), the day's counts go with it   *)
(* and count once (DayTally), a start tells the truth of the run before it *)
(* (SessionMarker), and the tallies have no more than was spoken           *)
(* (DictationStats), for any bounds and any interleaving.  The five share  *)
(* no state.                                                               *)
(***************************************************************************)
EXTENDS AtomicFile, Outbox, DayTally, SessionMarker, DictationStats, FiniteSetTheorems,
        SequenceTheorems, TLAPS

-----------------------------------------------------------------------------
(* Induction and folds.  The library's induction theorems take an operator   *)
(* as a parameter; these take a set, and rest on the numbers and the finite  *)
(* sets being well founded.  From them a recursion defines a function, and   *)
(* a fold is one.                                                            *)

\* Among finite sets there is one that holds no other.
LEMMA SmallestSet ==
  ASSUME NEW U, NEW T, T \subseteq FiniteSubsetsOf(U), T # {}
  PROVE  \E X \in T : \A Y \in T : Y \subseteq X => Y = X
<1>1. IsWellFoundedOn(StrictSubsetOrdering(U), FiniteSubsetsOf(U))
  BY FS_StrictSubsetOrderingWellFounded
<1>2. \E X \in T : \A Y \in T : ~ (<<Y, X>> \in StrictSubsetOrdering(U))
  BY <1>1, WFMin, Zenon
<1>3. QED
  BY <1>2 DEF StrictSubsetOrdering, FiniteSubsetsOf

\* Induction over the numbers, of a set of them.
LEMMA Induction ==
  ASSUME NEW S, 0 \in S, \A n \in Nat : n \in S => n + 1 \in S
  PROVE  Nat \subseteq S
<1> SUFFICES ASSUME Nat \ S # {} PROVE FALSE
  OBVIOUS
<1>1. PICK m \in Nat \ S : \A n \in Nat \ S : ~ (<<n, m>> \in OpToRel(<, Nat))
  BY NatLessThanWellFounded, WFMin, Zenon
<1>2. \A n \in Nat \ S : <<n, m>> \in OpToRel(<, Nat) <=> n < m
  <2>1. OpToRel(<, Nat) = {ss \in Nat \X Nat : ss[1] < ss[2]}
    BY Zenon DEF OpToRel
  <2>2. QED
    BY <2>1
<1>3. \A n \in Nat \ S : ~ (n < m)
  BY <1>1, <1>2
<1>4. m # 0 /\ m - 1 \in Nat /\ (m - 1) + 1 = m
  OBVIOUS
<1>5. QED
  BY <1>3, <1>4

\* ... up to a bound.
LEMMA InductionTo ==
  ASSUME NEW S, NEW m \in Nat, 0 \in S, \A n \in 1 .. m : n - 1 \in S => n \in S
  PROVE  0 .. m \subseteq S
<1> DEFINE R == {n \in Nat : n <= m => n \in S}
<1>1. 0 \in R
  OBVIOUS
<1>2. ASSUME NEW n \in Nat, n \in R PROVE n + 1 \in R
  <2>1. CASE n + 1 <= m
    BY <2>1, <1>2, n + 1 \in 1 .. m, (n + 1) - 1 = n
  <2>2. CASE ~ (n + 1 <= m)
    BY <2>2
  <2>3. QED
    BY <2>1, <2>2
<1>3. Nat \subseteq R
  <2> HIDE DEF R
  <2>1. QED
    BY <1>1, <1>2, Induction
<1>4. QED
  BY <1>3

\* Numbers up to a bound have a greatest.
LEMMA Greatest ==
  ASSUME NEW m \in Nat, NEW T, T \subseteq 1 .. m, T # {}
  PROVE  Max(T) \in T /\ \A i \in T : i <= Max(T)
<1> DEFINE R == {n \in 0 .. m : \/ \A i \in T : ~ i <= n
                                \/ \E i \in T : i <= n /\ \A j \in T : j <= n => j <= i}
<1>1. 0 \in R
  OBVIOUS
<1>2. ASSUME NEW n \in 1 .. m, n - 1 \in R PROVE n \in R
  <2>1. CASE n \in T
    BY <2>1
  <2>2. CASE n \notin T
    <3>1. \A i \in T : i <= n <=> i <= n - 1
      BY <2>2
    <3>2. QED
      BY <1>2, <3>1
  <2>3. QED
    BY <2>1, <2>2
<1>3. m \in R
  <2> HIDE DEF R
  <2>1. 0 .. m \subseteq R
    BY <1>1, <1>2, InductionTo
  <2>2. QED
    BY <2>1
<1>4. \E i \in T : \A j \in T : j <= i
  BY <1>3, \A i \in T : i <= m
<1>5. \E i \in T : \A j \in T : i >= j
  BY <1>4
<1>6. QED
  BY <1>5 DEF Max

\* A recursion over the subsets of S, which takes one element after the other.
Picks(pick, S) == \A s \in SUBSET S : s # {} => pick[s] \in s
Steps(step, S, V) == \A x \in S, v \in V : step[x][v] \in V
Recurses(g, S, V, base, pick, step) ==
  /\ g \in [SUBSET S -> V]
  /\ \A s \in SUBSET S : g[s] = IF s = {} THEN base ELSE step[pick[s]][g[s \ {pick[s]}]]

\* It defines a function.
LEMMA Recursion ==
  ASSUME NEW S, NEW V, NEW base, NEW pick, NEW step,
         IsFiniteSet(S), base \in V, Picks(pick, S), Steps(step, S, V)
  PROVE  \E g : Recurses(g, S, V, base, pick, step)
<1> USE DEF Picks, Steps, Recurses
<1> DEFINE Rec(g, s) == IF s = {} THEN base ELSE step[pick[s]][g[s \ {pick[s]}]]
           R == {n \in Nat : \E g \in [SUBSET S -> V] :
                   \A s \in SUBSET S : Cardinality(s) <= n => g[s] = Rec(g, s)}
<1>0. ASSUME NEW s \in SUBSET S
      PROVE  /\ IsFiniteSet(s) /\ Cardinality(s) \in Nat
             /\ s # {} => /\ s \ {pick[s]} \in SUBSET S
                          /\ Cardinality(s \ {pick[s]}) = Cardinality(s) - 1
             /\ Cardinality(s) = 0 => s = {}
             /\ Cardinality(s) <= Cardinality(S)
  <2>1. IsFiniteSet(s) /\ Cardinality(s) <= Cardinality(S)
    BY FS_Subset
  <2>2. Cardinality(s) \in Nat
    BY <2>1, FS_CardinalityType
  <2>3. s # {} => Cardinality(s \ {pick[s]}) = Cardinality(s) - 1
    BY <2>1, FS_RemoveElement
  <2>4. Cardinality(s) = 0 => s = {}
    BY <2>1, FS_EmptySet
  <2>5. QED
    BY <2>1, <2>2, <2>3, <2>4
<1>1. 0 \in R
  <2> DEFINE g == [s \in SUBSET S |-> base]
  <2>1. g \in [SUBSET S -> V]
    OBVIOUS
  <2>2. ASSUME NEW s \in SUBSET S, Cardinality(s) <= 0 PROVE g[s] = Rec(g, s)
    <3>1. Cardinality(s) = 0
      <4>1. Cardinality(s) \in Nat
        BY <1>0
      <4>2. QED
        BY <4>1, <2>2
    <3>2. s = {}
      BY <1>0, <3>1
    <3>3. QED
      BY <3>2
  <2>3. QED
    BY <2>1, <2>2
<1>2. ASSUME NEW n \in Nat, n \in R PROVE n + 1 \in R
  <2>1. PICK g \in [SUBSET S -> V] :
             \A s \in SUBSET S : Cardinality(s) <= n => g[s] = Rec(g, s)
    BY <1>2
  <2> DEFINE h == [s \in SUBSET S |-> Rec(g, s)]
  <2>2. h \in [SUBSET S -> V]
    <3> SUFFICES ASSUME NEW s \in SUBSET S PROVE Rec(g, s) \in V
      OBVIOUS
    <3>1. CASE s = {}
      BY <3>1
    <3>2. CASE s # {}
      BY <3>2, <1>0, pick[s] \in S, g[s \ {pick[s]}] \in V
    <3>3. QED
      BY <3>1, <3>2
  <2>3. ASSUME NEW s \in SUBSET S, Cardinality(s) <= n + 1 PROVE h[s] = Rec(h, s)
    <3>1. CASE s = {}
      BY <3>1
    <3>2. CASE s # {}
      <4>1. s \ {pick[s]} \in SUBSET S /\ Cardinality(s \ {pick[s]}) <= n
        <5>1. Cardinality(s) \in Nat /\ Cardinality(s \ {pick[s]}) = Cardinality(s) - 1
          BY <3>2, <1>0
        <5>2. QED
          BY <5>1, <2>3
      <4>2. h[s \ {pick[s]}] = g[s \ {pick[s]}]
        BY <4>1, <2>1
      <4>3. QED
        BY <3>2, <4>2
    <3>3. QED
      BY <3>1, <3>2
  <2>4. QED
    <3> HIDE DEF Rec, h
    <3>1. QED
      BY <2>2, <2>3
<1>3. Cardinality(S) \in R
  <2>1. Nat \subseteq R
    <3> HIDE DEF R
    <3>1. QED
      BY <1>1, <1>2, Induction
  <2>2. QED
    BY <2>1, <1>0, S \in SUBSET S
<1>4. QED
  BY <1>3, <1>0

\* A fold takes the last element of a prefix.
LEMMA PrefixLemma ==
  ASSUME NEW T, NEW q \in Seq(T)
  PROVE  /\ DOMAIN q = 1 .. Len(q) /\ Len(q) \in Nat /\ IsFiniteSet(DOMAIN q)
         /\ \A s \in SUBSET DOMAIN q : s # {} => Max(s) \in s
         /\ \A n \in 1 .. Len(q) : /\ 1 .. n \in SUBSET DOMAIN q /\ 1 .. n # {}
                                   /\ Max(1 .. n) = n /\ (1 .. n) \ {n} = 1 .. n - 1
<1>1. DOMAIN q = 1 .. Len(q) /\ Len(q) \in Nat
  BY LenProperties
<1>2. IsFiniteSet(DOMAIN q)
  BY <1>1, FS_Interval
<1>3. ASSUME NEW s \in SUBSET DOMAIN q, s # {} PROVE Max(s) \in s /\ \A i \in s : i <= Max(s)
  BY <1>1, <1>3, Greatest
<1>4. ASSUME NEW n \in 1 .. Len(q)
      PROVE  /\ 1 .. n \in SUBSET DOMAIN q /\ 1 .. n # {}
             /\ Max(1 .. n) = n /\ (1 .. n) \ {n} = 1 .. n - 1
  <2>1. 1 .. n \in SUBSET DOMAIN q /\ n \in 1 .. n /\ (1 .. n) \ {n} = 1 .. n - 1
    BY <1>1
  <2>2. Max(1 .. n) \in 1 .. n /\ \A i \in 1 .. n : i <= Max(1 .. n)
    BY <2>1, <1>3
  <2>3. Max(1 .. n) = n
    BY <2>1, <2>2
  <2>4. QED
    BY <2>1, <2>3
<1>5. QED
  BY <1>1, <1>2, <1>3, <1>4

FoldsUp(h, q, V, base, step) ==
  /\ h \in [SUBSET DOMAIN q -> V]
  /\ \A s \in SUBSET DOMAIN q :
       h[s] = IF s = {} THEN base ELSE step[Max(s)][h[s \ {Max(s)}]]

\* It is defined.
LEMMA FoldExists ==
  ASSUME NEW T, NEW q \in Seq(T), NEW V, NEW base, base \in V,
         NEW step, Steps(step, DOMAIN q, V)
  PROVE  \E h : FoldsUp(h, q, V, base, step)
<1> DEFINE D == DOMAIN q
           pick == [s \in SUBSET D |-> Max(s)]
<1>1. IsFiniteSet(D) /\ Picks(pick, D) /\ Steps(step, D, V)
  BY PrefixLemma DEF Picks
<1>2. PICK h : Recurses(h, D, V, base, pick, step)
  <2> HIDE DEF D, pick
  <2>1. QED
    BY <1>1, Recursion
<1>3. \A s \in SUBSET D : pick[s] = Max(s)
  OBVIOUS
<1>4. QED
  <2> HIDE DEF pick
  <2>1. ASSUME NEW s \in SUBSET D
        PROVE  h[s] = IF s = {} THEN base ELSE step[Max(s)][h[s \ {Max(s)}]]
    BY <1>2, <1>3 DEF Recurses
  <2>2. h \in [SUBSET D -> V]
    BY <1>2 DEF Recurses
  <2>3. QED
    BY <2>1, <2>2 DEF FoldsUp

\* A filter looks at its elements one after the other.
LEMMA SiftedEquation ==
  ASSUME NEW T, NEW q \in Seq(T), NEW gone
  PROVE  \E g : /\ Sifted(q, gone) = g[Len(q)]
                /\ g[0] = <<>>
                /\ \A n \in 1 .. Len(q) :
                     g[n] = IF q[n] \in gone THEN g[n - 1] ELSE Append(g[n - 1], q[n])
<1> DEFINE D == DOMAIN q
           Rec(h) == [s \in SUBSET D |->
                        IF s = {} THEN <<>>
                        ELSE LET x == Max(s)
                             IN  IF q[x] \in gone THEN h[s \ {x}] ELSE Append(h[s \ {x}], q[x])]
           iter == CHOOSE h : h = Rec(h)
           step == [x \in D |-> [v \in Seq(T) |-> IF q[x] \in gone THEN v ELSE Append(v, q[x])]]
<1>1. Sifted(q, gone) = iter[D]
  BY Zenon DEF Sifted, FoldLeft, MapThenFoldSet
<1>2. /\ D = 1 .. Len(q) /\ Len(q) \in Nat
      /\ \A s \in SUBSET D : s # {} => Max(s) \in s
      /\ \A n \in 1 .. Len(q) : /\ 1 .. n \in SUBSET D /\ 1 .. n # {}
                                /\ Max(1 .. n) = n /\ (1 .. n) \ {n} = 1 .. n - 1
  BY PrefixLemma
<1>3. \E h : h = Rec(h)
  <2>1. <<>> \in Seq(T)
    OBVIOUS
  <2>2. Steps(step, D, Seq(T))
    BY <1>2 DEF Steps
  <2>3. PICK h \in [SUBSET D -> Seq(T)] :
          \A s \in SUBSET D : h[s] = IF s = {} THEN <<>> ELSE step[Max(s)][h[s \ {Max(s)}]]
    <3> HIDE DEF step
    <3>1. \E h : FoldsUp(h, q, Seq(T), <<>>, step)
      BY <2>1, <2>2, FoldExists
    <3>2. QED
      BY <3>1 DEF FoldsUp
  <2>4. ASSUME NEW s \in SUBSET D
        PROVE  h[s] = IF s = {} THEN <<>>
                      ELSE LET x == Max(s)
                           IN  IF q[x] \in gone THEN h[s \ {x}] ELSE Append(h[s \ {x}], q[x])
    <3>1. CASE s = {}
      BY <3>1, <2>3
    <3>2. CASE s # {}
      <4>1. Max(s) \in D /\ h[s \ {Max(s)}] \in Seq(T)
        BY <3>2, <1>2
      <4>2. h[s] = step[Max(s)][h[s \ {Max(s)}]]
        BY <2>3, <3>2
      <4>3. QED
        BY <4>1, <4>2, <3>2
    <3>3. QED
      BY <3>1, <3>2
  <2>5. h = Rec(h)
    BY <2>4
  <2>6. QED
    BY <2>5
<1>4. iter = Rec(iter)
  <2> HIDE DEF Rec
  <2>1. QED
    BY <1>3
<1> DEFINE g == [n \in 0 .. Len(q) |-> iter[1 .. n]]
<1>5. g[Len(q)] = iter[D]
  BY <1>2
<1>6. g[0] = <<>>
  <2>1. 1 .. 0 = {} /\ 0 \in 0 .. Len(q)
    BY <1>2
  <2>2. iter[{}] = <<>>
    <3> HIDE DEF iter
    <3>1. QED
      BY <1>4
  <2>3. QED
    BY <2>1, <2>2
<1>7. ASSUME NEW n \in 1 .. Len(q)
      PROVE  g[n] = IF q[n] \in gone THEN g[n - 1] ELSE Append(g[n - 1], q[n])
  <2> HIDE DEF iter
  <2>1. iter[1 .. n] = IF q[n] \in gone THEN iter[1 .. n - 1] ELSE Append(iter[1 .. n - 1], q[n])
    <3>1. iter[1 .. n] =
            IF 1 .. n = {} THEN <<>>
            ELSE LET x == Max(1 .. n)
                 IN  IF q[x] \in gone THEN iter[(1 .. n) \ {x}]
                     ELSE Append(iter[(1 .. n) \ {x}], q[x])
      BY <1>4, <1>2
    <3>2. QED
      BY <3>1, <1>2
  <2>2. n \in 0 .. Len(q) /\ n - 1 \in 0 .. Len(q)
    BY <1>2
  <2>3. g[n] = iter[1 .. n] /\ g[n - 1] = iter[1 .. n - 1]
    BY <2>2
  <2>4. QED
    <3> HIDE DEF g
    <3>1. QED
      BY <2>1, <2>3
<1>8. QED
  BY <1>1, <1>5, <1>6, <1>7

\* An entry more.
LEMMA EntriesOfAppend ==
  ASSUME NEW T, NEW q \in Seq(T), NEW e \in T
  PROVE  Append(q, e) \in Seq(T) /\ ToSet(Append(q, e)) = ToSet(q) \cup {e}
<1>1. /\ Append(q, e) \in Seq(T) /\ Len(q) \in Nat
      /\ Len(Append(q, e)) = Len(q) + 1
      /\ \A i \in 1 .. Len(q) : Append(q, e)[i] = q[i]
      /\ Append(q, e)[Len(q) + 1] = e
  BY AppendProperties, LenProperties
<1>2. DOMAIN q = 1 .. Len(q) /\ DOMAIN Append(q, e) = 1 .. Len(q) + 1
  BY <1>1, LenProperties
<1>3. ToSet(q) = {q[i] : i \in 1 .. Len(q)}
  BY <1>2 DEF ToSet
<1>4. ToSet(Append(q, e)) = {Append(q, e)[i] : i \in 1 .. Len(q) + 1}
  BY <1>2 DEF ToSet
<1>5. \A i \in 1 .. Len(q) + 1 : i \in 1 .. Len(q) \/ i = Len(q) + 1
  BY <1>1
<1>6. QED
  BY <1>1, <1>3, <1>4, <1>5

\* A filter holds what it is to hold.
LEMMA SiftedHolds ==
  ASSUME NEW T, NEW q \in Seq(T), NEW gone
  PROVE  /\ Sifted(q, gone) \in Seq(T)
         /\ ToSet(Sifted(q, gone)) = ToSet(q) \ gone
         /\ \A n \in 0 .. Len(q) :
              /\ \A i \in 1 .. n : q[i] \notin gone
              /\ \A i \in n + 1 .. Len(q) : q[i] \in gone
              => Sifted(q, gone) = SubSeq(q, 1, n)
<1>0. Len(q) \in Nat /\ DOMAIN q = 1 .. Len(q) /\ \A i \in 1 .. Len(q) : q[i] \in T
  BY LenProperties, ElementOfSeq
<1>1. PICK g : /\ Sifted(q, gone) = g[Len(q)]
               /\ g[0] = <<>>
               /\ \A n \in 1 .. Len(q) :
                    g[n] = IF q[n] \in gone THEN g[n - 1] ELSE Append(g[n - 1], q[n])
  BY SiftedEquation
<1> DEFINE R == {n \in 0 .. Len(q) : /\ g[n] \in Seq(T)
                                     /\ ToSet(g[n]) = {q[i] : i \in 1 .. n} \ gone}
<1>2. Len(q) \in R
  <2>1. 0 \in R
    <3>1. <<>> \in Seq(T) /\ ToSet(<<>>) = {}
      BY DEF ToSet
    <3>2. {q[i] : i \in 1 .. 0} = {}
      OBVIOUS
    <3>3. g[0] = <<>> /\ ToSet(g[0]) = {q[i] : i \in 1 .. 0} \ gone
      BY <1>1, <3>1, <3>2
    <3>4. 0 \in 0 .. Len(q)
      BY <1>0
    <3>5. QED
      BY <3>1, <3>3, <3>4
  <2>2. ASSUME NEW n \in 1 .. Len(q), n - 1 \in R PROVE n \in R
    <3>1. {q[i] : i \in 1 .. n} = {q[i] : i \in 1 .. n - 1} \cup {q[n]}
      BY <1>0
    <3>2. CASE q[n] \in gone
      BY <1>1, <2>2, <3>1, <3>2
    <3>3. CASE q[n] \notin gone
      <4>1. g[n] = Append(g[n - 1], q[n]) /\ g[n - 1] \in Seq(T) /\ q[n] \in T
        BY <1>0, <1>1, <2>2, <3>3
      <4>2. ToSet(Append(g[n - 1], q[n])) = ToSet(g[n - 1]) \cup {q[n]}
        BY <4>1, EntriesOfAppend
      <4>3. QED
        <5>1. ToSet(g[n]) = (ToSet(g[n - 1]) \cup {q[n]}) /\ g[n] \in Seq(T)
          BY <4>1, <4>2
        <5>2. ToSet(g[n - 1]) = {q[i] : i \in 1 .. n - 1} \ gone
          BY <2>2
        <5>3. QED
          BY <5>1, <5>2, <3>1, <3>3
    <3>4. QED
      BY <3>2, <3>3
  <2>3. QED
    <3> HIDE DEF R
    <3>1. 0 .. Len(q) \subseteq R
      BY <2>1, <2>2, <1>0, InductionTo
    <3>2. QED
      BY <3>1, <1>0
<1>3. ASSUME NEW n \in 0 .. Len(q),
             \A i \in 1 .. n : q[i] \notin gone,
             \A i \in n + 1 .. Len(q) : q[i] \in gone
      PROVE  Sifted(q, gone) = SubSeq(q, 1, n)
  <2> DEFINE P == {m \in 0 .. Len(q) : g[m] = SubSeq(q, 1, IF m <= n THEN m ELSE n)}
  <2>1. 0 \in P
    <3>1. SubSeq(q, 1, 0) = <<>>
      BY SubSeqEmpty
    <3>2. 0 \in 0 .. Len(q) /\ g[0] = SubSeq(q, 1, IF 0 <= n THEN 0 ELSE n)
      BY <1>0, <1>1, <3>1
    <3>3. QED
      BY <3>2
  <2>2. ASSUME NEW m \in 1 .. Len(q), m - 1 \in P PROVE m \in P
    <3>1. CASE m <= n
      <4>1. g[m] = Append(SubSeq(q, 1, m - 1), q[m])
        <5>1. q[m] \notin gone /\ g[m] = Append(g[m - 1], q[m])
          <6>1. q[m] \notin gone
            BY <1>3, <3>1
          <6>2. QED
            BY <6>1, <1>1
        <5>2. g[m - 1] = SubSeq(q, 1, m - 1)
          BY <2>2, <3>1
        <5>3. QED
          BY <5>1, <5>2
      <4>2. SubSeq(q, 1, m) = Append(SubSeq(q, 1, m - 1), q[m])
        BY <1>0
      <4>3. QED
        BY <4>1, <4>2, <3>1
    <3>2. CASE m > n
      <4>1. g[m] = g[m - 1] /\ (m - 1 <= n => m - 1 = n)
        BY <1>0, <1>1, <1>3, <3>2
      <4>2. QED
        BY <4>1, <2>2, <3>2
    <3>3. QED
      BY <3>1, <3>2
  <2>3. Len(q) \in P
    <3> HIDE DEF P
    <3>1. 0 .. Len(q) \subseteq P
      BY <2>1, <2>2, <1>0, InductionTo
    <3>2. QED
      BY <3>1, <1>0
  <2>4. QED
    BY <2>3, <1>1, <1>0
<1>4. QED
  <2>1. ToSet(q) = {q[i] : i \in 1 .. Len(q)}
    BY <1>0 DEF ToSet
  <2>2. QED
    BY <1>1, <1>2, <1>3, <2>1

One(b) == IF b THEN 1 ELSE 0

\* One element of a set.
Picked(s) == CHOOSE x \in s : TRUE

\* Induction over the subsets of a finite set, one element at a time.
LEMMA SubsetInduction ==
  ASSUME NEW D, IsFiniteSet(D), NEW T, {} \in T,
         \A s \in SUBSET D : s # {} /\ s \ {Picked(s)} \in T => s \in T
  PROVE  SUBSET D \subseteq T
<1> SUFFICES ASSUME NEW s0 \in SUBSET D, s0 \notin T PROVE FALSE
  OBVIOUS
<1> DEFINE W == {s \in SUBSET D : s \notin T}
<1>1. W \subseteq FiniteSubsetsOf(D) /\ W # {}
  <2>1. ASSUME NEW s \in SUBSET D PROVE IsFiniteSet(s)
    BY FS_Subset
  <2>2. QED
    BY <2>1 DEF FiniteSubsetsOf
<1>2. PICK X \in W : \A Y \in W : Y \subseteq X => Y = X
  <2> HIDE DEF W
  <2>1. QED
    BY <1>1, SmallestSet
<1>3. X # {} /\ Picked(X) \in X
  BY <1>2 DEF Picked
<1>4. X \ {Picked(X)} \notin T
  BY <1>2, <1>3
<1>5. X \ {Picked(X)} \in W
  BY <1>2, <1>4
<1>6. QED
  BY <1>2, <1>3, <1>5

\* A sum takes the elements one after the other.
Total(f, s) == MapThenSumSet(LAMBDA d : f[d], s)

\* A total is that of all but one, and the one's value.
LEMMA TotalEquation ==
  ASSUME NEW D, IsFiniteSet(D), NEW f \in [D -> Nat]
  PROVE  /\ Total(f, {}) = 0
         /\ \A s \in SUBSET D :
              /\ Total(f, s) \in Nat
              /\ s # {} => Total(f, s) = f[Picked(s)] + Total(f, s \ {Picked(s)})
<1> DEFINE pick == [s \in SUBSET D |-> Picked(s)]
           step == [x \in D |-> [v \in Nat |-> f[x] + v]]
           Rec(S, h) == [s \in SUBSET S |->
                           IF s = {} THEN 0
                           ELSE LET x == CHOOSE x \in s : TRUE IN f[x] + h[s \ {x}]]
           iter(S) == CHOOSE h : h = Rec(S, h)
<1>1. PICK sum : Recurses(sum, D, Nat, 0, pick, step)
  <2>1. Picks(pick, D) /\ Steps(step, D, Nat)
    BY DEF Picks, Steps, Picked
  <2> HIDE DEF pick, step
  <2>2. QED
    BY <2>1, Recursion
<1>2. /\ sum \in [SUBSET D -> Nat] /\ sum[{}] = 0
      /\ \A s \in SUBSET D : s # {} => sum[s] = f[Picked(s)] + sum[s \ {Picked(s)}]
  <2>1. sum \in [SUBSET D -> Nat]
    BY <1>1 DEF Recurses
  <2>2. \A s \in SUBSET D : sum[s] = IF s = {} THEN 0 ELSE step[Picked(s)][sum[s \ {Picked(s)}]]
    BY <1>1 DEF Recurses
  <2>3. ASSUME NEW s \in SUBSET D, s # {}
        PROVE  Picked(s) \in D /\ s \ {Picked(s)} \in SUBSET D
    BY <2>3 DEF Picked
  <2>4. ASSUME NEW s \in SUBSET D, s # {}
        PROVE  sum[s] = f[Picked(s)] + sum[s \ {Picked(s)}]
    BY <2>1, <2>2, <2>3, <2>4
  <2>5. QED
    BY <2>1, <2>2, <2>4
<1>3. ASSUME NEW S \in SUBSET D PROVE Total(f, S) = sum[S]
  <2>1. Total(f, S) = iter(S)[S]
    BY Zenon DEF Total, MapThenSumSet, MapThenFoldSet
  <2>2. \E h : h = Rec(S, h)
    <3> DEFINE h == [s \in SUBSET S |-> sum[s]]
    <3>1. ASSUME NEW s \in SUBSET S
          PROVE  h[s] = IF s = {} THEN 0
                        ELSE LET x == CHOOSE x \in s : TRUE IN f[x] + h[s \ {x}]
      <4>1. CASE s = {}
        BY <4>1, <1>2
      <4>2. CASE s # {}
        <5>1. s \ {Picked(s)} \in SUBSET S /\ s \in SUBSET D
          OBVIOUS
        <5>2. h[s] = f[Picked(s)] + h[s \ {Picked(s)}]
          BY <4>2, <5>1, <1>2
        <5>3. QED
          BY <4>2, <5>2 DEF Picked
      <4>3. QED
        BY <4>1, <4>2
    <3>2. h = Rec(S, h)
      <4>1. h = [s \in SUBSET S |-> h[s]]
        OBVIOUS
      <4> HIDE DEF h
      <4>2. QED
        BY <4>1, <3>1
    <3>3. QED
      BY <3>2
  <2>3. iter(S) = Rec(S, iter(S))
    <3> HIDE DEF Rec
    <3>1. QED
      BY <2>2
  <2> DEFINE T == {s \in SUBSET S : iter(S)[s] = sum[s]}
  <2> HIDE DEF iter
  <2>4. {} \in T
    <3>1. iter(S)[{}] = 0
      BY <2>3
    <3>2. QED
      BY <3>1, <1>2
  <2>5. ASSUME NEW s \in SUBSET S, s # {}, s \ {Picked(s)} \in T PROVE s \in T
    <3>1. iter(S)[s] = f[Picked(s)] + iter(S)[s \ {Picked(s)}]
      <4>1. iter(S)[s] = Rec(S, iter(S))[s]
        BY <2>3
      <4>2. Rec(S, iter(S))[s] = f[Picked(s)] + iter(S)[s \ {Picked(s)}]
        BY <2>5 DEF Picked
      <4>3. QED
        BY <4>1, <4>2
    <3>2. s \in SUBSET D
      OBVIOUS
    <3>3. QED
      BY <3>1, <3>2, <2>5, <1>2
  <2>6. SUBSET S \subseteq T
    <3>1. IsFiniteSet(S)
      BY FS_Subset
    <3> HIDE DEF T
    <3>2. QED
      BY <3>1, <2>4, <2>5, SubsetInduction
  <2>7. QED
    BY <2>1, <2>6
<1>4. ASSUME NEW s \in SUBSET D PROVE s \ {Picked(s)} \in SUBSET D
  OBVIOUS
<1>5. QED
  BY <1>2, <1>3, <1>4

\* One more on a day adds one to the sums over the sets that have that day.
LEMMA TotalOfOneMore ==
  ASSUME NEW D, IsFiniteSet(D), NEW f \in [D -> Nat], NEW d \in D, NEW s \in SUBSET D
  PROVE  Total([f EXCEPT ![d] = @ + 1], s) = Total(f, s) + One(d \in s)
<1> DEFINE g == [f EXCEPT ![d] = @ + 1]
           T == {r \in SUBSET D : Total(g, r) = Total(f, r) + One(d \in r)}
<1>1. g \in [D -> Nat] /\ \A x \in D : g[x] = f[x] + One(x = d)
  BY DEF One
<1>2. /\ Total(f, {}) = 0 /\ Total(g, {}) = 0
      /\ \A r \in SUBSET D :
           /\ Total(f, r) \in Nat /\ Total(g, r) \in Nat
           /\ r # {} => /\ Total(f, r) = f[Picked(r)] + Total(f, r \ {Picked(r)})
                        /\ Total(g, r) = g[Picked(r)] + Total(g, r \ {Picked(r)})
  <2>1. /\ Total(f, {}) = 0
        /\ \A r \in SUBSET D :
             /\ Total(f, r) \in Nat
             /\ r # {} => Total(f, r) = f[Picked(r)] + Total(f, r \ {Picked(r)})
    BY TotalEquation
  <2> HIDE DEF g
  <2>2. /\ Total(g, {}) = 0
        /\ \A r \in SUBSET D :
             /\ Total(g, r) \in Nat
             /\ r # {} => Total(g, r) = g[Picked(r)] + Total(g, r \ {Picked(r)})
    BY <1>1, TotalEquation
  <2>3. QED
    BY <2>1, <2>2
<1>3. {} \in T
  BY <1>2 DEF One
<1>4. ASSUME NEW r \in SUBSET D, r # {}, r \ {Picked(r)} \in T PROVE r \in T
  <2> DEFINE x == Picked(r)
             q == r \ {x}
  <2>1. x \in r /\ x \in D
    BY <1>4 DEF Picked
  <2>2. /\ Total(f, r) = f[x] + Total(f, q) /\ Total(g, r) = g[x] + Total(g, q)
        /\ Total(g, q) = Total(f, q) + One(d \in q) /\ Total(f, q) \in Nat
        /\ f[x] \in Nat /\ g[x] = f[x] + One(x = d)
    BY <1>1, <1>2, <1>4, <2>1
  <2>3. One(d \in r) = One(x = d) + One(d \in q)
    BY <2>1 DEF One
  <2>4. One(x = d) \in Nat /\ One(d \in q) \in Nat
    BY DEF One
  <2>5. Total(g, r) = Total(f, r) + One(d \in r)
    <3> HIDE DEF g, x, q
    <3>1. QED
      BY <2>2, <2>3, <2>4
  <2>6. QED
    BY <2>5
<1>5. SUBSET D \subseteq T
  <2> HIDE DEF T
  <2>1. QED
    BY <1>3, <1>4, SubsetInduction
<1>6. QED
  BY <1>5

\* Of nothing it is zero.
LEMMA TotalOfNone ==
  ASSUME NEW D, IsFiniteSet(D), NEW f \in [D -> Nat], \A d \in D : f[d] = 0, NEW s \in SUBSET D
  PROVE  Total(f, s) = 0
<1> DEFINE T == {r \in SUBSET D : Total(f, r) = 0}
<1>1. {} \in T
  BY TotalEquation
<1>2. ASSUME NEW r \in SUBSET D, r # {}, r \ {Picked(r)} \in T PROVE r \in T
  <2>1. Picked(r) \in D
    BY <1>2 DEF Picked
  <2>2. Total(f, r) = f[Picked(r)] + Total(f, r \ {Picked(r)})
    BY <1>2, TotalEquation
  <2>3. QED
    BY <2>1, <2>2, <1>2
<1>3. SUBSET D \subseteq T
  <2> HIDE DEF T
  <2>1. QED
    BY <1>1, <1>2, SubsetInduction
<1>4. QED
  BY <1>3

-----------------------------------------------------------------------------
(* A store file: any contents and any number of writes, loads, failures,     *)
(* exits and power losses.                                                   *)

Dirs == [Names -> Contents]
Recent == {Copies(d) : d \in behind}

\* Nothing damaged stands before a backup that decodes: a rename promotes
\* synced contents only, so the primary is damaged only if it was found so.
Sound(d) == d["path"] \in {Empty, Corrupt} => ~ Usable(d, "bak")

\* Every directory a power loss may bring back is one a load understands.
DirInv == dir \in behind /\ \A d \in behind : d \in Dirs /\ Sound(d)

\* What each stage of a write or a load may rely on.
WriteInv ==
  /\ fpc \in {"clear", "create", "fill", "keep", "promote"} => goal \in Values
  /\ fpc \in {"keep", "promote"} =>
       dir["tmp"] = goal /\ \A s \in Recent : s.now = Held(dir)
  /\ fpc = "keep" /\ existed => dir["path"] # Absent
  /\ fpc = "promote" /\ existed => dir["path"] = Absent
  /\ fpc = "putBack" => dir["path"] = Absent

\* A load goes on beside a copy that decodes only if it could not read it.
LoadInv ==
  /\ misread \in BOOLEAN
  /\ fpc = "tidy" => misread \/ Usable(dir, "path") \/ ~ Usable(dir, "bak")
  /\ fpc \in {"backup", "dropPath", "promoteBak", "quarantine"} => misread \/ ~ Usable(dir, "path")
  /\ fpc \in {"dropPath", "promoteBak"} => Usable(dir, "bak")
  /\ fpc = "quarantine" => misread \/ ~ Usable(dir, "bak")

FileInv == DirInv /\ WriteInv /\ LoadInv

-----------------------------------------------------------------------------
(* Directory operations. *)

\* What a rename and an unlink do to each name.
LEMMA DirOps ==
  ASSUME dir \in Dirs, NEW a \in Names, NEW b \in Names, a # b
  PROVE  /\ Renamed(a, b) \in Dirs /\ Without(a) \in Dirs
         /\ Renamed(a, b)[b] = dir[a] /\ Renamed(a, b)[a] = Absent
         /\ \A n \in Names \ {a, b} : Renamed(a, b)[n] = dir[n]
         /\ Without(a)[a] = Absent /\ \A n \in Names \ {a} : Without(a)[n] = dir[n]
  BY DEF Dirs, Renamed, Without, Contents

\* No name is absent and usable.
LEMMA AbsentIsNotUsable ==
  ASSUME NEW d, NEW n, d[n] \in {Absent, Empty, Corrupt}
  PROVE  ~ Usable(d, n)
  BY KindsAssumption DEF Usable

\* What the cell's user sees stays.
Unseen == UNCHANGED <<Copies(dir), answer, misread>> /\ Recent' = Recent

\* The disk goes on to another directory; what the store shows of it.
LEMMA DoesMoves ==
  ASSUME DirInv, NEW d \in Dirs, NEW next, Sound(d), Does(d, next)
  PROVE  /\ DirInv' /\ dir' = d /\ fpc' = next
         /\ Copies(dir)' = Copies(d) /\ Recent' = Recent \cup {Copies(d)}
         /\ Copies(dir) \in Recent
<1>1. dir' = d /\ behind' = behind \cup {d} /\ fpc' = next
  BY DEF Does
<1>2. Copies(dir)' = Copies(d) /\ Copies(dir) \in Recent
  BY <1>1 DEF Copies, Held, Backup, Usable, DirInv, Recent
<1>3. Recent' = Recent \cup {Copies(d)}
  BY <1>1 DEF Recent, Copies, Held, Backup, Usable
<1>4. DirInv'
  BY <1>1 DEF DirInv, Sound, Usable
<1> QED
  BY <1>1, <1>2, <1>3, <1>4

\* A step that leaves both copies as they are goes unseen.
LEMMA QuietDoes ==
  ASSUME DirInv, NEW d \in Dirs, NEW next, Sound(d), Does(d, next), Copies(d) = Copies(dir)
  PROVE  /\ DirInv' /\ dir' = d /\ fpc' = next
         /\ Copies(dir)' = Copies(dir) /\ Recent' = Recent
  BY DoesMoves

\* A step that keeps what the store holds keeps it, or not, as a backup too.
LEMMA KeepDoes ==
  ASSUME DirInv, NEW d \in Dirs, NEW next, Sound(d), Does(d, next),
         Held(d) = Held(dir), Backup(d) \in {Held(dir), Missing}, UNCHANGED <<answer, misread>>
  PROVE  DirInv' /\ dir' = d /\ fpc' = next /\ Cell!Keep
<1>1. Copies(d) = [Copies(dir) EXCEPT !.before = Backup(d)] /\ Copies(dir).now = Held(dir)
  BY DEF Copies
<1> QED
  BY <1>1, DoesMoves DEF Cell!Keep, Recent

\* A load that could not read a copy may put another in its place.
LEMMA LoseDoes ==
  ASSUME DirInv, NEW d \in Dirs, NEW next, Sound(d), Does(d, next),
         Held(d) \in {Held(dir), Backup(dir), Missing}, Backup(d) \in {Backup(dir), Missing},
         misread', UNCHANGED answer
  PROVE  DirInv' /\ dir' = d /\ fpc' = next /\ Cell!Lose
<1>1. Copies(d) \in [now : {Copies(dir).now, Copies(dir).before, Missing},
                     before : {Copies(dir).before, Missing}]
  BY DEF Copies
<1> QED
  BY <1>1, DoesMoves DEF Cell!Lose, Recent

\* Going on without touching a file changes nothing a load could find.
LEMMA QuietSkips ==
  ASSUME DirInv, NEW next, Skips(next)
  PROVE  /\ DirInv' /\ Copies(dir)' = Copies(dir) /\ Recent' = Recent
         /\ dir' = dir /\ fpc' = next /\ Held(dir)' = Held(dir)
  BY DEF Skips, DirInv, Copies, Held, Backup, Usable, Recent, Sound

\* A call begins, or one is passed over: no copy changes.
LEMMA UnreadStep ==
  ASSUME Copies(dir)' = Copies(dir), Recent' = Recent, answer' = answer, misread' \in BOOLEAN
  PROVE  Cell!Unread
  BY DEF Cell!Unread, Recent

-----------------------------------------------------------------------------
(* The steps of a write. *)

\* Up to the replace a write touches its temporary file only.
LEMMA WriteSteps ==
  ASSUME FileInv, (\E v \in Values : Write(v)) \/ ClearTmp \/ CreateTmp \/ DropTmp
  PROVE  FileInv' /\ (Cell!Unread \/ Unseen)
<1> USE DEF FileInv
<1> dir \in Dirs /\ Sound(dir)
  BY DEF DirInv
<1>1. ASSUME NEW v \in Values, Write(v) PROVE FileInv' /\ Cell!Unread
  <2>1. misread' = FALSE /\ goal' = v /\ Skips("clear") /\ UNCHANGED <<existed, answer>>
    BY <1>1 DEF Write
  <2>2. DirInv' /\ fpc' = "clear"
    BY <2>1, QuietSkips
  <2>3. WriteInv' /\ LoadInv'
    BY <2>1, <2>2 DEF WriteInv, LoadInv
  <2> QED
    BY <2>1, <2>2, <2>3, QuietSkips, UnreadStep
<1>2. ASSUME NEW next \in {"idle", "create"}, Unlink("tmp", next), UNCHANGED <<goal, existed, answer, misread>>,
             next = "create" => goal \in Values
      PROVE  FileInv' /\ Unseen
  <2> DEFINE d == IF dir["tmp"] = Absent THEN dir ELSE Without("tmp")
  <2>1. d \in Dirs /\ d["path"] = dir["path"] /\ d["bak"] = dir["bak"]
    BY DirOps DEF Names
  <2>2. Sound(d) /\ Copies(d) = Copies(dir)
    BY <2>1 DEF Sound, Copies, Held, Backup, Usable
  <2>3. Does(d, next)
    BY <1>2 DEF Unlink
  <2> HIDE DEF d
  <2> QED
    BY <1>2, <2>1, <2>2, <2>3, QuietDoes DEF WriteInv, LoadInv, Unseen
<1>3. ASSUME NEW next \in {"idle", "create"}, Skips(next), UNCHANGED <<goal, existed, answer, misread>>,
             next = "create" => goal \in Values
      PROVE  FileInv' /\ Unseen
  BY <1>3, QuietSkips DEF WriteInv, LoadInv, Unseen
<1>4. CASE ClearTmp
  BY <1>4, <1>2, <1>3 DEF ClearTmp, WriteInv
<1>5. CASE CreateTmp
  <2> DEFINE d == [dir EXCEPT !["tmp"] = Empty]
  <2>1. d \in Dirs /\ d["path"] = dir["path"] /\ d["bak"] = dir["bak"]
    BY DEF Dirs, Names, Contents
  <2>2. Sound(d) /\ Copies(d) = Copies(dir)
    BY <2>1 DEF Sound, Copies, Held, Backup, Usable
  <2>3. CASE Does(d, "fill")
    <3> HIDE DEF d
    <3> QED
      BY <1>5, <2>1, <2>2, <2>3, QuietDoes DEF CreateTmp, WriteInv, LoadInv, Unseen
  <2> QED
    BY <1>5, <1>3, <2>3 DEF CreateTmp
<1>6. CASE DropTmp
  BY <1>6, <1>2, <1>3 DEF DropTmp
<1> QED
  BY <1>1, <1>4, <1>5, <1>6

\* While a write replaces the file, all that the disk may hold has its value.
LEMMA KeepsNow ==
  ASSUME FileInv, fpc = "keep", NEW d \in Dirs, NEW next, Sound(d), Does(d, next),
         Held(d) = Held(dir)
  PROVE  (\A s \in Recent : s.now = Held(dir))'
<1>1. Recent' = Recent \cup {Copies(d)} /\ dir' = d
  BY DoesMoves DEF FileInv
<1>2. Held(dir)' = Held(d) /\ Copies(d).now = Held(d)
  BY <1>1 DEF Held, Backup, Usable, Copies
<1> QED
  BY <1>1, <1>2 DEF FileInv, WriteInv

\* Moving the old file aside keeps its contents: what is unlinked first is a
\* backup that no load would have used.
LEMMA KeepOldStep ==
  ASSUME FileInv, KeepOld
  PROVE  FileInv' /\ (Cell!Keep \/ Unseen)
<1> USE DEF FileInv
<1> dir \in Dirs /\ Sound(dir) /\ fpc = "keep" /\ UNCHANGED <<goal, existed, answer, misread>>
  BY DEF DirInv, KeepOld
<1>1. CASE Skips("idle")
  BY <1>1, QuietSkips DEF WriteInv, LoadInv, Unseen
<1>2. CASE ~ existed /\ Skips("promote")
  BY <1>2, QuietSkips DEF WriteInv, LoadInv, Unseen
<1>3. CASE existed /\ dir["bak"] # Absent /\ Unlink("bak", "keep")
  <2> DEFINE d == Without("bak")
  <2>1. d \in Dirs /\ d["path"] = dir["path"] /\ d["tmp"] = dir["tmp"] /\ d["bak"] = Absent
    BY DirOps DEF Names
  <2>2. dir["path"] \in Values \/ ~ Usable(dir, "bak")
    BY <1>3 DEF WriteInv, Sound, Dirs, Names, Contents
  <2>3. Sound(d) /\ Held(d) = Held(dir) /\ Backup(d) = Missing
    BY <2>1, <2>2, KindsAssumption DEF Sound, Held, Backup, Usable
  <2>4. Does(d, "keep")
    BY <1>3 DEF Unlink
  <2> HIDE DEF d
  <2>5. (\A s \in Recent : s.now = Held(dir))'
    BY <2>1, <2>3, <2>4, KeepsNow
  <2> QED
    BY <1>3, <2>1, <2>3, <2>4, <2>5, KeepDoes DEF WriteInv, LoadInv
<1>4. CASE existed /\ Does(Renamed("path", "bak"), "promote")
  <2> DEFINE d == Renamed("path", "bak")
  <2>1. d \in Dirs /\ d["path"] = Absent /\ d["tmp"] = dir["tmp"] /\ d["bak"] = dir["path"]
    BY DirOps DEF Names
  <2>2. dir["path"] \in Values \/ ~ Usable(dir, "bak")
    BY <1>4 DEF WriteInv, Sound, Dirs, Names, Contents
  <2>3. Sound(d) /\ Held(d) = Held(dir) /\ Backup(d) \in {Held(dir), Missing}
    BY <2>1, <2>2, KindsAssumption DEF Sound, Held, Backup, Usable
  <2>4. Does(d, "promote")
    BY <1>4
  <2> HIDE DEF d
  <2>5. (\A s \in Recent : s.now = Held(dir))'
    BY <2>1, <2>3, <2>4, KeepsNow
  <2> QED
    BY <2>1, <2>3, <2>4, <2>5, KeepDoes DEF WriteInv, LoadInv
<1> QED
  BY <1>1, <1>2, <1>3, <1>4 DEF KeepOld

\* Putting the old file back restores what the store had.
LEMMA PutBackStep ==
  ASSUME FileInv, PutBack
  PROVE  FileInv' /\ (Cell!Keep \/ Unseen)
<1> USE DEF FileInv
<1> dir \in Dirs /\ Sound(dir) /\ dir["path"] = Absent /\ UNCHANGED <<goal, existed, answer, misread>>
  BY DEF DirInv, PutBack, WriteInv
<1>1. CASE Skips("dropTmp")
  BY <1>1, QuietSkips DEF WriteInv, LoadInv, Unseen
<1>2. CASE Does(Renamed("bak", "path"), "dropTmp")
  <2> DEFINE d == Renamed("bak", "path")
  <2>1. d \in Dirs /\ d["path"] = dir["bak"] /\ d["bak"] = Absent
    BY DirOps DEF Names
  <2>2. Sound(d) /\ Held(d) = Held(dir) /\ Backup(d) = Missing
    BY <2>1, KindsAssumption DEF Sound, Held, Backup, Usable
  <2>3. Does(d, "dropTmp")
    BY <1>2
  <2> HIDE DEF d
  <2> QED
    BY <2>1, <2>2, <2>3, KeepDoes DEF WriteInv, LoadInv
<1> QED
  BY <1>1, <1>2 DEF PutBack

\* A backup is dropped beside a primary that decodes, or if it does not itself;
\* or by a load that could not read it.
LEMMA TidyStep ==
  ASSUME FileInv, Tidy
  PROVE  FileInv' /\ (Cell!Keep \/ Cell!Lose \/ Unseen)
<1> USE DEF FileInv
<1> dir \in Dirs /\ Sound(dir) /\ fpc = "tidy" /\ UNCHANGED <<goal, existed, answer, misread>>
  BY DEF DirInv, Tidy
<1>1. CASE Skips("idle")
  BY <1>1, QuietSkips DEF WriteInv, LoadInv, Unseen
<1>2. CASE Unlink("bak", "idle")
  <2> DEFINE d == IF dir["bak"] = Absent THEN dir ELSE Without("bak")
  <2>1. d \in Dirs /\ d["path"] = dir["path"] /\ d["bak"] = Absent
    BY DirOps DEF Names
  <2>2. Sound(d) /\ Backup(d) = Missing /\ Held(d) \in {Held(dir), Missing}
    BY <2>1, KindsAssumption DEF Sound, Held, Backup, Usable
  <2>3. misread \/ Held(d) = Held(dir)
    BY <2>1, <2>2, KindsAssumption DEF LoadInv, Held, Backup, Usable
  <2>4. Does(d, "idle")
    BY <1>2 DEF Unlink
  <2> HIDE DEF d
  <2>5. CASE misread
    BY <2>1, <2>2, <2>4, <2>5, LoseDoes DEF WriteInv, LoadInv
  <2>6. CASE Held(d) = Held(dir)
    BY <2>1, <2>2, <2>4, <2>6, KeepDoes DEF WriteInv, LoadInv
  <2> QED
    BY <2>3, <2>5, <2>6
<1> QED
  BY <1>1, <1>2 DEF Tidy

-----------------------------------------------------------------------------
(* The steps that the cell's user sees. *)

\* sync_all: the disk has caught up.
LEMMA FillStep ==
  ASSUME FileInv, FillTmp
  PROVE  FileInv' /\ (Cell!Settle \/ Unseen)
<1> USE DEF FileInv
<1> dir \in Dirs /\ Sound(dir) /\ fpc = "fill" /\ UNCHANGED <<goal, answer, misread>> /\ goal \in Values
  BY DEF DirInv, FillTmp, WriteInv
<1>1. CASE /\ dir' = [dir EXCEPT !["tmp"] = goal] /\ behind' = {dir'}
           /\ fpc' = "keep" /\ existed' \in {dir["path"] # Absent, FALSE}
  <2>1. dir' \in Dirs /\ dir'["path"] = dir["path"] /\ dir'["bak"] = dir["bak"] /\ dir'["tmp"] = goal
    BY <1>1 DEF Dirs, Names, Contents
  <2>2. Sound(dir') /\ Copies(dir)' = Copies(dir) /\ Held(dir)' = Held(dir)
    BY <2>1 DEF Sound, Copies, Held, Backup, Usable
  <2>3. Recent' = {Copies(dir)'}
    BY <1>1 DEF Recent, Copies, Held, Backup, Usable
  <2>4. DirInv'
    BY <1>1, <2>1, <2>2 DEF DirInv, Sound, Usable
  <2>5. (\A s \in Recent : s.now = Held(dir))'
    BY <2>2, <2>3 DEF Copies
  <2>6. WriteInv' /\ LoadInv'
    BY <1>1, <2>1, <2>5 DEF WriteInv, LoadInv
  <2>7. Cell!Settle
    BY <2>2, <2>3 DEF Cell!Settle, Recent
  <2> QED
    BY <2>4, <2>6, <2>7
<1>2. CASE Does([dir EXCEPT !["tmp"] = Corrupt], "idle") /\ UNCHANGED existed
  <2> DEFINE d == [dir EXCEPT !["tmp"] = Corrupt]
  <2>1. d \in Dirs /\ d["path"] = dir["path"] /\ d["bak"] = dir["bak"]
    BY DEF Dirs, Names, Contents
  <2>2. Sound(d) /\ Copies(d) = Copies(dir)
    BY <2>1 DEF Sound, Copies, Held, Backup, Usable
  <2>3. Does(d, "idle")
    BY <1>2
  <2> HIDE DEF d
  <2> QED
    BY <2>1, <2>2, <2>3, QuietDoes DEF WriteInv, LoadInv, Unseen
<1> QED
  BY <1>1, <1>2 DEF FillTmp

\* The rename that stores the new value, over a predecessor that is durable,
\* and that was moved aside unless it was not seen.
LEMMA PromoteStep ==
  ASSUME FileInv, Promote
  PROVE  FileInv' /\ ((\E v \in Values : Cell!Put(v)) \/ Unseen)
<1> USE DEF FileInv
<1>a. dir \in Dirs /\ fpc = "promote" /\ UNCHANGED <<goal, existed, answer, misread>>
  BY DEF DirInv, Promote
<1>b. /\ goal \in Values /\ dir["tmp"] = goal /\ \A s \in Recent : s.now = Held(dir)
      /\ existed => dir["path"] = Absent
  BY <1>a DEF WriteInv
<1>1. ASSUME NEW next \in {"tidy", "idle"}, Does(Renamed("tmp", "path"), next)
      PROVE  FileInv' /\ Cell!Put(goal)
  <2> DEFINE d == Renamed("tmp", "path")
  <2>1. d \in Dirs /\ d["path"] = goal /\ d["bak"] = dir["bak"]
    BY <1>a, <1>b, DirOps DEF Names
  <2>2. /\ Sound(d) /\ Usable(d, "path") /\ Held(d) = goal
        /\ Copies(d) = [Copies(dir) EXCEPT !.now = goal]
    BY <1>b, <2>1, KindsAssumption DEF Sound, Copies, Held, Backup, Usable
  <2>3. Does(d, next)
    BY <1>1
  <2> HIDE DEF d
  <2>4. /\ DirInv' /\ dir' = d /\ fpc' = next
        /\ Copies(dir)' = Copies(d) /\ Recent' = Recent \cup {Copies(d)}
    BY <2>1, <2>2, <2>3, DoesMoves
  <2>5. WriteInv' /\ LoadInv'
    BY <1>a, <2>2, <2>4 DEF WriteInv, LoadInv, Usable
  <2>6. Copies(dir).now = Held(dir)
    BY DEF Copies
  <2>7. Cell!Put(goal)
    BY <1>a, <1>b, <2>2, <2>4, <2>6 DEF Cell!Put, Recent
  <2> QED
    BY <2>4, <2>5, <2>7
<1>2. ASSUME NEW next \in {"putBack", "dropTmp"}, Skips(next), next = "putBack" => existed
      PROVE  FileInv' /\ Unseen
  BY <1>a, <1>b, <1>2, QuietSkips DEF WriteInv, LoadInv, Unseen
<1> QED
  BY <1>1, <1>2, <1>b DEF Promote

-----------------------------------------------------------------------------
(* The steps of a load. *)

\* A load begins with the repair, and has read nothing yet.
LEMMA LoadStarts ==
  ASSUME FileInv, Load
  PROVE  FileInv' /\ Cell!Unread
<1>1. misread' = FALSE /\ Skips("restore") /\ UNCHANGED <<goal, existed, answer>>
  BY DEF Load
<1>2. DirInv' /\ fpc' = "restore"
  BY <1>1, QuietSkips DEF FileInv
<1>3. WriteInv' /\ LoadInv'
  BY <1>1, <1>2 DEF WriteInv, LoadInv
<1> QED
  BY <1>1, <1>2, <1>3, QuietSkips, UnreadStep DEF FileInv

\* The backup of an interrupted replace holds what the store had; it takes the
\* place of a good primary only where that could not be seen.
LEMMA RestoreStep ==
  ASSUME FileInv, Restore
  PROVE  FileInv' /\ (Cell!Keep \/ Cell!Lose \/ Unseen)
<1> USE DEF FileInv
<1> dir \in Dirs /\ Sound(dir) /\ UNCHANGED <<goal, existed, answer>> /\ misread \in BOOLEAN
  BY DEF DirInv, Restore, LoadInv
<1>1. ASSUME NEW next \in {"read", "sweep"}, Skips(next), UNCHANGED misread
      PROVE  FileInv' /\ Unseen
  BY <1>1, QuietSkips DEF WriteInv, LoadInv, Unseen
<1>2. CASE dir["bak"] # Absent /\ Does(Renamed("bak", "path"), "sweep") /\ PassesOver({"path"})
  <2> DEFINE d == Renamed("bak", "path")
  <2>1. d \in Dirs /\ d["path"] = dir["bak"] /\ d["bak"] = Absent
    BY DirOps DEF Names
  <2>2. Sound(d) /\ Backup(d) = Missing /\ Held(d) = Backup(dir)
    BY <2>1, KindsAssumption DEF Sound, Held, Backup, Usable
  <2>3. Does(d, "sweep")
    BY <1>2
  <2>4. misread' = (misread \/ Usable(dir, "path"))
    BY <1>2 DEF PassesOver
  <2> HIDE DEF d
  <2>5. CASE Usable(dir, "path")
    <3>1. misread' = TRUE
      BY <2>4, <2>5
    <3>2. DirInv' /\ dir' = d /\ fpc' = "sweep" /\ Cell!Lose
      BY <2>1, <2>2, <2>3, <3>1, LoseDoes
    <3> QED
      BY <3>1, <3>2 DEF WriteInv, LoadInv
  <2>6. CASE ~ Usable(dir, "path")
    <3>1. misread' = misread /\ Held(d) = Held(dir)
      BY <2>2, <2>4, <2>6 DEF Held
    <3> QED
      BY <2>1, <2>2, <2>3, <3>1, KeepDoes DEF WriteInv, LoadInv
  <2> QED
    BY <2>5, <2>6
<1> QED
  BY <1>1, <1>2 DEF Restore

\* Nothing reads a temporary file, so sweeping it goes unseen.
LEMMA SweepStep ==
  ASSUME FileInv, Sweep
  PROVE  FileInv' /\ Unseen
<1> USE DEF FileInv
<1> dir \in Dirs /\ Sound(dir) /\ UNCHANGED <<goal, existed, answer, misread>>
  BY DEF DirInv, Sweep
<1>1. CASE Skips("read")
  BY <1>1, QuietSkips DEF WriteInv, LoadInv, Unseen
<1>2. CASE Unlink("tmp", "read")
  <2> DEFINE d == IF dir["tmp"] = Absent THEN dir ELSE Without("tmp")
  <2>1. d \in Dirs /\ d["path"] = dir["path"] /\ d["bak"] = dir["bak"]
    BY DirOps DEF Names
  <2>2. Sound(d) /\ Copies(d) = Copies(dir)
    BY <2>1 DEF Sound, Copies, Held, Backup, Usable
  <2>3. Does(d, "read")
    BY <1>2 DEF Unlink
  <2> HIDE DEF d
  <2> QED
    BY <2>1, <2>2, <2>3, QuietDoes DEF WriteInv, LoadInv, Unseen
<1> QED
  BY <1>1, <1>2 DEF Sweep

\* What a load answers is what the file holds, if it could read it.
LEMMA ReadPathStep ==
  ASSUME FileInv, ReadPath
  PROVE  FileInv' /\ (Cell!Get \/ Cell!Unread)
<1> USE DEF FileInv
<1>a. dir \in Dirs /\ Sound(dir) /\ UNCHANGED <<goal, existed>> /\ misread \in BOOLEAN
  BY DEF DirInv, ReadPath, LoadInv
<1>c. Copies(dir).now = Held(dir) /\ Copies(dir).before = Backup(dir)
  BY DEF Copies
<1>1. CASE Usable(dir, "path") /\ answer' = dir["path"] /\ Skips("tidy") /\ UNCHANGED misread
  <2>1. answer' = Held(dir)
    BY <1>1 DEF Held
  <2>2. FileInv'
    BY <1>a, <1>1, QuietSkips DEF WriteInv, LoadInv, Usable
  <2>3. Cell!Get
    BY <1>a, <1>c, <1>1, <2>1, QuietSkips DEF Cell!Get, Recent
  <2> QED
    BY <2>2, <2>3
<1>2. CASE answer' = Missing /\ Skips("idle") /\ PassesOver({"path", "bak"})
  <2>1. misread' = (misread \/ Usable(dir, "path") \/ Usable(dir, "bak"))
    BY <1>2 DEF PassesOver
  <2>2. /\ misread' \in {misread, TRUE} /\ misread' \in BOOLEAN
        /\ misread' \/ Held(dir) = Missing
    BY <1>a, <2>1 DEF Held, Backup, Usable
  <2>3. FileInv'
    BY <1>a, <1>2, <2>2, QuietSkips DEF WriteInv, LoadInv
  <2>4. Cell!Get
    BY <1>c, <1>2, <2>2, QuietSkips DEF Cell!Get, Recent
  <2> QED
    BY <2>3, <2>4
<1>3. CASE UNCHANGED answer /\ Skips("backup") /\ PassesOver({"path"})
  <2>1. misread' = (misread \/ Usable(dir, "path"))
    BY <1>3 DEF PassesOver
  <2>2. misread' \in BOOLEAN /\ (misread' \/ ~ Usable(dir, "path"))
    BY <2>1, <1>a DEF Usable
  <2>3. FileInv'
    <3>1. ~ Usable(dir, "path")' = ~ Usable(dir, "path")
      BY <1>3, QuietSkips DEF Usable
    <3> QED
      BY <1>a, <1>3, <2>2, <3>1, QuietSkips DEF WriteInv, LoadInv
  <2> QED
    BY <1>3, <2>2, <2>3, QuietSkips, UnreadStep
<1> QED
  BY <1>1, <1>2, <1>3 DEF ReadPath

\* Where the file cannot be used its backup is the value, or nothing is.
LEMMA ReadBackupStep ==
  ASSUME FileInv, ReadBackup
  PROVE  FileInv' /\ Cell!Get
<1> USE DEF FileInv
<1>a. /\ dir \in Dirs /\ Sound(dir) /\ UNCHANGED <<goal, existed>> /\ misread \in BOOLEAN
      /\ misread \/ ~ Usable(dir, "path")
  BY DEF DirInv, ReadBackup, LoadInv
<1>c. Copies(dir).now = Held(dir) /\ Copies(dir).before = Backup(dir)
  BY DEF Copies
<1>1. CASE Usable(dir, "bak") /\ answer' = dir["bak"] /\ Skips("dropPath") /\ UNCHANGED misread
  <2>1. answer' = Backup(dir) /\ (misread \/ answer' = Held(dir))
    BY <1>a, <1>1 DEF Held, Backup
  <2>2. FileInv'
    BY <1>a, <1>1, QuietSkips DEF WriteInv, LoadInv, Usable
  <2>3. Cell!Get
    BY <1>a, <1>c, <1>1, <2>1, QuietSkips DEF Cell!Get, Recent
  <2> QED
    BY <2>2, <2>3
<1>2. CASE answer' = Missing /\ Skips("quarantine") /\ PassesOver({"bak"})
  <2>1. misread' = (misread \/ Usable(dir, "bak"))
    BY <1>2 DEF PassesOver
  <2>2. /\ misread' \in {misread, TRUE} /\ misread' \in BOOLEAN
        /\ misread' \/ Held(dir) = Missing
        /\ misread' \/ (~ Usable(dir, "path") /\ ~ Usable(dir, "bak"))
    BY <1>a, <2>1 DEF Held, Backup, Usable
  <2>3. FileInv'
    <3>1. UNCHANGED <<Usable(dir, "path"), Usable(dir, "bak")>>
      BY <1>2, QuietSkips DEF Usable
    <3> QED
      BY <1>a, <1>2, <2>2, <3>1, QuietSkips DEF WriteInv, LoadInv
  <2>4. Cell!Get
    BY <1>c, <1>2, <2>2, QuietSkips DEF Cell!Get, Recent
  <2> QED
    BY <2>3, <2>4
<1> QED
  BY <1>1, <1>2 DEF ReadBackup

\* A primary that was of no use makes way for the backup that is.
LEMMA DropPathStep ==
  ASSUME FileInv, DropPath
  PROVE  FileInv' /\ (Cell!Keep \/ Cell!Lose \/ Unseen)
<1> USE DEF FileInv
<1>a. /\ dir \in Dirs /\ Sound(dir) /\ UNCHANGED <<goal, existed, answer, misread>>
      /\ misread \/ ~ Usable(dir, "path")
      /\ Usable(dir, "bak")
  BY DEF DirInv, DropPath, LoadInv
<1>1. CASE Skips("promoteBak")
  BY <1>a, <1>1, QuietSkips DEF WriteInv, LoadInv, Unseen, Usable
<1>2. CASE Unlink("path", "promoteBak")
  <2> DEFINE d == IF dir["path"] = Absent THEN dir ELSE Without("path")
  <2>1. d \in Dirs /\ d["path"] = Absent /\ d["bak"] = dir["bak"]
    BY <1>a, DirOps DEF Names
  <2>2. /\ Sound(d) /\ Held(d) = Backup(dir) /\ Backup(d) = Backup(dir)
        /\ Usable(d, "bak") /\ ~ Usable(d, "path")
    BY <1>a, <2>1, KindsAssumption DEF Sound, Held, Backup, Usable
  <2>3. Does(d, "promoteBak")
    BY <1>2 DEF Unlink
  <2> HIDE DEF d
  <2>4. CASE misread
    BY <1>a, <2>1, <2>2, <2>3, <2>4, LoseDoes DEF WriteInv, LoadInv, Usable
  <2>5. CASE ~ Usable(dir, "path")
    <3>1. Held(d) = Held(dir) /\ Backup(d) = Held(dir)
      BY <2>2, <2>5 DEF Held
    <3> QED
      BY <1>a, <2>1, <2>2, <2>3, <3>1, KeepDoes DEF WriteInv, LoadInv, Usable
  <2> QED
    BY <1>a, <2>4, <2>5
<1> QED
  BY <1>1, <1>2 DEF DropPath

\* The backup takes the place of the file it stood in for.
LEMMA PromoteBackupStep ==
  ASSUME FileInv, PromoteBackup
  PROVE  FileInv' /\ (Cell!Keep \/ Cell!Lose \/ Unseen)
<1> USE DEF FileInv
<1>a. /\ dir \in Dirs /\ UNCHANGED <<goal, existed, answer, misread>>
      /\ misread \/ ~ Usable(dir, "path")
  BY DEF DirInv, PromoteBackup, LoadInv
<1>1. CASE Skips("idle")
  BY <1>a, <1>1, QuietSkips DEF WriteInv, LoadInv, Unseen
<1>2. CASE Does(Renamed("bak", "path"), "idle")
  <2> DEFINE d == Renamed("bak", "path")
  <2>1. d \in Dirs /\ d["path"] = dir["bak"] /\ d["bak"] = Absent
    BY <1>a, DirOps DEF Names
  <2>2. Sound(d) /\ Held(d) = Backup(dir) /\ Backup(d) = Missing
    BY <1>a, <2>1, KindsAssumption DEF Sound, Held, Backup, Usable
  <2>3. Does(d, "idle")
    BY <1>2
  <2> HIDE DEF d
  <2>4. CASE misread
    BY <1>a, <2>1, <2>2, <2>3, <2>4, LoseDoes DEF WriteInv, LoadInv
  <2>5. CASE ~ Usable(dir, "path")
    <3>1. Held(d) = Held(dir)
      BY <2>2, <2>5 DEF Held
    <3> QED
      BY <1>a, <2>1, <2>2, <2>3, <3>1, KeepDoes DEF WriteInv, LoadInv
  <2> QED
    BY <1>a, <2>4, <2>5
<1> QED
  BY <1>1, <1>2 DEF PromoteBackup

\* A file put aside could not be used, and neither could its backup.
LEMMA QuarantineStep ==
  ASSUME FileInv, Quarantine
  PROVE  FileInv' /\ (Cell!Keep \/ Cell!Lose \/ Unseen)
<1> USE DEF FileInv
<1>a. /\ dir \in Dirs /\ Sound(dir) /\ UNCHANGED <<goal, existed, answer, misread>>
      /\ misread \/ (~ Usable(dir, "path") /\ ~ Usable(dir, "bak"))
  BY DEF DirInv, Quarantine, LoadInv
<1>1. CASE Skips("tidy")
  BY <1>a, <1>1, QuietSkips DEF WriteInv, LoadInv, Unseen, Usable
<1>2. CASE Does(IF dir["path"] = Absent THEN dir ELSE Renamed("path", "aside"), "tidy")
  <2> DEFINE d == IF dir["path"] = Absent THEN dir ELSE Renamed("path", "aside")
  <2>1. d \in Dirs /\ d["path"] = Absent /\ d["bak"] = dir["bak"]
    BY <1>a, DirOps DEF Names
  <2>2. Sound(d) /\ Held(d) = Backup(dir) /\ Backup(d) = Backup(dir)
    BY <1>a, <2>1, KindsAssumption DEF Sound, Held, Backup, Usable
  <2>3. Does(d, "tidy")
    BY <1>2
  <2> HIDE DEF d
  <2>4. CASE misread
    BY <1>a, <2>1, <2>2, <2>3, <2>4, LoseDoes DEF WriteInv, LoadInv
  <2>5. CASE ~ Usable(dir, "path") /\ ~ Usable(dir, "bak")
    <3>1. Held(d) = Held(dir) /\ Backup(d) = Missing /\ ~ Usable(d, "bak")
      BY <2>1, <2>2, <2>5 DEF Held, Backup, Usable
    <3> QED
      BY <1>a, <2>1, <2>2, <2>3, <3>1, KeepDoes DEF WriteInv, LoadInv, Usable
  <2> QED
    BY <1>a, <2>4, <2>5
<1> QED
  BY <1>1, <1>2 DEF Quarantine

-----------------------------------------------------------------------------
(* The end of the process, and of the power. *)

\* At rest there is nothing else to rely on.
LEMMA RestIsEnough ==
  ASSUME DirInv', fpc' = "idle", misread' = FALSE
  PROVE  FileInv'
  BY DEF FileInv, WriteInv, LoadInv

\* A file that was being filled is no file a load reads.
LEMMA ExitStep ==
  ASSUME FileInv, ProcessDies
  PROVE  FileInv' /\ Cell!Unread
<1>1. dir \in Dirs /\ Sound(dir) /\ DirInv
  BY DEF FileInv, DirInv
<1>2. dir' \in Dirs /\ dir'["path"] = dir["path"] /\ dir'["bak"] = dir["bak"]
  BY <1>1 DEF ProcessDies, Cut, Dirs, Names, Contents
<1>3. Does(dir', "idle") /\ UNCHANGED answer /\ misread' = FALSE
  BY DEF ProcessDies, Does
<1>4. Sound(dir') /\ Copies(dir') = Copies(dir)
  BY <1>1, <1>2 DEF Sound, Copies, Held, Backup, Usable
<1>5. DirInv' /\ fpc' = "idle" /\ Copies(dir)' = Copies(dir) /\ Recent' = Recent
  <2> DEFINE d == dir'
  <2>1. d \in Dirs /\ Sound(d) /\ Does(d, "idle") /\ Copies(d) = Copies(dir)
    BY <1>2, <1>3, <1>4
  <2> HIDE DEF d
  <2> QED
    BY <1>1, <2>1, QuietDoes
<1> QED
  BY <1>3, <1>5, RestIsEnough, UnreadStep

\* A power loss leaves one of the states that the disk may hold.
LEMMA PowerStep ==
  ASSUME FileInv, PowerGoes
  PROVE  FileInv' /\ Cell!PowerLoss
<1>1. dir' \in behind /\ behind' = {dir'} /\ fpc' = "idle" /\ UNCHANGED answer /\ misread' = FALSE
  BY DEF PowerGoes
<1>2. DirInv'
  BY <1>1 DEF FileInv, DirInv, Sound, Usable
<1>3. Copies(dir)' \in Recent /\ Recent' = {Copies(dir)'}
  BY <1>1 DEF Recent, Copies, Held, Backup, Usable
<1>4. Cell!PowerLoss
  BY <1>1, <1>3 DEF Cell!PowerLoss, Recent
<1> QED
  BY <1>1, <1>2, <1>4, RestIsEnough

-----------------------------------------------------------------------------

\* The first start finds a state that a cell may have.
LEMMA FileStarts == FileInit => FileInv /\ Cell!CellInit
<1> SUFFICES ASSUME FileInit PROVE FileInv /\ Cell!CellInit
  OBVIOUS
<1>1. dir \in Dirs /\ dir["bak"] = Absent
  BY DEF FileInit, Dirs, Names, Contents
<1>2. FileInv
  BY <1>1, KindsAssumption DEF FileInit, FileInv, DirInv, WriteInv, LoadInv, Sound, Usable
<1>3. Held(dir) \in Values \cup {Missing} /\ Backup(dir) = Missing
  BY <1>1, KindsAssumption DEF Held, Backup, Usable
<1>4. Copies(dir) \in [now : Values \cup {Missing}, before : {Missing}]
  BY <1>3 DEF Copies
<1>5. {Copies(d) : d \in behind} = {Copies(dir)} /\ answer = Missing /\ misread = FALSE
  BY DEF FileInit
<1> QED
  BY <1>2, <1>4, <1>5 DEF Cell!CellInit

\* Every step of a file is a step of the cell, or unseen by it.
LEMMA FileStep == FileInv /\ [FileNext]_fileVars => FileInv' /\ [Cell!CellNext]_(Cell!cellVars)
<1> SUFFICES ASSUME FileInv, [FileNext]_fileVars
             PROVE  FileInv' /\ [Cell!CellNext]_(Cell!cellVars)
  OBVIOUS
<1>1. Unseen => UNCHANGED Cell!cellVars
  BY DEF Unseen, Recent, Cell!cellVars
<1> USE DEF Cell!CellNext
<1>2. CASE (\E v \in Values : Write(v)) \/ ClearTmp \/ CreateTmp \/ DropTmp
  BY <1>1, <1>2, WriteSteps
<1>3. CASE FillTmp
  BY <1>1, <1>3, FillStep
<1>4. CASE KeepOld
  BY <1>1, <1>4, KeepOldStep
<1>5. CASE Promote
  BY <1>1, <1>5, PromoteStep
<1>6. CASE PutBack \/ Tidy
  BY <1>1, <1>6, PutBackStep, TidyStep
<1>7. CASE Load \/ Restore \/ Sweep
  BY <1>1, <1>7, LoadStarts, RestoreStep, SweepStep
<1>8. CASE ReadPath \/ ReadBackup
  BY <1>1, <1>8, ReadPathStep, ReadBackupStep
<1>9. CASE DropPath \/ PromoteBackup \/ Quarantine
  BY <1>1, <1>9, DropPathStep, PromoteBackupStep, QuarantineStep
<1>10. CASE ProcessDies \/ PowerGoes
  BY <1>1, <1>10, ExitStep, PowerStep
<1>11. CASE UNCHANGED fileVars
  <2>1. FileInv'
    BY <1>11 DEF fileVars, FileInv, DirInv, WriteInv, LoadInv, Sound, Usable, Recent, Copies, Held, Backup
  <2>2. UNCHANGED Cell!cellVars
    BY <1>11 DEF fileVars, Cell!cellVars, Copies, Held, Backup, Usable
  <2> QED
    BY <2>1, <2>2
<1> QED
  BY <1>2, <1>3, <1>4, <1>5, <1>6, <1>7, <1>8, <1>9, <1>10, <1>11 DEF FileNext

\* A store file is one value that changes at once, through every failed step
\* of a write, exit and power loss and the repair after them, for any number
\* of them; only a load that could not read a copy that decodes falls back, to
\* the backup or to nothing (atomic_write, load_with_recovery).
THEOREM FileImplementsCell == FileSpec => FileIsOneCell
<1>1. FileSpec => []FileInv
  BY FileStarts, FileStep, PTL DEF FileSpec
<1> QED
  BY <1>1, FileStarts, FileStep, PTL DEF FileSpec, FileIsOneCell, Cell!CellSpec

-----------------------------------------------------------------------------
(* The events that wait to be sent. *)

NothingLeft == queue = <<>> /\ lines = NoOutbox

\* Whoever closes the gate owes the purge, and only the gate's opening ends
\* what the purge has left.
ClosedInv == consent = "Off" => setter \/ NothingLeft

\* A queue without entries shares none with a batch.
LEMMA NoEntries == ToSet(<<>>) = {}
  BY DEF ToSet

\* A save of settings never closes the gate without owing the purge, unless
\* the gate was closed before (set_consent).
LEMMA SwapKeeps ==
  ASSUME ClosedInv, NEW s, Swap(s), UNCHANGED <<queue, lines>>
  PROVE  ClosedInv'
  BY DEF ClosedInv, Swap, NothingLeft

\* An empty queue has nothing to age, so Take leaves the file alone.
LEMMA TakeKeeps ==
  ASSUME NothingLeft, Take
  PROVE  NothingLeft'
<1>1. Len(queue) = 0
  BY DEF NothingLeft
<1>2. SubSeq(queue, 1, Len(queue)) = <<>>
  BY <1>1 DEF NothingLeft
<1>3. PICK aged \in 0 .. 0 : Saved(SubSeq(queue, aged + 1, Len(queue)), aged > 0)
  BY <1>1 DEF Take
<1>4. aged = 0
  BY <1>3
<1> QED
  BY <1>2, <1>3, <1>4 DEF Saved, NothingLeft

\* The app starts with an empty queue.
LEMMA ClosedInit == OutboxInit => ClosedInv
  BY DEF OutboxInit, ClosedInv

\* Every step keeps the queue closed once sharing is off.
LEMMA ClosedStep == ClosedInv /\ [OutboxNext]_outboxVars => ClosedInv'
<1> SUFFICES ASSUME ClosedInv, [OutboxNext]_outboxVars
             PROVE  ClosedInv'
  OBVIOUS
<1>1. CASE LoadSettings
  BY <1>1, SwapKeeps DEF LoadSettings
<1>2. CASE SaveSettings
  <2>1. Swap(stored') /\ UNCHANGED <<queue, lines>>
    BY <1>2 DEF SaveSettings
  <2> QED
    BY <2>1, SwapKeeps
<1>3. CASE Purge
  BY <1>3 DEF Purge, ClosedInv, NothingLeft
<1>4. CASE Capture
  BY <1>4 DEF Capture, ClosedInv, NothingLeft, counters
<1>5. CASE Enqueue
  BY <1>5 DEF Enqueue, Queues, ClosedInv, NothingLeft
<1>6. CASE Check
  BY <1>6 DEF Check, At, ClosedInv, NothingLeft
<1>7. CASE Take
  <2>1. UNCHANGED <<consent, setter>>
    BY <1>7 DEF Take, At
  <2> QED
    BY <1>7, <2>1, TakeKeeps DEF ClosedInv
<1>8. CASE Send
  BY <1>8 DEF Send, At, ClosedInv, NothingLeft
<1>9. CASE Removed
  <2>1. UNCHANGED <<consent, setter>>
    BY <1>9 DEF Removed, At
  <2>2. NothingLeft => NothingLeft'
    BY <1>9, NoEntries DEF Removed, NothingLeft
  <2> QED
    BY <2>1, <2>2 DEF ClosedInv
<1>10. CASE Relaunch
  BY <1>10 DEF Relaunch, ClosedInv
<1>11. CASE UNCHANGED outboxVars
  BY <1>11 DEF outboxVars, ClosedInv, NothingLeft
<1> QED
  BY <1>1, <1>2, <1>3, <1>4, <1>5, <1>6, <1>7, <1>8, <1>9, <1>10, <1>11 DEF OutboxNext

\* Sharing that was turned off leaves no event in memory and no file, once the
\* save that turned it off is done: no recorder, no sender and no exit brings
\* one back, whatever the caps of the queue (set_consent, enqueue, remove).
THEOREM OffStaysEmpty == OutboxSpec => []OffLeavesNothing
<1>1. ClosedInv => OffLeavesNothing
  BY DEF ClosedInv, OffLeavesNothing, NothingLeft
<1> QED
  BY <1>1, ClosedInit, ClosedStep, PTL DEF OutboxSpec

\* What waits in memory is what the file has, and what is owed waits or was sent.
QueueInv ==
  /\ queue \in Seq(Nat) /\ events \in Nat
  /\ LinesOf(lines) = queue
  /\ owed \subseteq posted \cup ToSet(queue)

\* The oldest entry less.
LEMMA EntriesOfTail ==
  ASSUME NEW T, NEW q \in Seq(T), q # <<>>
  PROVE  /\ Tail(q) \in Seq(T) /\ Head(q) \in T
         /\ ToSet(q) = ToSet(Tail(q)) \cup {Head(q)}
<1>1. /\ Tail(q) \in Seq(T) /\ Head(q) \in T /\ Head(q) = q[1]
      /\ Len(Tail(q)) = Len(q) - 1 /\ Len(q) \in Nat \ {0}
      /\ \A i \in 1 .. Len(q) - 1 : Tail(q)[i] = q[i + 1]
  BY HeadTailProperties, EmptySeq
<1>2. DOMAIN q = 1 .. Len(q) /\ DOMAIN Tail(q) = 1 .. Len(q) - 1
  BY <1>1, LenProperties
<1>3. ASSUME NEW x \in ToSet(q) PROVE x \in ToSet(Tail(q)) \cup {Head(q)}
  <2>1. PICK i \in 1 .. Len(q) : x = q[i]
    BY <1>2 DEF ToSet
  <2>2. CASE i = 1
    BY <2>1, <2>2, <1>1
  <2>3. CASE i # 1
    <3>1. i - 1 \in 1 .. Len(q) - 1 /\ (i - 1) + 1 = i
      BY <2>3, <1>1
    <3>2. x = Tail(q)[i - 1]
      BY <3>1, <2>1, <1>1
    <3>3. QED
      BY <3>1, <3>2, <1>2 DEF ToSet
  <2>4. QED
    BY <2>2, <2>3
<1>4. ASSUME NEW x \in ToSet(Tail(q)) \cup {Head(q)} PROVE x \in ToSet(q)
  <2>1. CASE x = Head(q)
    <3>1. 1 \in 1 .. Len(q)
      BY <1>1
    <3>2. QED
      BY <2>1, <3>1, <1>1, <1>2 DEF ToSet
  <2>2. CASE x \in ToSet(Tail(q))
    <3>1. PICK i \in 1 .. Len(q) - 1 : x = Tail(q)[i]
      BY <2>2, <1>2 DEF ToSet
    <3>2. x = q[i + 1] /\ i + 1 \in 1 .. Len(q)
      BY <3>1, <1>1
    <3>3. QED
      BY <3>2, <1>2 DEF ToSet
  <2>3. QED
    BY <2>1, <2>2
<1>5. QED
  BY <1>1, <1>3, <1>4

\* A file that was written whole has the entries that were written.
LEMMA WrittenLines ==
  ASSUME NEW q \in Seq(Nat)
  PROVE  LinesOf(q) = q
<1>1. q \in Seq(Nat \cup {Torn})
  BY SeqMonotonic
<1>2. QED
  BY <1>1, OutboxAssumption DEF LinesOf

\* An append goes to the end of the file, for the file has no torn line.
LEMMA AppendedLines ==
  ASSUME QueueInv, NEW e \in Nat
  PROVE  LinesOf(Appended(lines, e)) = Append(queue, e)
<1>1. CASE lines = NoOutbox
  <2>1. queue = <<>> /\ Appended(lines, e) = <<e>>
    BY <1>1 DEF QueueInv, LinesOf, Appended
  <2>2. <<e>> \in Seq(Nat) /\ <<e>> = Append(queue, e)
    BY <2>1
  <2>3. QED
    BY <2>1, <2>2, WrittenLines
<1>2. CASE lines # NoOutbox
  <2>1. lines = queue
    BY <1>2 DEF QueueInv, LinesOf
  <2>2. queue # <<>> => Last(queue) # Torn
    <3>1. queue # <<>> => Last(queue) \in Nat
      BY ElementOfSeq, EmptySeq DEF Last, QueueInv
    <3>2. QED
      BY <3>1, OutboxAssumption
  <2>3. Appended(lines, e) = Append(queue, e)
    BY <1>2, <2>1, <2>2 DEF Appended
  <2>4. Append(queue, e) \in Seq(Nat)
    BY DEF QueueInv
  <2>5. QED
    BY <2>3, <2>4, WrittenLines
<1>3. QED
  BY <1>1, <1>2

\* push: the oldest entry that the cap drops is owed no longer.
LEMMA PushKeeps ==
  ASSUME QueueInv, Push(events + 1), UNCHANGED posted
  PROVE  QueueInv'
<1> DEFINE e == events + 1
           over == Len(queue) >= MaxEntries
           rest == IF over THEN Tail(queue) ELSE queue
           q == Append(rest, e)
<1>1. queue \in Seq(Nat) /\ e \in Nat /\ Len(queue) \in Nat
  BY LenProperties DEF QueueInv
<1>2. over => queue # <<>>
  BY <1>1, OutboxAssumption, EmptySeq
<1>3. /\ rest \in Seq(Nat)
      /\ ToSet(queue) = IF over THEN ToSet(rest) \cup {Head(queue)} ELSE ToSet(rest)
  BY <1>1, <1>2, EntriesOfTail
<1>4. q \in Seq(Nat) /\ ToSet(q) = ToSet(rest) \cup {e}
  <2> HIDE DEF rest, e
  <2>1. QED
    BY <1>1, <1>3, EntriesOfAppend
<1>5. /\ queue' = q /\ events' = e
      /\ lines' \in {q} \cup (IF over THEN {} ELSE {Appended(lines, e)})
      /\ owed' = (owed \cup {e}) \ (IF over THEN {Head(queue)} ELSE {})
  BY DEF Push
<1>6. LinesOf(lines') = q
  <2>1. CASE lines' = q
    BY <2>1, <1>4, WrittenLines
  <2>2. CASE ~ over /\ lines' = Appended(lines, e)
    <3> HIDE DEF e
    <3>1. LinesOf(Appended(lines, e)) = Append(queue, e)
      BY <1>1, AppendedLines
    <3>2. QED
      BY <3>1, <2>2
  <2>3. QED
    BY <2>1, <2>2, <1>5
<1>7. owed' \subseteq posted' \cup ToSet(q)
  <2>1. owed \subseteq posted \cup ToSet(queue)
    BY DEF QueueInv
  <2> HIDE DEF q, rest, over, e
  <2>2. QED
    BY <2>1, <1>3, <1>4, <1>5
<1>8. QED
  <2> HIDE DEF q, e
  <2>1. QED
    BY <1>1, <1>4, <1>5, <1>6, <1>7 DEF QueueInv

\* oldest: what is too old is owed no longer.
LEMMA TakeKeepsQueue ==
  ASSUME QueueInv, Take
  PROVE  QueueInv'
<1>1. PICK aged \in 0 .. (IF Len(queue) > 0 THEN 1 ELSE 0) :
        /\ Saved(SubSeq(queue, aged + 1, Len(queue)), aged > 0)
        /\ owed' = owed \cap ToSet(SubSeq(queue, aged + 1, Len(queue)))
  BY DEF Take
<1> DEFINE q == SubSeq(queue, aged + 1, Len(queue))
<1>2. q \in Seq(Nat) /\ (aged = 0 => q = queue)
  <2>1. queue \in Seq(Nat) /\ Len(queue) \in Nat /\ aged \in {0, 1}
    BY <1>1, LenProperties DEF QueueInv
  <2>2. QED
    BY <2>1, SubSeqFull
<1>3. LinesOf(lines') = q /\ queue' = q
  <2>1. CASE aged = 0
    BY <2>1, <1>1, <1>2 DEF Saved, QueueInv
  <2>2. CASE aged # 0
    <3> HIDE DEF q
    <3>1. aged > 0
      BY <2>2
    <3>2. queue' = q /\ lines' = q
      BY <3>1, <1>1 DEF Saved, q
    <3>3. LinesOf(q) = q
      BY <1>2, WrittenLines
    <3>4. QED
      BY <3>2, <3>3
  <2>3. QED
    BY <2>1, <2>2
<1>4. events' = events /\ posted' = posted
  BY DEF Take, At, counters
<1>5. QED
  <2> HIDE DEF q
  <2>1. QED
    BY <1>1, <1>2, <1>3, <1>4 DEF QueueInv, q

\* remove: what is removed was sent or refused.
LEMMA RemovedKeeps ==
  ASSUME QueueInv, Removed
  PROVE  QueueInv'
<1> DEFINE q == Sifted(queue, ToSet(batch))
<1>1. q \in Seq(Nat) /\ ToSet(q) = ToSet(queue) \ ToSet(batch)
  BY SiftedHolds DEF QueueInv
<1>2. owed' = owed \ ToSet(batch) /\ UNCHANGED <<events, posted>>
  BY DEF Removed, At, counters
<1>3. CASE ToSet(batch) \cap ToSet(queue) = {}
  BY <1>2, <1>3 DEF Removed, QueueInv
<1>4. CASE ToSet(batch) \cap ToSet(queue) # {}
  <2>1. queue' = q /\ lines' = q
    BY <1>4 DEF Removed, Saved
  <2>2. LinesOf(q) = q
    BY <1>1, WrittenLines
  <2> HIDE DEF q
  <2>3. QED
    BY <1>1, <1>2, <2>1, <2>2 DEF QueueInv
<1>5. QED
  BY <1>3, <1>4

\* load: the torn line goes, and nothing else.
LEMMA LoadsKeeps ==
  ASSUME QueueInv, NEW l, LinesOf(l) \in {queue, Append(queue, Torn)}, Loads(l)
  PROVE  queue' = queue /\ LinesOf(lines') = queue
<1> DEFINE T == Nat \cup {Torn}
           all == LinesOf(l)
<1>1. /\ queue \in Seq(T) /\ queue \in Seq(Nat) /\ Len(queue) \in Nat
      /\ \A i \in 1 .. Len(queue) : queue[i] # Torn
  BY OutboxAssumption, LenProperties, ElementOfSeq, SeqMonotonic DEF QueueInv
<1>2. /\ all \in Seq(T) /\ Len(queue) \in 0 .. Len(all) /\ SubSeq(all, 1, Len(queue)) = queue
      /\ \A i \in 1 .. Len(queue) : all[i] = queue[i]
      /\ \A i \in Len(queue) + 1 .. Len(all) : all[i] = Torn
  <2>1. CASE all = queue
    BY <2>1, <1>1, SubSeqFull
  <2>2. CASE all = Append(queue, Torn)
    <3>1. /\ Append(queue, Torn) \in Seq(T) /\ Len(Append(queue, Torn)) = Len(queue) + 1
          /\ \A i \in 1 .. Len(queue) : Append(queue, Torn)[i] = queue[i]
          /\ Append(queue, Torn)[Len(queue) + 1] = Torn
      BY <1>1, AppendProperties
    <3>2. SubSeq(Append(queue, Torn), 1, Len(queue)) = queue
      BY <1>1
    <3> HIDE DEF T, all
    <3>3. QED
      BY <3>1, <3>2, <2>2, <1>1
  <2>3. QED
    BY <2>1, <2>2
<1>3. Sifted(all, {Torn}) = queue
  <2> HIDE DEF T, all
  <2>1. \A i \in 1 .. Len(queue) : all[i] \notin {Torn}
    BY <1>1, <1>2
  <2>2. \A i \in Len(queue) + 1 .. Len(all) : all[i] \in {Torn}
    BY <1>2
  <2>3. QED
    BY <2>1, <2>2, <1>2, SiftedHolds
<1>4. queue' = queue /\ lines' = IF queue = all THEN l ELSE queue
  BY <1>3 DEF Loads
<1>5. QED
  BY <1>1, <1>4, WrittenLines

\* A launch finds the queue that the last one left.
LEMMA RelaunchKeepsQueue ==
  ASSUME QueueInv, Relaunch
  PROVE  QueueInv'
<1>1. PICK l \in {lines} \cup {Append(LinesOf(lines), Torn)} : Loads(l)
  BY DEF Relaunch
<1>2. LinesOf(l) \in {queue, Append(queue, Torn)}
  <2>1. CASE l = lines
    BY <2>1 DEF QueueInv
  <2>2. CASE l = Append(queue, Torn)
    <3>1. queue \in Seq(Nat \cup {Torn})
      BY SeqMonotonic DEF QueueInv
    <3>2. Append(queue, Torn) \in Seq(Nat \cup {Torn})
      BY <3>1, AppendProperties
    <3>3. QED
      BY <3>2, <2>2, OutboxAssumption DEF LinesOf
  <2>3. QED
    BY <2>1, <2>2, <1>1 DEF QueueInv
<1>3. queue' = queue /\ LinesOf(lines') = queue
  BY <1>1, <1>2, LoadsKeeps
<1>4. UNCHANGED <<events, posted, owed>>
  BY DEF Relaunch
<1>5. QED
  BY <1>3, <1>4 DEF QueueInv

\* An outbox starts without a file.
LEMMA QueueStarts == OutboxInit => QueueInv
<1>1. <<>> \in Seq(Nat)
  OBVIOUS
<1>2. QED
  BY <1>1 DEF OutboxInit, QueueInv, LinesOf

\* Every step leaves in the file what it leaves in memory.
LEMMA QueueStep == QueueInv /\ [OutboxNext]_outboxVars => QueueInv'
<1> SUFFICES ASSUME QueueInv, [OutboxNext]_outboxVars
             PROVE  QueueInv'
  OBVIOUS
<1>1. CASE UNCHANGED <<queue, lines, posted, owed, events>>
  BY <1>1 DEF QueueInv
<1>2. CASE LoadSettings
  BY <1>1, <1>2 DEF LoadSettings, counters
<1>3. CASE SaveSettings
  BY <1>1, <1>3 DEF SaveSettings
<1>4. CASE Purge
  BY <1>4, NoEntries DEF Purge, QueueInv, LinesOf, counters
<1>5. CASE Capture
  BY <1>1, <1>5 DEF Capture, counters
<1>6. CASE Enqueue
  <2>1. UNCHANGED posted
    BY <1>6 DEF Enqueue
  <2>2. CASE Queues(consent)
    BY <1>6, <2>1, <2>2, PushKeeps DEF Enqueue
  <2>3. CASE ~ Queues(consent)
    BY <1>1, <1>6, <2>1, <2>3 DEF Enqueue
  <2>4. QED
    BY <2>2, <2>3
<1>7. CASE Check
  BY <1>1, <1>7 DEF Check, At, counters
<1>8. CASE Take
  BY <1>8, TakeKeepsQueue
<1>9. CASE Send
  BY <1>9 DEF Send, At, QueueInv, counters
<1>10. CASE Removed
  BY <1>10, RemovedKeeps
<1>11. CASE Relaunch
  BY <1>11, RelaunchKeepsQueue
<1>12. CASE UNCHANGED outboxVars
  BY <1>1, <1>12 DEF outboxVars
<1> QED
  BY <1>2, <1>3, <1>4, <1>5, <1>6, <1>7, <1>8, <1>9, <1>10, <1>11, <1>12 DEF OutboxNext

\* Whatever was queued, and neither dropped for its age or number nor purged nor
\* refused, was sent or is in the file: a crash in the middle of an append, a
\* send whose answer was lost and a full queue lose nothing else (Outbox::load,
\* push, remove).
THEOREM NothingQueuedIsLost == OutboxSpec => []QueueSurvives
<1>1. QueueInv => QueueSurvives
  BY DEF QueueInv, QueueSurvives
<1> QED
  BY <1>1, QueueStarts, QueueStep, PTL DEF OutboxSpec

-----------------------------------------------------------------------------
(* The counts of the day. *)

\* With sharing off the day is gone, or a message that makes it go is waiting
\* or about to be sent.
DayInv ==
  /\ inbox \in Seq(Facts \cup {CheckDay})
  /\ sharing = "off" =>
       telling \/ inbox # <<>> \/ (memory = NoDay /\ dayFile = NoDay /\ burst # "writes")

\* No day is counted before the settings are read.
LEMMA DayStarts == DayInit => DayInv
  BY DEF DayInit, DayInv

\* The recorder forgets the day with the first message it handles, and a save
\* that had begun is followed by one.
LEMMA DayStep == DayInv /\ [DayNext]_dayVars => DayInv'
<1> SUFFICES ASSUME DayInv, [DayNext]_dayVars
             PROVE  DayInv'
  OBVIOUS
<1>1. ASSUME NEW f \in Facts, Note(f)
      PROVE  DayInv'
  BY <1>1 DEF Note, DayInv
<1>2. CASE LoadConsent \/ Switch
  BY <1>2 DEF LoadConsent, Switch, Apply, Says, DayInv
<1>3. CASE Tell \/ Tick \/ ClockMoves
  BY <1>3 DEF Tell, Tick, ClockMoves, DayInv
<1>4. CASE Handle
  BY <1>4 DEF Handle, DayInv
<1>5. CASE BurstOver
  BY <1>5 DEF BurstOver, DayInv
<1>6. CASE SaveDay
  BY <1>6 DEF SaveDay, DayInv
<1>7. CASE EndAndRelaunch
  BY <1>7 DEF EndAndRelaunch, DayInv
<1>8. CASE UNCHANGED dayVars
  BY <1>8 DEF dayVars, DayInv
<1> QED
  BY <1>1, <1>2, <1>3, <1>4, <1>5, <1>6, <1>7, <1>8 DEF DayNext

\* Once sharing is off and the recorder has handled what it was sent, no day is
\* left in memory or on disk, wherever the switch fell in a save (drop_day).
THEOREM OffDropsTheDay == DaySpec => []OffForgetsTheDay
<1>1. DayInv => OffForgetsTheDay
  BY DEF DayInv, OffForgetsTheDay
<1> QED
  BY <1>1, DayStarts, DayStep, PTL DEF DaySpec

\* The summaries that a fact is in, and what a day holds.
TimesIn(ss, f) == Cardinality({i \in DOMAIN ss : f \in ss[i]})
HeldBy(d) == IF d = NoDay THEN {} ELSE d.counts
Live == IF memory # NoDay THEN HeldBy(memory) ELSE HeldBy(dayFile)

Days == [day : Nat, counts : SUBSET Facts]
TallyType ==
  /\ summaries \in Seq(SUBSET Facts) /\ inbox \in Seq(Facts \cup {CheckDay})
  /\ memory \in Days \cup {NoDay} /\ dayFile \in Days \cup {NoDay}
  /\ spoilt \in Nat /\ today \in Nat

\* The app sends a fact once, and before the recorder has it it is counted nowhere.
InboxInv ==
  /\ \A i, j \in 1 .. Len(inbox) : inbox[i] = inbox[j] /\ inbox[i] # CheckDay => i = j
  /\ \A i \in 1 .. Len(inbox) : inbox[i] \in Facts => inbox[i] \in noted

NotYet(f) == TimesIn(summaries, f) = 0 /\ f \notin HeldBy(memory) /\ f \notin HeldBy(dayFile)
FreshInv ==
  /\ \A f \in Facts : f \notin noted => NotYet(f)
  /\ \A f \in Facts, i \in 1 .. Len(inbox) : inbox[i] = f => NotYet(f)

\* A fact is in the summaries or in the day the recorder goes on with; the file
\* is behind by the burst that is under way.
CountInv ==
  /\ \A f \in Facts : TimesIn(summaries, f) \in Nat
  /\ \A f \in Facts : TimesIn(summaries, f) + One(f \in Live) <= 1 + spoilt
  /\ \A f \in Facts : TimesIn(summaries, f) + One(f \in HeldBy(dayFile))
                        <= 1 + spoilt + One(burst \in {"dirty", "writes"})
  /\ burst = "dirty" /\ memory = NoDay => dayFile = NoDay
  /\ burst = "writes" => memory # NoDay

TallyInv == TallyType /\ InboxInv /\ FreshInv /\ CountInv

\* A summary more.
LEMMA TimesOfAppend ==
  ASSUME NEW ss \in Seq(SUBSET Facts), NEW c \in SUBSET Facts, NEW f \in Facts
  PROVE  /\ TimesIn(ss, f) \in Nat
         /\ TimesIn(Append(ss, c), f) = TimesIn(ss, f) + One(f \in c)
<1> DEFINE Old == {i \in DOMAIN ss : f \in ss[i]}
           new == Append(ss, c)
           n == Len(ss) + 1
<1>1. /\ Len(ss) \in Nat /\ DOMAIN ss = 1 .. Len(ss)
      /\ new \in Seq(SUBSET Facts) /\ DOMAIN new = 1 .. n
      /\ new[n] = c /\ \A i \in 1 .. Len(ss) : new[i] = ss[i]
  BY AppendProperties, LenProperties
<1>2. IsFiniteSet(Old) /\ n \notin Old /\ n \in Nat
  <2>1. IsFiniteSet(1 .. Len(ss))
    BY <1>1, FS_Interval
  <2>2. QED
    BY <1>1, <2>1, FS_Subset
<1>3. {i \in DOMAIN new : f \in new[i]} = IF f \in c THEN Old \cup {n} ELSE Old
  <2>1. \A i \in 1 .. n : i \in 1 .. Len(ss) \/ i = n
    BY <1>1
  <2>2. \A i \in 1 .. Len(ss) : i \in 1 .. n
    BY <1>1
  <2>3. n \in 1 .. n
    BY <1>1
  <2> HIDE DEF new, n
  <2>4. QED
    BY <1>1, <2>1, <2>2, <2>3
<1>4. Cardinality(Old) \in Nat /\ Cardinality(Old \cup {n}) = Cardinality(Old) + 1
  <2> HIDE DEF Old, n
  <2>1. QED
    BY <1>2, FS_CardinalityType, FS_AddElement
<1>5. QED
  <2> HIDE DEF n
  <2>1. TimesIn(ss, f) = Cardinality(Old)
    BY DEF TimesIn
  <2>2. TimesIn(new, f) = Cardinality(IF f \in c THEN Old \cup {n} ELSE Old)
    BY <1>3 DEF TimesIn
  <2> HIDE DEF Old, new
  <2>3. QED
    <3>1. CASE f \in c
      BY <3>1, <2>1, <2>2, <1>4 DEF One, new
    <3>2. CASE f \notin c
      BY <3>2, <2>1, <2>2, <1>4 DEF One, new
    <3>3. QED
      BY <3>1, <3>2

\* What the recorder goes on with.
LEMMA LoadedDay ==
  ASSUME TallyType
  PROVE  /\ Loaded \in Days /\ Loaded # NoDay /\ Loaded.counts = Live
         /\ Rolled \in Days /\ Rolled # NoDay
         /\ Rolled.counts = IF Loaded.day = today THEN Live ELSE {}
         /\ Rolled = Loaded => Loaded.day = today
<1>1. FreshDay(today) \in Days /\ FreshDay(today).counts = {} /\ FreshDay(today).day = today
  BY DEF FreshDay, Days, TallyType
<1>2. \A d \in Days : d # NoDay
  BY DayAssumption DEF Days
<1>3. Loaded \in Days /\ Loaded.counts = Live
  <2>1. CASE memory # NoDay
    BY <2>1 DEF Loaded, Live, HeldBy, TallyType
  <2>2. CASE memory = NoDay
    BY <2>2, <1>1 DEF Loaded, Live, HeldBy, TallyType
  <2>3. QED
    BY <2>1, <2>2
<1>4. Rolled = IF Loaded.day = today THEN Loaded ELSE FreshDay(today)
  BY DEF Rolled
<1>5. QED
  BY <1>1, <1>2, <1>3, <1>4

\* A message that was taken leaves the others as they were.
LEMMA TakenMessage ==
  ASSUME TallyType, inbox # <<>>
  PROVE  /\ Head(inbox) \in Facts \cup {CheckDay} /\ Tail(inbox) \in Seq(Facts \cup {CheckDay})
         /\ InboxInv /\ inbox' = Tail(inbox) /\ noted' = noted
              => InboxInv' /\ \A i \in 1 .. Len(inbox') : inbox'[i] \in Facts => inbox'[i] # Head(inbox)
         /\ 1 \in 1 .. Len(inbox) /\ inbox[1] = Head(inbox)
         /\ \A i \in 1 .. Len(Tail(inbox)) : i + 1 \in 1 .. Len(inbox) /\ Tail(inbox)[i] = inbox[i + 1]
<1>1. /\ inbox \in Seq(Facts \cup {CheckDay}) /\ Len(inbox) \in Nat \ {0}
      /\ Head(inbox) = inbox[1] /\ Head(inbox) \in Facts \cup {CheckDay}
      /\ Tail(inbox) \in Seq(Facts \cup {CheckDay}) /\ Len(Tail(inbox)) = Len(inbox) - 1
      /\ \A i \in 1 .. Len(inbox) - 1 : Tail(inbox)[i] = inbox[i + 1]
  BY HeadTailProperties, EmptySeq, LenProperties DEF TallyType
<1>2. 1 \in 1 .. Len(inbox)
  BY <1>1
<1>3. \A i \in 1 .. Len(Tail(inbox)) : i + 1 \in 1 .. Len(inbox) /\ Tail(inbox)[i] = inbox[i + 1] /\ i + 1 # 1
  BY <1>1
<1>4. ASSUME InboxInv, inbox' = Tail(inbox), noted' = noted
      PROVE  InboxInv' /\ \A i \in 1 .. Len(inbox') : inbox'[i] \in Facts => inbox'[i] # Head(inbox)
  <2>1. ASSUME NEW i \in 1 .. Len(Tail(inbox)), NEW j \in 1 .. Len(Tail(inbox)),
               Tail(inbox)[i] = Tail(inbox)[j], Tail(inbox)[i] # CheckDay
        PROVE  i = j
    <3>1. i + 1 = j + 1
      BY <2>1, <1>3, <1>4 DEF InboxInv
    <3>2. QED
      BY <3>1
  <2>2. \A i \in 1 .. Len(Tail(inbox)) : Tail(inbox)[i] \in Facts => Tail(inbox)[i] \in noted
    BY <1>3, <1>4 DEF InboxInv
  <2>3. ASSUME NEW i \in 1 .. Len(Tail(inbox)), Tail(inbox)[i] \in Facts
        PROVE  Tail(inbox)[i] # Head(inbox)
    BY <2>3, <1>1, <1>2, <1>3, <1>4, DayAssumption DEF InboxInv
  <2>4. QED
    BY <2>1, <2>2, <2>3, <1>4 DEF InboxInv
<1>5. QED
  BY <1>1, <1>2, <1>3, <1>4

\* Sending: a fact is new.
LEMMA NoteKeeps ==
  ASSUME TallyInv, NEW f \in Facts, Note(f)
  PROVE  TallyInv'
<1>1. /\ f \notin noted /\ noted' = noted \cup {f} /\ inbox' = Append(inbox, f)
      /\ UNCHANGED <<summaries, memory, dayFile, spoilt, today, burst>>
  BY DEF Note
<1>2. /\ inbox \in Seq(Facts \cup {CheckDay}) /\ Len(inbox) \in Nat
      /\ inbox' \in Seq(Facts \cup {CheckDay}) /\ Len(inbox') = Len(inbox) + 1
      /\ inbox'[Len(inbox) + 1] = f
      /\ \A i \in 1 .. Len(inbox) : inbox'[i] = inbox[i]
  BY <1>1, AppendProperties, LenProperties DEF TallyInv, TallyType
<1>3. \A i \in 1 .. Len(inbox') : i \in 1 .. Len(inbox) \/ i = Len(inbox) + 1
  BY <1>2
<1>4. \A i \in 1 .. Len(inbox) : inbox[i] # f
  BY <1>1 DEF TallyInv, InboxInv
<1>5. InboxInv'
  <2>1. ASSUME NEW i \in 1 .. Len(inbox'), NEW j \in 1 .. Len(inbox'),
               inbox'[i] = inbox'[j], inbox'[i] # CheckDay
        PROVE  i = j
    BY <2>1, <1>2, <1>3, <1>4 DEF TallyInv, InboxInv
  <2>2. ASSUME NEW i \in 1 .. Len(inbox'), inbox'[i] \in Facts
        PROVE  inbox'[i] \in noted'
    BY <2>2, <1>1, <1>2, <1>3 DEF TallyInv, InboxInv
  <2>3. QED
    BY <2>1, <2>2 DEF InboxInv
<1>6. \A g \in Facts : NotYet(g)' <=> NotYet(g)
  BY <1>1 DEF NotYet, HeldBy
<1>7. FreshInv'
  <2>1. NotYet(f)
    BY <1>1 DEF TallyInv, FreshInv
  <2>2. ASSUME NEW g \in Facts, NEW i \in 1 .. Len(inbox'), inbox'[i] = g
        PROVE  NotYet(g)'
    BY <2>1, <2>2, <1>2, <1>3, <1>6 DEF TallyInv, FreshInv
  <2>3. ASSUME NEW g \in Facts, g \notin noted' PROVE NotYet(g)'
    BY <2>3, <1>1, <1>6 DEF TallyInv, FreshInv
  <2>4. QED
    BY <2>2, <2>3 DEF FreshInv
<1>8. QED
  BY <1>1, <1>2, <1>5, <1>7 DEF TallyInv, TallyType, CountInv, Live, HeldBy

\* ... and a look at the day is no fact.
LEMMA TellKeeps ==
  ASSUME TallyInv, inbox' = Append(inbox, CheckDay),
         UNCHANGED <<noted, summaries, memory, dayFile, spoilt, today, burst>>
  PROVE  TallyInv'
<1>1. /\ inbox \in Seq(Facts \cup {CheckDay}) /\ Len(inbox) \in Nat
      /\ inbox' \in Seq(Facts \cup {CheckDay}) /\ Len(inbox') = Len(inbox) + 1
      /\ inbox'[Len(inbox) + 1] = CheckDay
      /\ \A i \in 1 .. Len(inbox) : inbox'[i] = inbox[i]
  BY AppendProperties, LenProperties DEF TallyInv, TallyType
<1>2. \A i \in 1 .. Len(inbox') : i \in 1 .. Len(inbox) \/ i = Len(inbox) + 1
  BY <1>1
<1>3. InboxInv'
  <2>1. ASSUME NEW i \in 1 .. Len(inbox'), NEW j \in 1 .. Len(inbox'),
               inbox'[i] = inbox'[j], inbox'[i] # CheckDay
        PROVE  i = j
    BY <2>1, <1>1, <1>2 DEF TallyInv, InboxInv
  <2>2. ASSUME NEW i \in 1 .. Len(inbox'), inbox'[i] \in Facts
        PROVE  inbox'[i] \in noted'
    BY <2>2, <1>1, <1>2, DayAssumption DEF TallyInv, InboxInv
  <2>3. QED
    BY <2>1, <2>2 DEF InboxInv
<1>4. FreshInv'
  <2>1. ASSUME NEW g \in Facts, NEW i \in 1 .. Len(inbox'), inbox'[i] = g
        PROVE  NotYet(g)'
    <3>1. i \in 1 .. Len(inbox) /\ inbox[i] = g
      BY <2>1, <1>1, <1>2, DayAssumption
    <3>2. QED
      BY <3>1 DEF TallyInv, FreshInv, NotYet, HeldBy
  <2>2. ASSUME NEW g \in Facts, g \notin noted' PROVE NotYet(g)'
    BY <2>2 DEF TallyInv, FreshInv, NotYet, HeldBy
  <2>3. QED
    BY <2>1, <2>2 DEF FreshInv
<1>5. QED
  BY <1>1, <1>3, <1>4 DEF TallyInv, TallyType, CountInv, Live, HeldBy

\* Handling a message where the day is counted.
LEMMA CountKeeps ==
  ASSUME TallyInv, inbox # <<>>, inbox' = Tail(inbox), burst \in {"waits", "handles", "dirty"},
         summaries' = (IF Due THEN Append(summaries, Loaded.counts) ELSE summaries),
         memory' = (IF Head(inbox) = CheckDay THEN Rolled ELSE CountIn(Head(inbox))),
         burst' = (IF burst = "dirty" \/ memory' # Loaded THEN "dirty" ELSE "handles"),
         UNCHANGED <<noted, dayFile, spoilt, today>>
  PROVE  TallyInv'
<1> DEFINE m == Head(inbox)
           new == IF m = CheckDay THEN {} ELSE {m}
<1>1. /\ Loaded \in Days /\ Loaded # NoDay /\ Loaded.counts = Live
      /\ Rolled \in Days /\ Rolled # NoDay
      /\ Rolled.counts = IF Loaded.day = today THEN Live ELSE {}
      /\ Rolled = Loaded => Loaded.day = today
  BY LoadedDay DEF TallyInv
<1>2. /\ m \in Facts \cup {CheckDay} /\ inbox' \in Seq(Facts \cup {CheckDay}) /\ InboxInv'
      /\ \A i \in 1 .. Len(inbox') : inbox'[i] \in Facts => inbox'[i] # m
      /\ m \in Facts => NotYet(m) /\ m \in noted
      /\ \A f \in Facts, i \in 1 .. Len(inbox') : inbox'[i] = f => NotYet(f)
  BY TakenMessage DEF TallyInv, InboxInv, FreshInv
<1>3. memory' \in Days /\ memory' # NoDay /\ memory'.counts = Rolled.counts \cup new
  <2>1. CASE m = CheckDay
    BY <2>1, <1>1
  <2>2. CASE m # CheckDay
    <3>1. /\ CountIn(m) \in Days /\ CountIn(m).counts = Rolled.counts \cup {m}
          /\ \A d \in Days : d # NoDay
      BY <2>2, <1>1, <1>2, DayAssumption DEF CountIn, Days
    <3>2. QED
      BY <2>2, <3>1
  <2>3. QED
    BY <2>1, <2>2
<1>4. Live \in SUBSET Facts /\ summaries \in Seq(SUBSET Facts) /\ today \in Nat /\ spoilt \in Nat
  BY <1>1 DEF Days, TallyInv, TallyType
<1>5. ASSUME NEW f \in Facts
      PROVE  /\ TimesIn(summaries, f) \in Nat
             /\ TimesIn(summaries', f) = TimesIn(summaries, f) + One(Due /\ f \in Live)
  <2>1. TimesIn(summaries, f) \in Nat
        /\ TimesIn(Append(summaries, Live), f) = TimesIn(summaries, f) + One(f \in Live)
    BY <1>4, TimesOfAppend
  <2>2. CASE Due
    BY <2>1, <2>2, <1>1 DEF One
  <2>3. CASE ~ Due
    BY <2>1, <2>3 DEF One
  <2>4. QED
    BY <2>2, <2>3
<1>6. Due => Loaded.day # today /\ burst' = "dirty"
  <2>1. Due => Loaded.day # today
    BY <1>1, <1>4 DEF Due, Days
  <2>2. ASSUME Loaded.day # today PROVE memory' # Loaded
    <3>1. Rolled.day = today
      BY <2>2 DEF Rolled, FreshDay
    <3>2. memory'.day = today
      BY <3>1, <1>1 DEF CountIn, Days
    <3>3. QED
      BY <3>2, <2>2
  <2>3. QED
    BY <2>1, <2>2
<1>7. Live' = memory'.counts
  BY <1>3 DEF Live, HeldBy
<1>8. ASSUME NEW f \in Facts, f \in noted => f # m, NotYet(f) PROVE NotYet(f)'
  <2>1. f # m
    BY <1>2, <1>8
  <2>2. f \notin Live
    BY <1>8 DEF NotYet, Live
  <2>3. f \notin HeldBy(memory') /\ HeldBy(dayFile') = HeldBy(dayFile)
    BY <2>1, <2>2, <1>1, <1>3 DEF HeldBy
  <2>4. TimesIn(summaries', f) = 0
    BY <2>2, <1>5, <1>8 DEF NotYet, One
  <2>5. QED
    BY <2>3, <2>4, <1>8 DEF NotYet, HeldBy
<1>9. FreshInv'
  <2>1. ASSUME NEW f \in Facts, f \notin noted' PROVE NotYet(f)'
    BY <2>1, <1>8 DEF TallyInv, FreshInv
  <2>2. ASSUME NEW f \in Facts, NEW i \in 1 .. Len(inbox'), inbox'[i] = f PROVE NotYet(f)'
    <3>1. f # m /\ NotYet(f)
      BY <2>2, <1>2
    <3>2. QED
      BY <3>1, <1>8
  <2>3. QED
    BY <2>1, <2>2 DEF FreshInv
<1>10. ASSUME NEW f \in Facts
       PROVE  /\ TimesIn(summaries', f) \in Nat
              /\ TimesIn(summaries', f) + One(f \in Live') <= 1 + spoilt
              /\ TimesIn(summaries', f) + One(f \in HeldBy(dayFile))
                   <= 1 + spoilt + One(burst' \in {"dirty", "writes"})
  <2> DEFINE t == TimesIn(summaries, f)
  <2>1. /\ t \in Nat /\ t + One(f \in Live) <= 1 + spoilt
        /\ t + One(f \in HeldBy(dayFile)) <= 1 + spoilt + One(burst \in {"dirty", "writes"})
        /\ TimesIn(summaries', f) = t + One(Due /\ f \in Live)
    BY <1>5 DEF TallyInv, CountInv
  <2>2. f = m => t = 0 /\ f \notin Live
    BY <1>2 DEF NotYet, Live
  <2>3. f \in Live' => f = m \/ (f \in Live /\ ~ Due)
    BY <1>1, <1>3, <1>6, <1>7
  <2>4. burst = "dirty" => burst' = "dirty"
    OBVIOUS
  <2> HIDE DEF t
  <2>5. TimesIn(summaries', f) \in Nat
    BY <2>1 DEF One
  <2>6. TimesIn(summaries', f) + One(f \in Live') <= 1 + spoilt
    BY <2>1, <2>2, <2>3, <1>4 DEF One
  <2>7. TimesIn(summaries', f) + One(f \in HeldBy(dayFile))
          <= 1 + spoilt + One(burst' \in {"dirty", "writes"})
    BY <2>1, <2>4, <1>4, <1>6 DEF One
  <2>8. QED
    BY <2>5, <2>6, <2>7
<1>11. CountInv'
  <2>1. /\ burst' = "dirty" /\ memory' = NoDay => dayFile' = NoDay
        /\ burst' = "writes" => memory' # NoDay
    BY <1>3
  <2>2. HeldBy(dayFile)' = HeldBy(dayFile) /\ spoilt' = spoilt
    BY DEF HeldBy
  <2>3. QED
    BY <1>10, <2>1, <2>2 DEF CountInv, TimesIn
<1>12. TallyType'
  <2>1. summaries' \in Seq(SUBSET Facts)
    BY <1>1, <1>4, AppendProperties
  <2>2. QED
    BY <2>1, <1>2, <1>3 DEF TallyInv, TallyType
<1>13. QED
  BY <1>2, <1>9, <1>11, <1>12 DEF TallyInv

\* The recorder takes a message: it waits for the consent, forgets, or counts.
LEMMA HandleKeeps ==
  ASSUME TallyInv, Handle
  PROVE  TallyInv'
<1>1. /\ inbox # <<>> /\ inbox' = Tail(inbox) /\ burst \in {"waits", "handles", "dirty"}
      /\ UNCHANGED <<noted, spoilt, today>>
  BY DEF Handle
<1>2. /\ inbox' \in Seq(Facts \cup {CheckDay}) /\ InboxInv'
      /\ \A f \in Facts, i \in 1 .. Len(inbox') : inbox'[i] = f => NotYet(f)
  BY <1>1, TakenMessage DEF TallyInv, FreshInv
<1>3. CASE sharing = "unknown"
  <2>1. UNCHANGED <<memory, dayFile, summaries>>
        /\ burst' = (IF burst = "dirty" THEN "dirty" ELSE "handles")
    BY <1>3 DEF Handle
  <2>2. FreshInv'
    BY <2>1, <1>1, <1>2 DEF TallyInv, FreshInv, NotYet, HeldBy
  <2>3. CountInv'
    BY <2>1, <1>1 DEF TallyInv, CountInv, Live, HeldBy
  <2>4. QED
    BY <1>1, <1>2, <2>1, <2>2, <2>3 DEF TallyInv, TallyType
<1>4. CASE sharing = "off"
  <2>1. memory' = NoDay /\ dayFile' = NoDay /\ UNCHANGED summaries
        /\ burst' = (IF burst = "dirty" THEN "dirty" ELSE "handles")
    BY <1>4 DEF Handle
  <2>2. FreshInv'
    BY <2>1, <1>1, <1>2 DEF TallyInv, FreshInv, NotYet, HeldBy
  <2>3. CountInv'
    <3>1. ASSUME NEW f \in Facts
          PROVE  TimesIn(summaries, f) \in Nat /\ TimesIn(summaries, f) <= 1 + spoilt /\ spoilt \in Nat
      BY DEF TallyInv, CountInv, TallyType, One
    <3>2. HeldBy(dayFile') = {} /\ Live' = {}
      BY <2>1 DEF HeldBy, Live
    <3>3. burst' # "writes"
      BY <2>1
    <3>4. QED
      BY <2>1, <3>1, <3>2, <3>3, <1>1 DEF CountInv, One, HeldBy
  <2>4. QED
    BY <1>1, <1>2, <2>1, <2>2, <2>3 DEF TallyInv, TallyType
<1>5. CASE sharing \notin {"unknown", "off"}
  BY <1>1, <1>5, CountKeeps DEF Handle
<1>6. QED
  BY <1>3, <1>4, <1>5

\* A burst ends: what it changed is to be written, or is spoilt.
LEMMA BurstKeeps ==
  ASSUME TallyInv, BurstOver
  PROVE  TallyInv'
<1> DEFINE owes == burst = "dirty" /\ memory # NoDay
<1>1. /\ burst \in {"handles", "dirty"}
      /\ burst' = IF owes /\ sharing = "on" THEN "writes" ELSE "waits"
      /\ spoilt' = IF owes /\ sharing # "on" THEN spoilt + 1 ELSE spoilt
      /\ UNCHANGED <<today, inbox, noted, memory, dayFile, summaries>>
  BY DEF BurstOver
<1>2. TallyType' /\ InboxInv' /\ FreshInv'
  BY <1>1 DEF TallyInv, TallyType, InboxInv, FreshInv, NotYet, HeldBy
<1>3. ASSUME NEW f \in Facts
      PROVE  /\ TimesIn(summaries, f) \in Nat
             /\ TimesIn(summaries, f) + One(f \in Live) <= 1 + spoilt'
             /\ TimesIn(summaries, f) + One(f \in HeldBy(dayFile))
                  <= 1 + spoilt' + One(burst' \in {"dirty", "writes"})
  <2>1. /\ TimesIn(summaries, f) \in Nat /\ spoilt \in Nat
        /\ TimesIn(summaries, f) + One(f \in Live) <= 1 + spoilt
        /\ TimesIn(summaries, f) + One(f \in HeldBy(dayFile))
             <= 1 + spoilt + One(burst \in {"dirty", "writes"})
        /\ burst = "dirty" /\ memory = NoDay => HeldBy(dayFile) = {}
    BY DEF TallyInv, CountInv, TallyType, HeldBy
  <2>2. CASE owes
    BY <2>1, <2>2, <1>1 DEF One
  <2>3. CASE ~ owes
    BY <2>1, <2>3, <1>1 DEF One
  <2>4. QED
    BY <2>2, <2>3
<1>4. CountInv'
  BY <1>1, <1>3 DEF CountInv, Live, HeldBy
<1>5. QED
  BY <1>2, <1>4 DEF TallyInv

\* Saving: the file has the day again, or stays behind for good.
LEMMA SaveDayKeeps ==
  ASSUME TallyInv, SaveDay
  PROVE  TallyInv'
<1>1. /\ burst = "writes" /\ burst' = "waits" /\ memory # NoDay
      /\ UNCHANGED <<today, inbox, noted, memory, summaries>>
      /\ \/ dayFile' = memory /\ UNCHANGED spoilt
         \/ spoilt' = spoilt + 1 /\ UNCHANGED dayFile
  BY DEF SaveDay, TallyInv, CountInv
<1>2. TallyType' /\ InboxInv'
  BY <1>1 DEF TallyInv, TallyType, InboxInv
<1>3. FreshInv'
  BY <1>1 DEF TallyInv, FreshInv, NotYet, HeldBy
<1>4. ASSUME NEW f \in Facts
      PROVE  /\ TimesIn(summaries, f) \in Nat
             /\ TimesIn(summaries, f) + One(f \in Live') <= 1 + spoilt'
             /\ TimesIn(summaries, f) + One(f \in HeldBy(dayFile')) <= 1 + spoilt'
  <2>1. /\ TimesIn(summaries, f) \in Nat /\ spoilt \in Nat
        /\ TimesIn(summaries, f) + One(f \in Live) <= 1 + spoilt
        /\ TimesIn(summaries, f) + One(f \in HeldBy(dayFile)) <= 1 + spoilt + 1
    BY <1>1 DEF TallyInv, CountInv, TallyType, One
  <2>2. Live = HeldBy(memory) /\ Live' = HeldBy(memory)
    BY <1>1 DEF Live, HeldBy
  <2>3. CASE dayFile' = memory /\ spoilt' = spoilt
    <3>1. HeldBy(dayFile') = HeldBy(memory)
      BY <2>3
    <3>2. QED
      BY <2>1, <2>2, <2>3, <3>1 DEF One
  <2>4. CASE spoilt' = spoilt + 1 /\ dayFile' = dayFile
    BY <2>1, <2>2, <2>4 DEF One
  <2>5. QED
    BY <2>3, <2>4, <1>1
<1>5. CountInv'
  <2>1. spoilt' \in Nat
    BY <1>2 DEF TallyType
  <2>2. QED
    BY <2>1, <1>1, <1>4 DEF CountInv, HeldBy, One
<1>6. QED
  BY <1>2, <1>3, <1>5 DEF TallyInv

\* A launch goes on from the file.
LEMMA RelaunchKeepsTally ==
  ASSUME TallyInv, EndAndRelaunch
  PROVE  TallyInv'
<1>1. /\ inbox' = <<>> /\ memory' = NoDay /\ burst' = "waits"
      /\ spoilt' = IF burst \in {"dirty", "writes"} THEN spoilt + 1 ELSE spoilt
      /\ UNCHANGED <<today, noted, dayFile, summaries>>
  BY DEF EndAndRelaunch
<1>2. <<>> \in Seq(Facts \cup {CheckDay}) /\ Len(<<>>) = 0
  OBVIOUS
<1>3. TallyType' /\ InboxInv'
  BY <1>1, <1>2 DEF TallyInv, TallyType, InboxInv
<1>4. FreshInv'
  BY <1>1, <1>2 DEF TallyInv, FreshInv, NotYet, HeldBy
<1>5. ASSUME NEW f \in Facts
      PROVE  /\ TimesIn(summaries, f) \in Nat
             /\ TimesIn(summaries, f) + One(f \in HeldBy(dayFile)) <= 1 + spoilt'
  <2>1. /\ TimesIn(summaries, f) \in Nat /\ spoilt \in Nat
        /\ TimesIn(summaries, f) + One(f \in HeldBy(dayFile))
             <= 1 + spoilt + One(burst \in {"dirty", "writes"})
    BY DEF TallyInv, CountInv, TallyType
  <2>2. QED
    BY <2>1, <1>1 DEF One
<1>6. CountInv'
  <2>1. Live' = HeldBy(dayFile) /\ HeldBy(dayFile') = HeldBy(dayFile)
    BY <1>1 DEF Live, HeldBy
  <2>2. QED
    BY <1>1, <1>5, <2>1 DEF CountInv, One, HeldBy, TallyInv, TallyType
<1>7. QED
  BY <1>3, <1>4, <1>6 DEF TallyInv

\* The recorder starts with nothing counted.
LEMMA TallyStarts == DayInit => TallyInv
<1> SUFFICES ASSUME DayInit PROVE TallyInv
  OBVIOUS
<1>1. <<>> \in Seq(SUBSET Facts) /\ <<>> \in Seq(Facts \cup {CheckDay}) /\ Len(<<>>) = 0
  OBVIOUS
<1>2. \A f : TimesIn(<<>>, f) = 0
  BY FS_EmptySet DEF TimesIn
<1>3. HeldBy(NoDay) = {} /\ Live = {}
  BY DEF HeldBy, Live, DayInit
<1>4. QED
  BY <1>1, <1>2, <1>3 DEF DayInit, TallyInv, TallyType, InboxInv, FreshInv, CountInv, NotYet, One

\* Every step keeps each fact in one place.
LEMMA TallyStep == TallyInv /\ [DayNext]_dayVars => TallyInv'
<1> SUFFICES ASSUME TallyInv, [DayNext]_dayVars
             PROVE  TallyInv'
  OBVIOUS
<1>1. CASE UNCHANGED <<inbox, noted, memory, dayFile, burst, summaries, spoilt, today>>
  BY <1>1 DEF TallyInv, TallyType, InboxInv, FreshInv, CountInv, NotYet, HeldBy, Live
<1>2. CASE \E f \in Facts : Note(f)
  BY <1>2, NoteKeeps
<1>3. CASE LoadConsent
  BY <1>1, <1>3 DEF LoadConsent
<1>4. CASE Switch
  BY <1>1, <1>4 DEF Switch
<1>5. CASE Tell
  BY <1>5, TellKeeps DEF Tell
<1>6. CASE Tick
  <2>1. inbox' = Append(inbox, CheckDay)
    BY <1>6 DEF Tick
  <2>2. QED
    BY <1>6, <2>1, TellKeeps DEF Tick
<1>7. CASE ClockMoves
  <2>1. today' \in Nat
    BY <1>7, DayAssumption DEF ClockMoves
  <2>2. UNCHANGED <<inbox, noted, memory, dayFile, burst, summaries, spoilt>>
    BY <1>7 DEF ClockMoves
  <2>3. QED
    BY <2>1, <2>2 DEF TallyInv, TallyType, InboxInv, FreshInv, CountInv, NotYet, HeldBy, Live
<1>8. CASE Handle
  BY <1>8, HandleKeeps
<1>9. CASE BurstOver
  BY <1>9, BurstKeeps
<1>10. CASE SaveDay
  BY <1>10, SaveDayKeeps
<1>11. CASE EndAndRelaunch
  BY <1>11, RelaunchKeepsTally
<1>12. CASE UNCHANGED dayVars
  BY <1>1, <1>12 DEF dayVars
<1> QED
  BY <1>2, <1>3, <1>4, <1>5, <1>6, <1>7, <1>8, <1>9, <1>10, <1>11, <1>12 DEF DayNext

\* A dictation is in one summary at most, and in one more for each change of the
\* day that did not reach its file, wherever midnight, a clock that is set back,
\* a switch of sharing or a restart falls (roll_over, drop_day, save).
THEOREM NoFactCountsTwice == DaySpec => []CountedOnce
<1>1. TallyInv => CountedOnce
  <2> SUFFICES ASSUME TallyInv, NEW f \in Facts PROVE TimesIn(summaries, f) <= 1 + spoilt
    BY DEF CountedOnce, TimesIn
  <2>1. TimesIn(summaries, f) \in Nat /\ spoilt \in Nat
        /\ TimesIn(summaries, f) + One(f \in Live) <= 1 + spoilt
    BY DEF TallyInv, TallyType, CountInv
  <2>2. QED
    BY <2>1 DEF One
<1> QED
  BY <1>1, TallyStarts, TallyStep, PTL DEF DaySpec

-----------------------------------------------------------------------------
(* What a start says of the run before it. *)

MarkerType ==
  /\ file \in Marks \cup {NoFile}
  /\ state \in [file : Marks, closed : BOOLEAN]
  /\ mpc \in [Threads -> {"idle", "lock", "copy", "save", "gone", "over"}]
  /\ copy \in [Threads -> Marks \cup {NoFile}]
  /\ boot \in Nat /\ version \in Nat
  /\ update \in {"no", "kept", "met"}

\* WRITE is whose turn it is to copy or save; the exit has closed the run, and
\* does not save.
TurnInv ==
  /\ \A t \in Threads : mpc[t] \in {"copy", "save"} => write = t
  /\ state.closed <=> mpc["exit"] # "idle"
  /\ mpc["exit"] \in {"idle", "lock", "copy", "over"}
  /\ mpc["updater"] \in {"idle", "lock", "copy", "save"}

\* What is on disk, or on its way there, is this run's.
Mine(f) ==
  /\ f \in Marks /\ f.boot = boot /\ f.version = version
  /\ f.panicked => state.file.panicked

MineInv ==
  /\ Mine(state.file)
  /\ file # NoFile => Mine(file)
  /\ \A t \in Threads : mpc[t] = "save" => Mine(copy[t])
  /\ mpc["exit"] # "over" => file # NoFile

Marked(f) == f.phase = "Updating"

\* Between two commands of the updater the file agrees with the run about an
\* update; after the exit closed the run it agrees with what the exit saw.
UpdateInv ==
  /\ ~ state.closed /\ mpc["updater"] = "idle" => (Marked(file) <=> Marked(state.file))
  /\ ~ state.closed /\ mpc["updater"] \in {"idle", "save"} =>
       \A t \in Threads : mpc[t] = "save" => (Marked(copy[t]) <=> Marked(state.file))
  /\ state.closed /\ update = "no" =>
       /\ file # NoFile => ~ Marked(file)
       /\ \A t \in Threads : mpc[t] = "save" => ~ Marked(copy[t])
       /\ mpc["exit"] = "over" => file = NoFile /\ \A t \in Threads : mpc[t] # "save"
  /\ state.closed /\ update = "kept" =>
       /\ mpc["exit"] = "over" /\ file # NoFile /\ Marked(file)
       /\ \A t \in Threads : mpc[t] = "save" => Marked(copy[t])

MarkerInv == MarkerType /\ TurnInv /\ MineInv /\ UpdateInv /\ VerdictIsTrue

\* One thread moves at a time.
LEMMA StepMoves ==
  ASSUME MarkerType, NEW t \in Threads, NEW p, NEW q, Step(t, p, q)
  PROVE  mpc[t] = p /\ mpc'[t] = q /\ \A u \in Threads \ {t} : mpc'[u] = mpc[u]
  BY DEF MarkerType, Step

\* A change of phase that is no mark leaves the marks.
LEMMA PhaseKeeps ==
  ASSUME MarkerInv, NEW p \in {"Idle", "Dictating"}, SetPhase(p)
  PROVE  MarkerInv'
<1>1. /\ ~ state.closed /\ UNCHANGED <<file, write, mpc, copy, boot, version, update>>
      /\ state.file.phase # "Updating" /\ state' = [state EXCEPT !.file.phase = p]
      /\ MarkerType /\ TurnInv /\ MineInv /\ UpdateInv
  BY DEF MarkerInv, SetPhase, world
<1>2. /\ state' \in [file : Marks, closed : BOOLEAN] /\ state'.closed = state.closed
      /\ state'.file.phase = p /\ state'.file.panicked = state.file.panicked
      /\ state'.file.boot = state.file.boot /\ state'.file.version = state.file.version
      /\ state'.file \in Marks
  BY <1>1 DEF MarkerType, Marks
<1>3. MarkerType' /\ TurnInv'
  BY <1>1, <1>2 DEF MarkerType, TurnInv
<1>4. MineInv'
  BY <1>1, <1>2 DEF MineInv, Mine
<1>5. UpdateInv'
  BY <1>1, <1>2 DEF UpdateInv, Marked
<1>6. VerdictIsTrue'
  BY DEF MarkerInv, SetPhase, world, VerdictIsTrue
<1> QED
  BY <1>3, <1>4, <1>5, <1>6 DEF MarkerInv

\* A thread that sets out to write has touched nothing yet.
LEMMA SetOutKeeps ==
  ASSUME MarkerInv, Beat \/ Panic \/ HookGivesUp
  PROVE  MarkerInv'
<1>1. /\ MarkerType /\ TurnInv /\ MineInv /\ UpdateInv
      /\ UNCHANGED <<file, state, write, copy, boot, version, update>>
  BY DEF MarkerInv, Beat, Panic, HookGivesUp, world
<1>2. PICK t \in {"heartbeat", "hook"}, q \in {"idle", "lock", "gone"} :
        mpc' = [mpc EXCEPT ![t] = q]
  BY DEF Beat, Panic, HookGivesUp, Step
<1>3. mpc'[t] = q /\ \A u \in Threads \ {t} : mpc'[u] = mpc[u]
  BY <1>1, <1>2 DEF MarkerType, Threads
<1>4. MarkerType' /\ TurnInv'
  BY <1>1, <1>2, <1>3 DEF MarkerType, TurnInv, Threads
<1>5. MineInv'
  BY <1>1, <1>3 DEF MineInv, Mine, Threads
<1>6. UpdateInv'
  BY <1>1, <1>3 DEF UpdateInv, Threads
<1>7. VerdictIsTrue'
  BY DEF MarkerInv, Beat, Panic, HookGivesUp, world, VerdictIsTrue
<1> QED
  BY <1>4, <1>5, <1>6, <1>7 DEF MarkerInv

\* The updater changes the mark, and is not done until it wrote it.
LEMMA MarkKeeps ==
  ASSUME MarkerInv, MarkUpdate \/ ClearUpdate
  PROVE  MarkerInv'
<1>1. /\ MarkerType /\ TurnInv /\ MineInv /\ UpdateInv
      /\ UNCHANGED <<file, write, copy, boot, version, update>>
      /\ Step("updater", "idle", "lock")
  BY DEF MarkerInv, MarkUpdate, ClearUpdate, world
<1>2. PICK p \in {"Updating", "Idle"} : state' = [state EXCEPT !.file.phase = p]
  BY DEF MarkUpdate, ClearUpdate
<1>3. /\ mpc'["updater"] = "lock" /\ \A u \in Threads \ {"updater"} : mpc'[u] = mpc[u]
      /\ mpc' \in [Threads -> {"idle", "lock", "copy", "save", "gone", "over"}]
  BY <1>1 DEF MarkerType, Step, Threads
<1>4. /\ state' \in [file : Marks, closed : BOOLEAN] /\ state'.closed = state.closed
      /\ state'.file.panicked = state.file.panicked
      /\ state'.file.boot = state.file.boot /\ state'.file.version = state.file.version
      /\ state'.file \in Marks
  BY <1>1, <1>2 DEF MarkerType, Marks
<1>5. MarkerType' /\ TurnInv'
  BY <1>1, <1>3, <1>4 DEF MarkerType, TurnInv, Threads
<1>6. MineInv'
  BY <1>1, <1>3, <1>4 DEF MineInv, Mine, Threads
<1>7. UpdateInv'
  BY <1>1, <1>3, <1>4 DEF UpdateInv, Threads
<1>8. VerdictIsTrue'
  BY DEF MarkerInv, MarkUpdate, ClearUpdate, world, VerdictIsTrue
<1> QED
  BY <1>5, <1>6, <1>7, <1>8 DEF MarkerInv

\* WRITE goes to one thread.
LEMMA LockKeeps ==
  ASSUME MarkerInv, NEW t \in Threads, Lock(t)
  PROVE  MarkerInv'
<1>1. /\ MarkerType /\ TurnInv /\ MineInv /\ UpdateInv
      /\ UNCHANGED <<file, state, copy, boot, version, update>>
      /\ Step(t, "lock", "copy") /\ write = "free" /\ write' = t
  BY DEF MarkerInv, Lock, world
<1>2. /\ mpc[t] = "lock" /\ mpc'[t] = "copy" /\ \A u \in Threads \ {t} : mpc'[u] = mpc[u]
      /\ mpc' \in [Threads -> {"idle", "lock", "copy", "save", "gone", "over"}]
  BY <1>1 DEF MarkerType, Step
<1>3. \A u \in Threads : mpc[u] \notin {"copy", "save"}
  BY <1>1 DEF TurnInv, Threads
<1>4. MarkerType'
  BY <1>1, <1>2 DEF MarkerType
<1>5. TurnInv'
  BY <1>1, <1>2, <1>3 DEF TurnInv, Threads
<1>6. MineInv'
  BY <1>1, <1>2 DEF MineInv, Mine, Threads
<1>7. UpdateInv'
  BY <1>1, <1>2, <1>3 DEF UpdateInv, Threads
<1>8. VerdictIsTrue'
  BY DEF MarkerInv, Lock, world, VerdictIsTrue
<1> QED
  BY <1>4, <1>5, <1>6, <1>7, <1>8 DEF MarkerInv

\* A thread copies the run as it is, or finds it closed.
LEMMA CopyKeeps ==
  ASSUME MarkerInv, NEW t \in {"heartbeat", "updater"}, Copy(t)
  PROVE  MarkerInv'
<1>1. /\ MarkerType /\ TurnInv /\ MineInv /\ UpdateInv /\ t \in Threads
      /\ UNCHANGED <<file, state, boot, version, update>>
  BY DEF MarkerInv, Copy, world, Threads
<1>2. VerdictIsTrue'
  BY DEF MarkerInv, Copy, world, VerdictIsTrue
<1>3. CASE state.closed
  <2>1. Step(t, "copy", "idle") /\ write' = "free" /\ copy' = copy
    BY <1>3 DEF Copy
  <2>2. /\ mpc[t] = "copy" /\ mpc'[t] = "idle" /\ \A u \in Threads \ {t} : mpc'[u] = mpc[u]
        /\ mpc' \in [Threads -> {"idle", "lock", "copy", "save", "gone", "over"}]
    BY <1>1, <2>1 DEF MarkerType, Step
  <2>3. MarkerType' /\ TurnInv'
    BY <1>1, <2>1, <2>2 DEF MarkerType, TurnInv, Threads
  <2>4. MineInv'
    BY <1>1, <2>1, <2>2 DEF MineInv, Mine, Threads
  <2>5. UpdateInv'
    BY <1>1, <1>3, <2>1, <2>2 DEF UpdateInv, Threads
  <2> QED
    BY <1>2, <2>3, <2>4, <2>5 DEF MarkerInv
<1>4. CASE ~ state.closed
  <2>1. Step(t, "copy", "save") /\ write' = write /\ copy' = [copy EXCEPT ![t] = state.file]
    BY <1>4 DEF Copy
  <2>2. /\ mpc[t] = "copy" /\ mpc'[t] = "save" /\ \A u \in Threads \ {t} : mpc'[u] = mpc[u]
        /\ mpc' \in [Threads -> {"idle", "lock", "copy", "save", "gone", "over"}]
        /\ copy'[t] = state.file /\ \A u \in Threads \ {t} : copy'[u] = copy[u]
        /\ copy' \in [Threads -> Marks \cup {NoFile}]
    BY <1>1, <2>1 DEF MarkerType, Step
  <2>3. \A u \in Threads \ {t} : mpc[u] \notin {"copy", "save"}
    BY <1>1, <2>2 DEF TurnInv
  <2>4. MarkerType' /\ TurnInv'
    BY <1>1, <2>1, <2>2 DEF MarkerType, TurnInv, Threads
  <2>5. MineInv'
    BY <1>1, <2>2 DEF MineInv, Mine, Threads
  <2>6. UpdateInv'
    BY <1>1, <1>4, <2>2, <2>3 DEF UpdateInv, Threads
  <2> QED
    BY <1>2, <2>4, <2>5, <2>6 DEF MarkerInv
<1> QED
  BY <1>3, <1>4

\* The hook marks the panic, and copies the run with it.
LEMMA PanicKeeps ==
  ASSUME MarkerInv, MarkPanicked
  PROVE  MarkerInv'
<1>1. /\ MarkerType /\ TurnInv /\ MineInv /\ UpdateInv /\ "hook" \in Threads
      /\ UNCHANGED <<file, boot, version, update>>
  BY DEF MarkerInv, MarkPanicked, world, Threads
<1>2. VerdictIsTrue'
  BY DEF MarkerInv, MarkPanicked, world, VerdictIsTrue
<1>3. CASE state.closed \/ state.file.panicked
  <2>1. Step("hook", "copy", "idle") /\ write' = "free" /\ UNCHANGED <<state, copy>>
    BY <1>3 DEF MarkPanicked
  <2>2. /\ mpc["hook"] = "copy" /\ mpc'["hook"] = "idle"
        /\ \A u \in Threads \ {"hook"} : mpc'[u] = mpc[u]
        /\ mpc' \in [Threads -> {"idle", "lock", "copy", "save", "gone", "over"}]
    BY <1>1, <2>1 DEF MarkerType, Step
  <2>3. MarkerType' /\ TurnInv'
    BY <1>1, <2>1, <2>2 DEF MarkerType, TurnInv, Threads
  <2>4. MineInv'
    BY <1>1, <2>1, <2>2 DEF MineInv, Mine, Threads
  <2>5. UpdateInv'
    BY <1>1, <2>1, <2>2 DEF UpdateInv, Threads
  <2> QED
    BY <1>2, <2>3, <2>4, <2>5 DEF MarkerInv
<1>4. CASE ~ (state.closed \/ state.file.panicked)
  <2>1. /\ Step("hook", "copy", "save") /\ write' = write
        /\ state' = [state EXCEPT !.file.panicked = TRUE]
        /\ copy' = [copy EXCEPT !["hook"] = state'.file]
    BY <1>4 DEF MarkPanicked
  <2>2. /\ state' \in [file : Marks, closed : BOOLEAN] /\ state'.closed = state.closed
        /\ state'.file.panicked /\ state'.file.phase = state.file.phase
        /\ state'.file.boot = state.file.boot /\ state'.file.version = state.file.version
        /\ state'.file \in Marks
    BY <1>1, <2>1 DEF MarkerType, Marks
  <2>3. /\ mpc["hook"] = "copy" /\ mpc'["hook"] = "save"
        /\ \A u \in Threads \ {"hook"} : mpc'[u] = mpc[u] /\ copy'[u] = copy[u]
        /\ mpc' \in [Threads -> {"idle", "lock", "copy", "save", "gone", "over"}]
        /\ copy'["hook"] = state'.file
        /\ copy' \in [Threads -> Marks \cup {NoFile}]
    BY <1>1, <2>1, <2>2 DEF MarkerType, Step
  <2>4. \A u \in Threads \ {"hook"} : mpc[u] \notin {"copy", "save"}
    BY <1>1, <2>3 DEF TurnInv
  <2>5. MarkerType' /\ TurnInv'
    BY <1>1, <2>1, <2>2, <2>3 DEF MarkerType, TurnInv, Threads
  <2>6. MineInv'
    BY <1>1, <2>2, <2>3 DEF MineInv, Mine, Threads
  <2>7. UpdateInv'
    BY <1>1, <1>4, <2>2, <2>3, <2>4 DEF UpdateInv, Threads, Marked
  <2> QED
    BY <1>2, <2>5, <2>6, <2>7 DEF MarkerInv
<1> QED
  BY <1>3, <1>4

\* A save puts on disk what was copied.
LEMMA SaveKeeps ==
  ASSUME MarkerInv, NEW t \in Threads, Save(t)
  PROVE  MarkerInv'
<1>1. /\ MarkerType /\ TurnInv /\ MineInv /\ UpdateInv
      /\ UNCHANGED <<state, boot, version, update>>
      /\ Step(t, "save", "idle") /\ file' = copy[t] /\ write' = "free"
      /\ copy' = [copy EXCEPT ![t] = NoFile]
  BY DEF MarkerInv, Save, world
<1>2. /\ mpc[t] = "save" /\ mpc'[t] = "idle" /\ \A u \in Threads \ {t} : mpc'[u] = mpc[u]
      /\ \A u \in Threads \ {t} : copy'[u] = copy[u]
      /\ mpc' \in [Threads -> {"idle", "lock", "copy", "save", "gone", "over"}]
      /\ copy' \in [Threads -> Marks \cup {NoFile}]
  BY <1>1 DEF MarkerType, Step
<1>3. /\ \A u \in Threads \ {t} : mpc[u] \notin {"copy", "save"}
      /\ t # "exit"
  BY <1>1, <1>2 DEF TurnInv
<1>4. Mine(file') /\ file' \in Marks /\ file' # NoFile
  BY <1>1, <1>2, NoFileAssumption DEF MineInv, Mine
<1>5. MarkerType' /\ TurnInv'
  BY <1>1, <1>2, <1>3, <1>4 DEF MarkerType, TurnInv, Threads
<1>6. MineInv'
  BY <1>1, <1>2, <1>3, <1>4 DEF MineInv, Mine, Threads
<1>7. UpdateInv'
  BY <1>1, <1>2, <1>3, <1>4 DEF UpdateInv, Threads
<1>8. VerdictIsTrue'
  BY DEF MarkerInv, Save, world, VerdictIsTrue
<1> QED
  BY <1>5, <1>6, <1>7, <1>8 DEF MarkerInv

\* The exit closes the run: from here on nothing new is copied.
LEMMA CloseKeeps ==
  ASSUME MarkerInv, Close
  PROVE  MarkerInv'
<1>1. /\ MarkerType /\ TurnInv /\ MineInv /\ UpdateInv /\ "exit" \in Threads
      /\ UNCHANGED <<file, write, copy, boot, version>>
      /\ Step("exit", "idle", IF Marked(state.file) THEN "over" ELSE "lock")
      /\ state' = [state EXCEPT !.closed = TRUE] /\ update' = UpdateNow
  BY DEF MarkerInv, Close, Marked, Threads
<1>2. /\ mpc["exit"] = "idle"
      /\ mpc'["exit"] = IF Marked(state.file) THEN "over" ELSE "lock"
      /\ \A u \in Threads \ {"exit"} : mpc'[u] = mpc[u]
      /\ mpc' \in [Threads -> {"idle", "lock", "copy", "save", "gone", "over"}]
  BY <1>1 DEF MarkerType, Step
<1>3. /\ state' \in [file : Marks, closed : BOOLEAN] /\ state'.closed
      /\ state'.file = state.file /\ ~ state.closed
  BY <1>1, <1>2 DEF MarkerType, TurnInv
<1>4. /\ update' \in {"no", "kept", "met"}
      /\ update' = "no" => mpc["updater"] = "idle" /\ ~ Marked(state.file)
      /\ update' = "kept" => mpc["updater"] = "idle" /\ Marked(state.file)
  BY <1>1 DEF UpdateNow, Marked
<1>5. MarkerType' /\ TurnInv'
  BY <1>1, <1>2, <1>3, <1>4 DEF MarkerType, TurnInv, Threads
<1>6. MineInv'
  BY <1>1, <1>2, <1>3 DEF MineInv, Mine, Threads
<1>7. UpdateInv'
  BY <1>1, <1>2, <1>3, <1>4 DEF UpdateInv, MineInv, Threads
<1>8. VerdictIsTrue'
  BY DEF MarkerInv, Close, VerdictIsTrue
<1> QED
  BY <1>5, <1>6, <1>7, <1>8 DEF MarkerInv

\* The exit deletes the file when nobody has a copy to save.
LEMMA DeleteKeeps ==
  ASSUME MarkerInv, Delete
  PROVE  MarkerInv'
<1>1. /\ MarkerType /\ TurnInv /\ MineInv /\ UpdateInv /\ "exit" \in Threads
      /\ UNCHANGED <<state, copy, boot, version, update>>
      /\ Step("exit", "copy", "over") /\ file' = NoFile /\ write' = "free"
  BY DEF MarkerInv, Delete, world, Threads
<1>2. /\ mpc["exit"] = "copy" /\ mpc'["exit"] = "over"
      /\ \A u \in Threads \ {"exit"} : mpc'[u] = mpc[u]
      /\ mpc' \in [Threads -> {"idle", "lock", "copy", "save", "gone", "over"}]
  BY <1>1 DEF MarkerType, Step
<1>3. /\ \A u \in Threads \ {"exit"} : mpc[u] \notin {"copy", "save"}
      /\ state.closed
  BY <1>1, <1>2 DEF TurnInv
<1>4. MarkerType' /\ TurnInv'
  BY <1>1, <1>2, <1>3 DEF MarkerType, TurnInv, Threads
<1>5. MineInv'
  BY <1>1, <1>2, <1>3 DEF MineInv, Mine, Threads
<1>6. UpdateInv'
  BY <1>1, <1>2, <1>3 DEF UpdateInv, Threads
<1>7. VerdictIsTrue'
  BY DEF MarkerInv, Delete, world, VerdictIsTrue
<1> QED
  BY <1>4, <1>5, <1>6, <1>7 DEF MarkerInv

\* A run begins with its own file, and nobody at work on it.
LEMMA RunStarts ==
  ASSUME NEW b \in Nat, NEW v \in Nat, Start(b, v)
  PROVE  MarkerType' /\ TurnInv' /\ MineInv' /\ UpdateInv'
<1>1. Fresh(b, v) \in Marks /\ Fresh(b, v) # NoFile
  <2>1. Fresh(b, v) \in Marks
    BY DEF Fresh, Marks
  <2> QED
    BY <2>1, NoFileAssumption
<1>2. /\ boot' = b /\ version' = v /\ file' = Fresh(b, v) /\ state'.file = Fresh(b, v)
      /\ state' \in [file : Marks, closed : BOOLEAN] /\ ~ state'.closed
      /\ update' = "no" /\ mpc' = [t \in Threads |-> "idle"]
      /\ copy' = [t \in Threads |-> NoFile]
  BY <1>1 DEF Start
<1>3. MarkerType'
  BY <1>1, <1>2 DEF MarkerType
<1>4. TurnInv'
  BY <1>2 DEF TurnInv, Threads
<1>5. MineInv'
  BY <1>1, <1>2 DEF MineInv, Mine, Threads, Fresh
<1>6. UpdateInv'
  BY <1>2 DEF UpdateInv, Threads
<1> QED
  BY <1>3, <1>4, <1>5, <1>6

\* What a start says of a file that is there.
LEMMA Classified ==
  ASSUME NEW f \in Marks, NEW b, NEW v
  PROVE  /\ f.phase = "Updating" => Classify(f, b, v) = IF f.version < v THEN "update" ELSE "clean"
         /\ f.phase # "Updating" /\ f.panicked => Classify(f, b, v) = "afterPanic"
         /\ f.phase # "Updating" /\ ~ f.panicked =>
              Classify(f, b, v) = IF f.boot # b THEN "systemRestart" ELSE "crash"
         /\ Classify(NoFile, b, v) = "none"
  BY NoFileAssumption DEF Classify

\* Whatever a start finds, it blames a panic or a restart of Windows for what
\* was one.
LEMMA BlamesRight ==
  ASSUME MarkerInv, NEW b, NEW v
  PROVE  /\ Classify(file, b, v) = "afterPanic" => state.file.panicked
         /\ Classify(file, b, v) = "systemRestart" => b # boot
<1>1. file = NoFile \/ (file \in Marks /\ Mine(file))
  BY DEF MarkerInv, MarkerType, MineInv
<1>2. CASE file = NoFile
  BY <1>2 DEF Classify
<1>3. CASE file \in Marks /\ Mine(file)
  <2>1. Classify(file, b, v) = "afterPanic" => file.panicked
    BY <1>3, Classified
  <2>2. Classify(file, b, v) = "systemRestart" => file.boot # b
    BY <1>3, Classified
  <2> QED
    BY <1>3, <2>1, <2>2 DEF Mine
<1> QED
  BY <1>1, <1>2, <1>3

\* The next start tells how this run ended.
LEMMA EndTold ==
  ASSUME MarkerInv, Exited \/ Killed \/ PowerCut \/ Installed
  PROVE  MarkerInv'
<1>1. /\ MarkerType /\ TurnInv /\ MineInv /\ UpdateInv
      /\ boot \in Nat /\ version \in Nat /\ boot # boot + 1
  BY DEF MarkerInv, MarkerType
<1>2. CASE Exited
  <2>1. /\ mpc["exit"] = "over" /\ state.closed /\ Start(boot, version)
        /\ ended'.how = "clean" /\ ended'.update = update
        /\ ended'.panicked = state.file.panicked
    BY <1>1, <1>2 DEF Exited, EndsAs, TurnInv
  <2>2. verdict' = Classify(file, boot, version) /\ update \in {"no", "kept", "met"}
    BY <1>1, <2>1 DEF Start, MarkerType
  <2>3. update = "no" => verdict' = "none"
    BY <1>1, <2>1, <2>2 DEF UpdateInv, Classify
  <2>4. update = "kept" => verdict' = "clean"
    <3> SUFFICES ASSUME update = "kept"
                 PROVE  verdict' = "clean"
      OBVIOUS
    <3>1. file \in Marks /\ Marked(file) /\ file.version = version
      BY <1>1, <2>1 DEF UpdateInv, MineInv, Mine
    <3> QED
      BY <1>1, <2>2, <3>1, Classified DEF Marked
  <2>5. VerdictIsTrue'
    BY <2>1, <2>2, <2>3, <2>4, BlamesRight DEF VerdictIsTrue
  <2> QED
    BY <1>1, <2>1, <2>5, RunStarts DEF MarkerInv
<1>3. CASE Killed
  <2>1. /\ mpc["exit"] # "over" /\ Start(boot, version)
        /\ ended'.how = "killed" /\ ended'.panicked = state.file.panicked
        /\ ended'.update = IF mpc["exit"] # "idle" THEN update ELSE UpdateNow
    BY <1>3 DEF Killed, EndsAs
  <2>2. /\ verdict' = Classify(file, boot, version)
        /\ file \in Marks /\ file.version = version /\ file.boot = boot
    BY <1>1, <2>1 DEF Start, MineInv, Mine
  <2>3. Marked(file) => ended'.update # "no"
    <3>1. CASE state.closed
      BY <1>1, <2>1, <3>1, NoFileAssumption, <2>2 DEF UpdateInv, TurnInv
    <3>2. CASE ~ state.closed
      <4>1. ended'.update = UpdateNow
        BY <1>1, <2>1, <3>2 DEF TurnInv
      <4> QED
        BY <1>1, <3>2, <4>1 DEF UpdateInv, UpdateNow, Marked
    <3> QED
      BY <3>1, <3>2
  <2>4. \/ verdict' \in {"crash", "afterPanic"}
        \/ ended'.update # "no" /\ verdict' = "clean"
    BY <1>1, <2>2, <2>3, Classified DEF Marked
  <2>5. VerdictIsTrue'
    BY <2>1, <2>2, <2>4, BlamesRight DEF VerdictIsTrue
  <2> QED
    BY <1>1, <2>1, <2>5, RunStarts DEF MarkerInv
<1>4. CASE PowerCut
  <2>1. /\ Start(boot + 1, version) /\ ended'.how = "restart"
        /\ ended'.panicked = state.file.panicked
    BY <1>4 DEF PowerCut, EndsAs
  <2>2. verdict' = Classify(file, boot + 1, version)
    BY <2>1 DEF Start
  <2>3. VerdictIsTrue'
    BY <2>1, <2>2, BlamesRight DEF VerdictIsTrue
  <2> QED
    BY <1>1, <2>1, <2>3, RunStarts DEF MarkerInv
<1>5. CASE Installed
  <2>1. /\ mpc["updater"] = "idle" /\ Marked(state.file) /\ ~ state.closed
        /\ Start(boot, version + 1) /\ ended'.how = "update"
        /\ ended'.panicked = state.file.panicked
    BY <1>5 DEF Installed, EndsAs, Marked
  <2>2. /\ verdict' = Classify(file, boot, version + 1)
        /\ file \in Marks /\ file.version = version /\ Marked(file)
    BY <1>1, <2>1 DEF Start, MineInv, Mine, UpdateInv, TurnInv
  <2>3. verdict' = "update"
    BY <1>1, <2>2, Classified DEF Marked
  <2>4. VerdictIsTrue'
    BY <2>1, <2>3 DEF VerdictIsTrue
  <2> QED
    BY <1>1, <2>1, <2>4, RunStarts DEF MarkerInv
<1> QED
  BY <1>2, <1>3, <1>4, <1>5

\* The first run starts with nothing before it.
LEMMA MarkerStarts == MarkerInit => MarkerInv
<1> SUFFICES ASSUME MarkerInit
             PROVE  MarkerInv
  OBVIOUS
<1>1. Fresh(1, 1) \in Marks /\ Fresh(1, 1) # NoFile
  <2>1. Fresh(1, 1) \in Marks
    BY 1 \in Nat DEF Fresh, Marks
  <2> QED
    BY <2>1, NoFileAssumption
<1>2. MarkerType
  BY <1>1 DEF MarkerInit, MarkerType
<1>3. TurnInv /\ UpdateInv
  BY DEF MarkerInit, TurnInv, UpdateInv, Threads
<1>4. MineInv
  BY <1>1 DEF MarkerInit, MineInv, Mine, Fresh, Threads
<1>5. VerdictIsTrue
  BY DEF MarkerInit, VerdictIsTrue
<1> QED
  BY <1>2, <1>3, <1>4, <1>5 DEF MarkerInv

\* Every step keeps it.
LEMMA MarkerStep == MarkerInv /\ [MarkerNext]_markerVars => MarkerInv'
<1> SUFFICES ASSUME MarkerInv, [MarkerNext]_markerVars
             PROVE  MarkerInv'
  OBVIOUS
<1>1. ASSUME NEW p \in {"Idle", "Dictating"}, SetPhase(p)
      PROVE  MarkerInv'
  BY <1>1, PhaseKeeps
<1>2. CASE Beat \/ Panic \/ HookGivesUp
  BY <1>2, SetOutKeeps
<1>3. CASE MarkUpdate \/ ClearUpdate
  BY <1>3, MarkKeeps
<1>4. CASE MarkPanicked \/ Close \/ Delete
  BY <1>4, PanicKeeps, CloseKeeps, DeleteKeeps
<1>5. ASSUME NEW t \in Threads, Lock(t) \/ Copy(t) \/ Save(t)
      PROVE  MarkerInv'
  <2>1. Copy(t) => t \in {"heartbeat", "updater"}
    BY DEF Copy
  <2> QED
    BY <1>5, <2>1, LockKeeps, CopyKeeps, SaveKeeps
<1>6. CASE Exited \/ Killed \/ PowerCut \/ Installed
  BY <1>6, EndTold
<1>7. CASE UNCHANGED markerVars
  <2>1. UNCHANGED <<file, state, write, mpc, copy, boot, version, verdict, ended, update>>
    BY <1>7 DEF markerVars
  <2>2. MarkerType'
    BY <2>1 DEF MarkerInv, MarkerType
  <2>3. TurnInv'
    BY <2>1 DEF MarkerInv, TurnInv
  <2>4. MineInv'
    BY <2>1 DEF MarkerInv, MineInv, Mine
  <2>5. UpdateInv'
    BY <2>1 DEF MarkerInv, UpdateInv, Marked
  <2>6. VerdictIsTrue'
    BY <2>1 DEF MarkerInv, VerdictIsTrue
  <2> QED
    BY <2>2, <2>3, <2>4, <2>5, <2>6 DEF MarkerInv
<1> QED
  BY <1>1, <1>2, <1>3, <1>4, <1>5, <1>6, <1>7 DEF MarkerNext

\* What a start says of the run before it is true, whatever was being written
\* when that run ended, for any number of runs, heartbeats, marks and panics
\* (write_now, clear, classify).
THEOREM StartTellsTruth == MarkerSpec => []VerdictIsTrue
<1>1. MarkerInv => VerdictIsTrue
  BY DEF MarkerInv
<1> QED
  BY <1>1, MarkerStarts, MarkerStep, PTL DEF MarkerSpec

-----------------------------------------------------------------------------
(* The Stats tab: any calendar, any number of dictations, failed saves,      *)
(* unreadable files and clocks that are set back.                            *)

Tallies == [days : [Dates -> Nat], backfilled : BOOLEAN]
LogRows == [date : Dates, counts : BOOLEAN]

\* How many of the first n count on a day of ds: of the dictations, and of a log.
Upto(n, S) == Cardinality((1 .. n) \cap S)
SpokenOn(sp, ds) == {i \in DOMAIN sp : sp[i] \cap ds # {}}
RowsOn(rr, ds) == {i \in DOMAIN rr : rr[i].counts /\ rr[i].date \in ds}
Room(n, ds) == Upto(n, SpokenOn(spoken, ds))

\* The dictation that is ending is not counted yet, or not yet logged.
UncountedYet == ending.at = "count" /\ ending.counts
UnloggedYet == ending.at \in {"count", "keep"} /\ ending.counts
CountedTo == IF UncountedYet THEN Len(spoken) - 1 ELSE Len(spoken)
LoggedTo == IF UnloggedYet THEN Len(spoken) - 1 ELSE Len(spoken)

StatsType ==
  /\ date \in Dates
  /\ tally \in Tallies /\ tallyFile \in Tallies
  /\ kept \in Seq(LogRows) /\ keptFile \in Seq(LogRows)
  /\ ending \in {Ended, [at |-> "load"]}
                  \cup [at : {"count", "keep"}, date : Dates, counts : BOOLEAN, keep : BOOLEAN]
  /\ spoken \in Seq(SUBSET Dates)

\* No tally and no log has more than was spoken: an import adds the log's to
\* tallies that have none.
RoomInv ==
  \A ds \in SUBSET Dates :
    /\ Total(tally.days, ds) <= Room(CountedTo, ds)
    /\ Total(tallyFile.days, ds) <= Room(CountedTo, ds)
    /\ Upto(Len(kept), RowsOn(kept, ds)) <= Room(LoggedTo, ds)
    /\ Upto(Len(keptFile), RowsOn(keptFile, ds)) <= Room(LoggedTo, ds)

ImportInv ==
  /\ ~ tallyFile.backfilled => \A d \in Dates : tallyFile.days[d] = 0
  /\ ending.at # "load" => tally.backfilled
  /\ UnloggedYet => Len(spoken) > 0 /\ ending.date \in spoken[Len(spoken)]

StatsInv == StatsType /\ RoomInv /\ ImportInv

\* Counting one further.
LEMMA UptoNext ==
  ASSUME NEW S, NEW n \in Nat
  PROVE  /\ Upto(n, S) \in Nat /\ Upto(0, S) = 0
         /\ Upto(n + 1, S) = Upto(n, S) + One(n + 1 \in S)
<1>1. IsFiniteSet((1 .. n) \cap S)
  <2>1. IsFiniteSet(1 .. n)
    BY FS_Interval
  <2>2. QED
    BY <2>1, FS_Subset
<1>2. Upto(n, S) \in Nat
  BY <1>1, FS_CardinalityType DEF Upto
<1>3. Upto(0, S) = 0
  <2>1. (1 .. 0) \cap S = {}
    OBVIOUS
  <2>2. QED
    BY <2>1, FS_EmptySet DEF Upto
<1>4. CASE n + 1 \in S
  <2>1. (1 .. n + 1) \cap S = ((1 .. n) \cap S) \cup {n + 1}
    BY <1>4
  <2>2. n + 1 \notin (1 .. n) \cap S
    OBVIOUS
  <2>3. Cardinality(((1 .. n) \cap S) \cup {n + 1}) = Cardinality((1 .. n) \cap S) + 1
    BY <1>1, <2>2, FS_AddElement
  <2>4. QED
    BY <1>2, <1>3, <1>4, <2>1, <2>3 DEF Upto, One
<1>5. CASE n + 1 \notin S
  <2>1. (1 .. n + 1) \cap S = (1 .. n) \cap S
    BY <1>5
  <2>2. QED
    BY <1>2, <1>3, <1>5, <2>1 DEF Upto, One
<1>6. QED
  BY <1>4, <1>5

\* The first n of two sequences count alike if the one has all that the other has.
LEMMA UptoGrows ==
  ASSUME NEW S, NEW R, NEW n \in Nat, \A i \in 1 .. n : i \in S => i \in R
  PROVE  Upto(n, S) <= Upto(n, R)
<1>1. IsFiniteSet((1 .. n) \cap R)
  <2>1. IsFiniteSet(1 .. n)
    BY FS_Interval
  <2>2. QED
    BY <2>1, FS_Subset
<1>2. (1 .. n) \cap S \in SUBSET ((1 .. n) \cap R)
  OBVIOUS
<1>3. QED
  BY <1>1, <1>2, FS_Subset DEF Upto

\* A log row more.
LEMMA RowsOfAppend ==
  ASSUME NEW rr \in Seq(LogRows), NEW r \in LogRows, NEW ds
  PROVE  Upto(Len(Append(rr, r)), RowsOn(Append(rr, r), ds))
           = Upto(Len(rr), RowsOn(rr, ds)) + One(r.counts /\ r.date \in ds)
<1> DEFINE n == Len(rr)
           new == Append(rr, r)
<1>1. /\ n \in Nat /\ Len(new) = n + 1 /\ DOMAIN new = 1 .. n + 1 /\ DOMAIN rr = 1 .. n
      /\ \A i \in 1 .. n : new[i] = rr[i]
      /\ new[n + 1] = r
  BY AppendProperties, LenProperties
<1>2. /\ \A i \in 1 .. n : i \in RowsOn(new, ds) <=> i \in RowsOn(rr, ds)
      /\ n + 1 \in RowsOn(new, ds) <=> r.counts /\ r.date \in ds
  <2> HIDE DEF n, new
  <2>1. \A i \in 1 .. n : i \in 1 .. n + 1
    BY <1>1
  <2>2. n + 1 \in 1 .. n + 1
    BY <1>1
  <2>3. QED
    BY <1>1, <2>1, <2>2 DEF RowsOn
<1>3. (1 .. n) \cap RowsOn(new, ds) = (1 .. n) \cap RowsOn(rr, ds)
  BY <1>2
<1>4. Upto(n + 1, RowsOn(new, ds)) = Upto(n, RowsOn(new, ds)) + One(n + 1 \in RowsOn(new, ds))
  <2> HIDE DEF n, new
  <2>1. QED
    BY <1>1, UptoNext
<1>5. QED
  <2> HIDE DEF n, new
  <2>1. Upto(n, RowsOn(new, ds)) = Upto(n, RowsOn(rr, ds))
    BY <1>3 DEF Upto
  <2>2. One(n + 1 \in RowsOn(new, ds)) = One(r.counts /\ r.date \in ds)
    BY <1>2 DEF One
  <2>3. QED
    BY <1>1, <1>4, <2>1, <2>2 DEF n, new

\* The oldest row less.
LEMMA RowsOfTail ==
  ASSUME NEW rr \in Seq(LogRows), rr # <<>>, NEW ds
  PROVE  Upto(Len(Tail(rr)), RowsOn(Tail(rr), ds)) <= Upto(Len(rr), RowsOn(rr, ds))
<1> DEFINE n == Len(rr)
           old == Tail(rr)
           S == (1 .. n - 1) \cap RowsOn(old, ds)
           R == (1 .. n) \cap RowsOn(rr, ds)
           shift == [i \in S |-> i + 1]
<1>1. /\ n \in Nat \ {0} /\ Len(old) = n - 1 /\ DOMAIN old = 1 .. n - 1 /\ DOMAIN rr = 1 .. n
      /\ \A i \in 1 .. n - 1 : old[i] = rr[i + 1]
  BY HeadTailProperties, EmptySeq, LenProperties
<1>2. ASSUME NEW i \in S PROVE i + 1 \in R
  <2>1. i \in 1 .. n - 1 /\ rr[i + 1].counts /\ rr[i + 1].date \in ds /\ i + 1 \in 1 .. n
    BY <1>1 DEF RowsOn
  <2>2. QED
    BY <2>1, <1>1 DEF RowsOn
<1>3. shift \in Injection(S, R)
  <2>1. shift \in [S -> R]
    BY <1>2
  <2>2. \A i, j \in S : shift[i] = shift[j] => i = j
    BY <1>1
  <2> HIDE DEF S, R, shift
  <2>3. QED
    BY <2>1, <2>2 DEF Injection, IsInjective
<1>4. IsFiniteSet(R)
  <2>1. IsFiniteSet(1 .. n)
    BY <1>1, FS_Interval
  <2>2. QED
    BY <2>1, FS_Subset
<1>5. Cardinality(S) <= Cardinality(R)
  <2> HIDE DEF S, R, shift
  <2>1. QED
    BY <1>3, <1>4, FS_Injection
<1>6. QED
  BY <1>1, <1>5 DEF Upto

\* The dates are finitely many.
LEMMA DatesAreFinite == IsFiniteSet(Dates)
<1>1. LastDate \in Int /\ 1 \in Int
  BY DatesAssumption
<1>2. QED
  BY <1>1, FS_Interval DEF Dates

\* Counting keeps a tally one, and adds one.
LEMMA Ingested ==
  ASSUME NEW t \in Tallies, NEW d \in Dates
  PROVE  /\ Ingest(t, d) \in Tallies /\ Ingest(t, d).backfilled = t.backfilled
         /\ \A ds \in SUBSET Dates :
              Total(Ingest(t, d).days, ds) = Total(t.days, ds) + One(d \in ds)
<1>1. t.days \in [Dates -> Nat]
  BY DEF Tallies
<1>2. [t.days EXCEPT ![d] = @ + 1] \in [Dates -> Nat]
  BY <1>1
<1>3. /\ Ingest(t, d) \in Tallies /\ Ingest(t, d).backfilled = t.backfilled
      /\ Ingest(t, d).days = [t.days EXCEPT ![d] = @ + 1]
  BY <1>2 DEF Tallies, Ingest
<1>4. QED
  BY <1>1, <1>3, DatesAreFinite, TotalOfOneMore

\* An import takes the rows of the log one after the other.
LEMMA BackfillEquation ==
  ASSUME NEW totals \in Tallies, NEW rr \in Seq(LogRows)
  PROVE  \E g : /\ Backfill(totals, rr) = [g[Len(rr)] EXCEPT !.backfilled = TRUE]
                /\ g[0] = totals
                /\ \A n \in 1 .. Len(rr) :
                     g[n] = IF rr[n].counts THEN Ingest(g[n - 1], rr[n].date) ELSE g[n - 1]
<1> DEFINE D == DOMAIN rr
           Rec(h) == [s \in SUBSET D |->
                        IF s = {} THEN totals
                        ELSE LET x == Max(s)
                             IN  IF rr[x].counts THEN Ingest(h[s \ {x}], rr[x].date)
                                 ELSE h[s \ {x}]]
           iter == CHOOSE h : h = Rec(h)
           step == [x \in D |-> [v \in Tallies |->
                                   IF rr[x].counts THEN Ingest(v, rr[x].date) ELSE v]]
<1>1. Backfill(totals, rr) = [iter[D] EXCEPT !.backfilled = TRUE]
  BY Zenon DEF Backfill, FoldLeft, MapThenFoldSet
<1>2. /\ D = 1 .. Len(rr) /\ Len(rr) \in Nat
      /\ \A s \in SUBSET D : s # {} => Max(s) \in s
      /\ \A n \in 1 .. Len(rr) : /\ 1 .. n \in SUBSET D /\ 1 .. n # {}
                                 /\ Max(1 .. n) = n /\ (1 .. n) \ {n} = 1 .. n - 1
  BY PrefixLemma
<1>3. \E h : h = Rec(h)
  <2>1. Steps(step, D, Tallies)
    <3>1. ASSUME NEW x \in D, NEW v \in Tallies
          PROVE  (IF rr[x].counts THEN Ingest(v, rr[x].date) ELSE v) \in Tallies
      <4>1. rr[x].date \in Dates
        <5>1. x \in 1 .. Len(rr)
          BY <1>2
        <5>2. rr[x] \in LogRows
          BY <5>1, ElementOfSeq
        <5>3. QED
          BY <5>2 DEF LogRows
      <4>2. QED
        BY <4>1, Ingested
    <3>2. QED
      BY <3>1 DEF Steps
  <2>2. PICK h \in [SUBSET D -> Tallies] :
          \A s \in SUBSET D : h[s] = IF s = {} THEN totals ELSE step[Max(s)][h[s \ {Max(s)}]]
    <3> HIDE DEF step
    <3>1. \E h : FoldsUp(h, rr, Tallies, totals, step)
      BY <2>1, FoldExists
    <3>2. QED
      BY <3>1 DEF FoldsUp
  <2>3. ASSUME NEW s \in SUBSET D
        PROVE  h[s] = IF s = {} THEN totals
                      ELSE LET x == Max(s)
                           IN  IF rr[x].counts THEN Ingest(h[s \ {x}], rr[x].date)
                               ELSE h[s \ {x}]
    <3>1. CASE s = {}
      BY <3>1, <2>2
    <3>2. CASE s # {}
      <4>1. Max(s) \in D /\ h[s \ {Max(s)}] \in Tallies
        BY <3>2, <1>2
      <4>2. h[s] = step[Max(s)][h[s \ {Max(s)}]]
        BY <2>2, <3>2
      <4>3. QED
        BY <4>1, <4>2, <3>2
    <3>3. QED
      BY <3>1, <3>2
  <2>4. h = Rec(h)
    BY <2>3
  <2>5. QED
    BY <2>4
<1>4. iter = Rec(iter)
  <2> HIDE DEF Rec
  <2>1. QED
    BY <1>3
<1> DEFINE g == [n \in 0 .. Len(rr) |-> iter[1 .. n]]
<1>5. g[Len(rr)] = iter[D]
  BY <1>2
<1>6. g[0] = totals
  <2>1. 1 .. 0 = {} /\ 0 \in 0 .. Len(rr)
    BY <1>2
  <2>2. iter[{}] = totals
    <3> HIDE DEF iter
    <3>1. QED
      BY <1>4
  <2>3. QED
    BY <2>1, <2>2
<1>7. ASSUME NEW n \in 1 .. Len(rr)
      PROVE  g[n] = IF rr[n].counts THEN Ingest(g[n - 1], rr[n].date) ELSE g[n - 1]
  <2> HIDE DEF iter
  <2>1. iter[1 .. n] = IF rr[n].counts THEN Ingest(iter[1 .. n - 1], rr[n].date)
                       ELSE iter[1 .. n - 1]
    <3>1. iter[1 .. n] =
            IF 1 .. n = {} THEN totals
            ELSE LET x == Max(1 .. n)
                 IN  IF rr[x].counts THEN Ingest(iter[(1 .. n) \ {x}], rr[x].date)
                     ELSE iter[(1 .. n) \ {x}]
      BY <1>4, <1>2
    <3>2. QED
      BY <3>1, <1>2
  <2>2. n \in 0 .. Len(rr) /\ n - 1 \in 0 .. Len(rr)
    BY <1>2
  <2>3. g[n] = iter[1 .. n] /\ g[n - 1] = iter[1 .. n - 1]
    BY <2>2
  <2>4. QED
    <3> HIDE DEF g
    <3>1. QED
      BY <2>1, <2>3
<1>8. QED
  BY <1>1, <1>5, <1>6, <1>7

\* What an import counts is what the log has.
LEMMA BackfillCounts ==
  ASSUME NEW totals \in Tallies, NEW rr \in Seq(LogRows)
  PROVE  /\ Backfill(totals, rr) \in Tallies /\ Backfill(totals, rr).backfilled
         /\ \A ds \in SUBSET Dates :
              Total(Backfill(totals, rr).days, ds)
                = Total(totals.days, ds) + Upto(Len(rr), RowsOn(rr, ds))
<1>0. Len(rr) \in Nat /\ DOMAIN rr = 1 .. Len(rr) /\ \A i \in 1 .. Len(rr) : rr[i] \in LogRows
  BY LenProperties, ElementOfSeq
<1>1. PICK g : /\ Backfill(totals, rr) = [g[Len(rr)] EXCEPT !.backfilled = TRUE]
               /\ g[0] = totals
               /\ \A n \in 1 .. Len(rr) :
                    g[n] = IF rr[n].counts THEN Ingest(g[n - 1], rr[n].date) ELSE g[n - 1]
  BY BackfillEquation
<1> DEFINE R == {n \in 0 .. Len(rr) :
                   /\ g[n] \in Tallies
                   /\ \A ds \in SUBSET Dates :
                        Total(g[n].days, ds) = Total(totals.days, ds) + Upto(n, RowsOn(rr, ds))}
<1>2. \A ds \in SUBSET Dates : Total(totals.days, ds) \in Nat
  <2>1. totals.days \in [Dates -> Nat]
    BY DEF Tallies
  <2>2. QED
    BY <2>1, DatesAreFinite, TotalEquation
<1>3. 0 \in R
  BY <1>0, <1>1, <1>2, UptoNext
<1>4. ASSUME NEW n \in 1 .. Len(rr), n - 1 \in R PROVE n \in R
  <2>1. n - 1 \in Nat /\ (n - 1) + 1 = n /\ rr[n] \in LogRows /\ rr[n].date \in Dates
    BY <1>0 DEF LogRows
  <2>2. g[n - 1] \in Tallies
    BY <1>4
  <2>3. ASSUME NEW ds \in SUBSET Dates
        PROVE  Total(g[n].days, ds) = Total(totals.days, ds) + Upto(n, RowsOn(rr, ds))
    <3>1. /\ Upto(n, RowsOn(rr, ds)) = Upto(n - 1, RowsOn(rr, ds)) + One(n \in RowsOn(rr, ds))
          /\ Upto(n - 1, RowsOn(rr, ds)) \in Nat
      BY <2>1, UptoNext
    <3>2. n \in RowsOn(rr, ds) <=> rr[n].counts /\ rr[n].date \in ds
      BY <1>0 DEF RowsOn
    <3>3. Total(g[n - 1].days, ds) = Total(totals.days, ds) + Upto(n - 1, RowsOn(rr, ds))
      BY <1>4
    <3>4. CASE rr[n].counts
      <4>1. Total(g[n].days, ds) = Total(g[n - 1].days, ds) + One(rr[n].date \in ds)
        BY <3>4, <1>1, <2>1, <2>2, Ingested
      <4>2. One(n \in RowsOn(rr, ds)) = One(rr[n].date \in ds)
        BY <3>2, <3>4 DEF One
      <4>3. One(rr[n].date \in ds) \in Nat
        BY DEF One
      <4>4. QED
        BY <4>1, <4>2, <4>3, <3>1, <3>3, <1>2
    <3>5. CASE ~ rr[n].counts
      <4>1. g[n] = g[n - 1] /\ One(n \in RowsOn(rr, ds)) = 0
        BY <3>2, <3>5, <1>1 DEF One
      <4>2. QED
        BY <4>1, <3>1, <3>3, <1>2
    <3>6. QED
      BY <3>4, <3>5
  <2>4. g[n] \in Tallies
    BY <1>1, <2>1, <2>2, Ingested
  <2>5. QED
    BY <2>3, <2>4
<1>5. Len(rr) \in R
  <2> HIDE DEF R
  <2>1. 0 .. Len(rr) \subseteq R
    BY <1>0, <1>3, <1>4, InductionTo
  <2>2. QED
    BY <2>1, <1>0
<1>6. /\ Backfill(totals, rr) \in Tallies /\ Backfill(totals, rr).backfilled
      /\ Backfill(totals, rr).days = g[Len(rr)].days
  <2>1. g[Len(rr)] \in Tallies
    BY <1>5
  <2>2. QED
    BY <1>1, <2>1 DEF Tallies
<1>7. QED
  BY <1>5, <1>6

\* The days of the last dictation are what it may add.
LEMMA RoomToLast ==
  ASSUME NEW sp \in Seq(SUBSET Dates), NEW ds \in SUBSET Dates, Len(sp) > 0
  PROVE  /\ Len(sp) \in Nat /\ Len(sp) - 1 \in Nat
         /\ Upto(Len(sp) - 1, SpokenOn(sp, ds)) \in Nat /\ Upto(Len(sp), SpokenOn(sp, ds)) \in Nat
         /\ Upto(Len(sp), SpokenOn(sp, ds))
              = Upto(Len(sp) - 1, SpokenOn(sp, ds)) + One(sp[Len(sp)] \cap ds # {})
<1>1. Len(sp) \in Nat /\ Len(sp) - 1 \in Nat /\ (Len(sp) - 1) + 1 = Len(sp) /\ DOMAIN sp = 1 .. Len(sp)
  BY LenProperties
<1>2. Len(sp) \in SpokenOn(sp, ds) <=> sp[Len(sp)] \cap ds # {}
  BY <1>1 DEF SpokenOn
<1>3. /\ Upto(Len(sp) - 1, SpokenOn(sp, ds)) \in Nat /\ Upto(Len(sp), SpokenOn(sp, ds)) \in Nat
      /\ Upto(Len(sp), SpokenOn(sp, ds))
           = Upto(Len(sp) - 1, SpokenOn(sp, ds)) + One(Len(sp) \in SpokenOn(sp, ds))
  BY <1>1, UptoNext
<1>4. QED
  BY <1>1, <1>2, <1>3 DEF One

\* Once it is over with the last dictation there is room for it too.
LEMMA WithinAll ==
  ASSUME StatsInv, NEW ds \in SUBSET Dates
  PROVE  /\ Total(tally.days, ds) \in Nat /\ Total(tallyFile.days, ds) \in Nat
         /\ Upto(Len(kept), RowsOn(kept, ds)) \in Nat
         /\ Upto(Len(keptFile), RowsOn(keptFile, ds)) \in Nat
         /\ Room(CountedTo, ds) \in Nat /\ Room(LoggedTo, ds) \in Nat
         /\ Room(Len(spoken), ds) \in Nat
         /\ Room(CountedTo, ds) <= Room(Len(spoken), ds)
         /\ Room(LoggedTo, ds) <= Room(Len(spoken), ds)
<1>1. /\ tally.days \in [Dates -> Nat] /\ tallyFile.days \in [Dates -> Nat]
      /\ Len(kept) \in Nat /\ Len(keptFile) \in Nat
      /\ spoken \in Seq(SUBSET Dates) /\ Len(spoken) \in Nat
  BY LenProperties DEF StatsInv, StatsType, Tallies
<1>2. /\ Total(tally.days, ds) \in Nat /\ Total(tallyFile.days, ds) \in Nat
  BY <1>1, DatesAreFinite, TotalEquation
<1>3. /\ Upto(Len(kept), RowsOn(kept, ds)) \in Nat /\ Upto(Len(keptFile), RowsOn(keptFile, ds)) \in Nat
      /\ Room(Len(spoken), ds) \in Nat
  BY <1>1, UptoNext DEF Room
<1>4. UncountedYet \/ UnloggedYet => Len(spoken) > 0
  BY DEF StatsInv, ImportInv, UncountedYet, UnloggedYet
<1>5. Len(spoken) > 0 => /\ Room(Len(spoken) - 1, ds) \in Nat
                         /\ Room(Len(spoken) - 1, ds) <= Room(Len(spoken), ds)
  BY <1>1, RoomToLast DEF Room, One
<1>6. QED
  BY <1>2, <1>3, <1>4, <1>5 DEF CountedTo, LoggedTo

\* What is within the room before the last dictation is within the room after it.
LEMMA RoomGrows ==
  ASSUME NEW sp \in Seq(SUBSET Dates), NEW sq \in Seq(SUBSET Dates), NEW ds,
         NEW n \in Nat, n <= Len(sp), n <= Len(sq), \A i \in 1 .. n : sp[i] \subseteq sq[i]
  PROVE  Upto(n, SpokenOn(sp, ds)) <= Upto(n, SpokenOn(sq, ds))
<1>1. DOMAIN sq = 1 .. Len(sq) /\ Len(sq) \in Nat
  BY LenProperties
<1>2. \A i \in 1 .. n : i \in SpokenOn(sp, ds) => i \in SpokenOn(sq, ds)
  BY <1>1 DEF SpokenOn
<1>3. QED
  BY <1>2, UptoGrows

NoRows(ds) == Upto(Len(<<>>), RowsOn(<<>>, ds))

\* A log without rows tells of no day.
LEMMA EmptyLog == <<>> \in Seq(LogRows) /\ \A ds : NoRows(ds) = 0
<1>1. <<>> \in Seq(LogRows) /\ Len(<<>>) = 0 /\ 0 \in Nat
  OBVIOUS
<1>2. QED
  BY <1>1, UptoNext DEF NoRows

\* The log is read or is not.
LEMMA LoadLogKeeps ==
  ASSUME StatsInv, LoadLog
  PROVE  StatsInv'
<1>1. /\ ending' = [at |-> "load"] /\ kept' = keptFile' /\ keptFile' \in {keptFile, <<>>}
      /\ UNCHANGED <<date, tally, tallyFile, spoken>>
  BY DEF LoadLog
<1>2. StatsType'
  BY <1>1, EmptyLog DEF StatsInv, StatsType
<1>3. ~ UncountedYet' /\ ~ UnloggedYet' /\ ending'.at = "load"
  BY <1>1 DEF UncountedYet, UnloggedYet
<1>4. RoomInv'
  <2>1. CountedTo' = Len(spoken) /\ LoggedTo' = Len(spoken)
    BY <1>1, <1>3 DEF CountedTo, LoggedTo
  <2>2. ASSUME NEW ds \in SUBSET Dates
        PROVE  /\ Total(tally.days, ds) <= Room(Len(spoken), ds)
               /\ Total(tallyFile.days, ds) <= Room(Len(spoken), ds)
               /\ Upto(Len(keptFile'), RowsOn(keptFile', ds)) <= Room(Len(spoken), ds)
    <3>1. /\ Total(tally.days, ds) <= Room(Len(spoken), ds)
          /\ Total(tallyFile.days, ds) <= Room(Len(spoken), ds)
          /\ Upto(Len(keptFile), RowsOn(keptFile, ds)) <= Room(Len(spoken), ds)
          /\ 0 <= Room(Len(spoken), ds)
      BY WithinAll DEF StatsInv, RoomInv
    <3>2. CASE keptFile' = keptFile
      BY <3>1, <3>2
    <3>3. CASE keptFile' = <<>>
      BY <3>1, <3>3, EmptyLog DEF NoRows
    <3>4. QED
      BY <3>1, <3>2, <3>3, <1>1
  <2>3. QED
    BY <2>1, <2>2, <1>1 DEF RoomInv, Room
<1>5. ImportInv'
  BY <1>1, <1>3 DEF StatsInv, ImportInv
<1>6. QED
  BY <1>2, <1>4, <1>5 DEF StatsInv

\* A file that was never imported into counts nothing.
LEMMA NothingFound ==
  ASSUME StatsInv, NEW found \in {tallyFile, NoTally}, ~ found.backfilled
  PROVE  found \in Tallies /\ \A ds \in SUBSET Dates : Total(found.days, ds) = 0
<1>1. found \in Tallies /\ \A d \in Dates : found.days[d] = 0
  <2>1. CASE found = tallyFile
    BY <2>1 DEF StatsInv, StatsType, ImportInv
  <2>2. CASE found = NoTally
    <3>1. [d \in Dates |-> 0] \in [Dates -> Nat]
      OBVIOUS
    <3>2. QED
      BY <3>1, <2>2 DEF NoTally, Tallies
  <2>3. QED
    BY <2>1, <2>2
<1>2. found.days \in [Dates -> Nat]
  BY <1>1 DEF Tallies
<1>3. QED
  BY <1>1, <1>2, DatesAreFinite, TotalOfNone

\* The tallies are read or are not.
LEMMA LoadTallyKeeps ==
  ASSUME StatsInv, LoadTally
  PROVE  StatsInv'
<1>1. /\ ending.at = "load" /\ ending' = Ended
      /\ UNCHANGED <<date, kept, keptFile, spoken>>
  BY DEF LoadTally
<1>2. PICK found \in {tallyFile, NoTally} :
        IF found.backfilled THEN tally' = found /\ UNCHANGED <<tallyFile, mishaps>>
        ELSE SaveTo(Backfill(found, kept), tally, tallyFile)
  BY DEF LoadTally
<1>3. /\ ~ UncountedYet /\ ~ UnloggedYet /\ ~ UncountedYet' /\ ~ UnloggedYet'
      /\ ending'.at # "load"
  BY <1>1 DEF UncountedYet, UnloggedYet, Ended
<1>4. CountedTo = Len(spoken) /\ LoggedTo = Len(spoken)
      /\ CountedTo' = Len(spoken) /\ LoggedTo' = Len(spoken)
  BY <1>1, <1>3 DEF CountedTo, LoggedTo
<1>5. kept \in Seq(LogRows) /\ tallyFile \in Tallies
      /\ \A ds \in SUBSET Dates :
           /\ Upto(Len(kept), RowsOn(kept, ds)) \in Nat
           /\ Upto(Len(kept), RowsOn(kept, ds)) <= Room(Len(spoken), ds)
           /\ Total(tallyFile.days, ds) <= Room(Len(spoken), ds)
  BY <1>4, WithinAll DEF StatsInv, StatsType, RoomInv
<1>6. /\ tally' \in Tallies /\ tallyFile' \in Tallies
      /\ tally'.backfilled /\ (tallyFile' = tallyFile \/ tallyFile'.backfilled)
      /\ \A ds \in SUBSET Dates : /\ Total(tally'.days, ds) <= Room(Len(spoken), ds)
                                  /\ Total(tallyFile'.days, ds) <= Room(Len(spoken), ds)
  <2>1. CASE found.backfilled
    <3>1. found = tallyFile
      BY <2>1 DEF NoTally
    <3>2. tally' = tallyFile /\ tallyFile' = tallyFile
      BY <2>1, <3>1, <1>2
    <3>3. QED
      BY <2>1, <3>1, <3>2, <1>5
  <2>2. CASE ~ found.backfilled
    <3> DEFINE b == Backfill(found, kept)
    <3>1. found \in Tallies /\ \A ds \in SUBSET Dates : Total(found.days, ds) = 0
      BY <2>2, NothingFound
    <3>2. b \in Tallies /\ b.backfilled
          /\ \A ds \in SUBSET Dates :
               Total(b.days, ds) = Total(found.days, ds) + Upto(Len(kept), RowsOn(kept, ds))
      BY <3>1, <1>5, BackfillCounts
    <3>3. tally' = b /\ (tallyFile' = b \/ tallyFile' = tallyFile)
      BY <2>2, <1>2 DEF SaveTo
    <3> HIDE DEF b
    <3>4. \A ds \in SUBSET Dates : Total(b.days, ds) <= Room(Len(spoken), ds)
      BY <3>1, <3>2, <1>5
    <3>5. QED
      BY <3>2, <3>3, <3>4, <1>5
  <2>3. QED
    BY <2>1, <2>2
<1>7. StatsType'
  BY <1>1, <1>6 DEF StatsInv, StatsType
<1>8. RoomInv'
  <2>1. \A ds \in SUBSET Dates :
          /\ Upto(Len(kept), RowsOn(kept, ds)) <= Room(Len(spoken), ds)
          /\ Upto(Len(keptFile), RowsOn(keptFile, ds)) <= Room(Len(spoken), ds)
    BY <1>4 DEF StatsInv, RoomInv
  <2>2. QED
    BY <1>1, <1>4, <1>6, <2>1 DEF RoomInv, Room
<1>9. ImportInv'
  BY <1>3, <1>6 DEF StatsInv, ImportInv
<1>10. QED
  BY <1>7, <1>8, <1>9 DEF StatsInv

\* A dictation is counted.
LEMMA SpeakKeeps ==
  ASSUME StatsInv, NEW counts \in BOOLEAN, NEW optIn \in BOOLEAN, Speak(counts, optIn)
  PROVE  StatsInv'
<1>1. /\ ending = Ended
      /\ ending' = [at |-> "count", date |-> date, counts |-> counts, keep |-> optIn]
      /\ spoken' = IF counts THEN Append(spoken, {date}) ELSE spoken
      /\ UNCHANGED <<date, tally, tallyFile, kept, keptFile>>
  BY DEF Speak
<1>2. /\ spoken \in Seq(SUBSET Dates) /\ Len(spoken) \in Nat /\ date \in Dates
      /\ spoken' \in Seq(SUBSET Dates)
      /\ \A i \in 1 .. Len(spoken) : spoken'[i] = spoken[i]
      /\ counts => Len(spoken') = Len(spoken) + 1 /\ spoken'[Len(spoken')] = {date}
      /\ ~ counts => spoken' = spoken
  BY <1>1, AppendProperties, LenProperties DEF StatsInv, StatsType
<1>3. StatsType'
  BY <1>1, <1>2 DEF StatsInv, StatsType
<1>4. CountedTo' = Len(spoken) /\ LoggedTo' = Len(spoken)
      /\ CountedTo = Len(spoken) /\ LoggedTo = Len(spoken)
  BY <1>1, <1>2 DEF CountedTo, LoggedTo, UncountedYet, UnloggedYet, Ended
<1>5. RoomInv'
  <2>1. ASSUME NEW ds \in SUBSET Dates
        PROVE  Room(Len(spoken), ds) = Upto(Len(spoken), SpokenOn(spoken', ds))
    <3>1. Len(spoken) <= Len(spoken')
      BY <1>2
    <3>2. /\ Upto(Len(spoken), SpokenOn(spoken, ds)) <= Upto(Len(spoken), SpokenOn(spoken', ds))
          /\ Upto(Len(spoken), SpokenOn(spoken', ds)) <= Upto(Len(spoken), SpokenOn(spoken, ds))
      BY <3>1, <1>2, RoomGrows
    <3>3. /\ Upto(Len(spoken), SpokenOn(spoken, ds)) \in Nat
          /\ Upto(Len(spoken), SpokenOn(spoken', ds)) \in Nat
      BY <1>2, UptoNext
    <3>4. QED
      BY <3>2, <3>3 DEF Room
  <2>2. \A ds \in SUBSET Dates :
          /\ Total(tally.days, ds) <= Room(Len(spoken), ds)
          /\ Total(tallyFile.days, ds) <= Room(Len(spoken), ds)
          /\ Upto(Len(kept), RowsOn(kept, ds)) <= Room(Len(spoken), ds)
          /\ Upto(Len(keptFile), RowsOn(keptFile, ds)) <= Room(Len(spoken), ds)
    BY <1>4 DEF StatsInv, RoomInv
  <2>3. QED
    BY <1>1, <1>4, <2>1, <2>2 DEF RoomInv, Room
<1>6. ImportInv'
  BY <1>1, <1>2 DEF StatsInv, ImportInv, UnloggedYet, Ended
<1>7. QED
  BY <1>3, <1>5, <1>6 DEF StatsInv

\* The dictation that is counted is the last one, and was not counted yet.
LEMMA CountKeepsRoom ==
  ASSUME StatsInv, Count
  PROVE  StatsInv'
<1>1. /\ ending.at = "count" /\ ending' = [ending EXCEPT !.at = "keep"]
      /\ UNCHANGED <<date, kept, keptFile>>
      /\ ending \in [at : {"count", "keep"}, date : Dates, counts : BOOLEAN, keep : BOOLEAN]
      /\ ending'.at = "keep" /\ ending'.counts = ending.counts /\ ending'.date = ending.date
  BY DEF Count, StatsInv, StatsType, Ended
<1>2. CASE ~ ending.counts
  <2>1. UNCHANGED <<tally, tallyFile, spoken>>
    BY <1>2 DEF Count
  <2>2. CountedTo' = CountedTo /\ LoggedTo' = LoggedTo /\ ~ UnloggedYet'
    BY <1>1, <1>2, <2>1 DEF CountedTo, LoggedTo, UncountedYet, UnloggedYet
  <2>3. QED
    BY <1>1, <2>1, <2>2 DEF StatsInv, StatsType, RoomInv, ImportInv, Room
<1>3. CASE ending.counts
  <2> DEFINE n == Len(spoken)
             t == Ingest(tally, date)
  <2>1. /\ tally' = t /\ (tallyFile' = t \/ tallyFile' = tallyFile)
        /\ spoken' = [spoken EXCEPT ![n] = @ \cup {date}]
    BY <1>3 DEF Count, SaveTo
  <2>2. /\ n > 0 /\ n \in Nat /\ spoken \in Seq(SUBSET Dates) /\ date \in Dates /\ tally.backfilled
        /\ ending.date \in spoken[n] /\ tally \in Tallies /\ tallyFile \in Tallies
    BY <1>1, <1>3, LenProperties DEF StatsInv, StatsType, ImportInv, UnloggedYet
  <2>3. /\ spoken' \in Seq(SUBSET Dates) /\ Len(spoken') = n
        /\ \A i \in 1 .. n : spoken[i] \subseteq spoken'[i]
        /\ spoken'[n] = spoken[n] \cup {date}
    BY <2>1, <2>2, ExceptSeq, ElementOfSeq
  <2>4. CountedTo = n - 1 /\ LoggedTo = n - 1 /\ CountedTo' = n /\ LoggedTo' = n - 1
    BY <1>1, <1>3, <2>3 DEF CountedTo, LoggedTo, UncountedYet, UnloggedYet
  <2>5. t \in Tallies /\ t.backfilled
        /\ \A ds \in SUBSET Dates : Total(t.days, ds) = Total(tally.days, ds) + One(date \in ds)
    BY <2>2, Ingested
  <2>6. ASSUME NEW ds \in SUBSET Dates
        PROVE  /\ Total(t.days, ds) <= Upto(n, SpokenOn(spoken', ds))
               /\ Total(tallyFile.days, ds) <= Upto(n, SpokenOn(spoken', ds))
               /\ Upto(Len(kept), RowsOn(kept, ds)) <= Upto(n - 1, SpokenOn(spoken', ds))
               /\ Upto(Len(keptFile), RowsOn(keptFile, ds)) <= Upto(n - 1, SpokenOn(spoken', ds))
    <3> DEFINE before == Upto(n - 1, SpokenOn(spoken, ds))
               after == Upto(n - 1, SpokenOn(spoken', ds))
               all == Upto(n, SpokenOn(spoken', ds))
    <3>1. before \in Nat /\ after \in Nat /\ all \in Nat
          /\ all = after + One(spoken'[n] \cap ds # {})
      BY <2>2, <2>3, RoomToLast
    <3>2. before <= after
      <4>1. n - 1 \in Nat /\ n - 1 <= Len(spoken) /\ n - 1 <= Len(spoken')
            /\ \A i \in 1 .. n - 1 : spoken[i] \subseteq spoken'[i]
        BY <2>2, <2>3
      <4>2. QED
        BY <4>1, <2>2, <2>3, RoomGrows
    <3>3. /\ Total(tally.days, ds) <= before /\ Total(tallyFile.days, ds) <= before
          /\ Upto(Len(kept), RowsOn(kept, ds)) <= before
          /\ Upto(Len(keptFile), RowsOn(keptFile, ds)) <= before
      BY <2>4 DEF StatsInv, RoomInv, Room
    <3>4. /\ Total(tally.days, ds) \in Nat /\ Total(tallyFile.days, ds) \in Nat
          /\ Upto(Len(kept), RowsOn(kept, ds)) \in Nat
          /\ Upto(Len(keptFile), RowsOn(keptFile, ds)) \in Nat
      BY WithinAll
    <3>5. date \in ds => spoken'[n] \cap ds # {}
      BY <2>3
    <3>6. Total(t.days, ds) = Total(tally.days, ds) + One(date \in ds)
      BY <2>5
    <3> HIDE DEF before, after, all, t, n
    <3>7. Total(t.days, ds) <= all
      BY <3>1, <3>2, <3>3, <3>4, <3>5, <3>6 DEF One
    <3>8. Total(tallyFile.days, ds) <= all
      BY <3>1, <3>2, <3>3, <3>4 DEF One
    <3>9. QED
      BY <3>1, <3>2, <3>3, <3>4, <3>7, <3>8 DEF all, after
  <2> HIDE DEF t, n
  <2>7. StatsType'
    BY <1>1, <2>1, <2>2, <2>3, <2>5 DEF StatsInv, StatsType
  <2>8. RoomInv'
    <3>1. \A ds \in SUBSET Dates : /\ Total(tally'.days, ds) <= Upto(n, SpokenOn(spoken', ds))
                                   /\ Total(tallyFile'.days, ds) <= Upto(n, SpokenOn(spoken', ds))
      BY <2>1, <2>6
    <3>2. QED
      BY <3>1, <1>1, <2>4, <2>6 DEF RoomInv, Room
  <2>9. ImportInv'
    <3>1. tally'.backfilled /\ (tallyFile' = tallyFile \/ tallyFile'.backfilled)
      BY <2>1, <2>5
    <3>2. Len(spoken') > 0 /\ ending'.date \in spoken'[Len(spoken')]
      BY <1>1, <2>2, <2>3 DEF n
    <3>3. QED
      BY <3>1, <3>2 DEF StatsInv, ImportInv
  <2>10. QED
    BY <2>7, <2>8, <2>9 DEF StatsInv
<1>4. QED
  BY <1>2, <1>3

\* The row that is logged is that of the last dictation.
LEMMA KeepKeeps ==
  ASSUME StatsInv, Keep
  PROVE  StatsInv'
<1>1. /\ ending.at = "keep" /\ ending' = Ended
      /\ UNCHANGED <<date, tally, tallyFile, spoken>>
      /\ ending \in [at : {"count", "keep"}, date : Dates, counts : BOOLEAN, keep : BOOLEAN]
  BY DEF Keep, StatsInv, StatsType, Ended
<1> DEFINE n == Len(spoken)
           row == [date |-> ending.date, counts |-> ending.counts]
           rows == Append(kept, row)
           new == IF Len(rows) > MaxRows THEN Tail(rows) ELSE rows
<1>2. CountedTo = n /\ CountedTo' = n /\ LoggedTo' = n
  BY <1>1 DEF CountedTo, LoggedTo, UncountedYet, UnloggedYet, Ended
<1>3. kept' \in {kept, new} /\ keptFile' \in {keptFile, new}
  BY DEF Keep, SaveTo
<1>4. /\ kept \in Seq(LogRows) /\ row \in LogRows /\ rows \in Seq(LogRows) /\ rows # <<>>
      /\ spoken \in Seq(SUBSET Dates)
  <2>1. row \in LogRows
    BY <1>1 DEF LogRows
  <2>2. kept \in Seq(LogRows) /\ spoken \in Seq(SUBSET Dates)
    BY DEF StatsInv, StatsType
  <2> HIDE DEF row
  <2>3. rows \in Seq(LogRows) /\ rows # <<>>
    BY <2>1, <2>2, AppendProperties
  <2>4. QED
    BY <2>1, <2>2, <2>3
<1>5. new \in Seq(LogRows)
  BY <1>4, HeadTailProperties
<1>6. ASSUME NEW ds \in SUBSET Dates
      PROVE  /\ Upto(Len(kept), RowsOn(kept, ds)) <= Room(n, ds)
             /\ Upto(Len(keptFile), RowsOn(keptFile, ds)) <= Room(n, ds)
             /\ Upto(Len(new), RowsOn(new, ds)) <= Room(n, ds)
  <2> DEFINE a == Upto(Len(kept), RowsOn(kept, ds))
             f == Upto(Len(keptFile), RowsOn(keptFile, ds))
             b == Upto(Len(rows), RowsOn(rows, ds))
             c == Upto(Len(new), RowsOn(new, ds))
  <2>1. /\ a \in Nat /\ f \in Nat /\ Room(LoggedTo, ds) \in Nat /\ Room(n, ds) \in Nat
        /\ Room(LoggedTo, ds) <= Room(n, ds)
        /\ a <= Room(LoggedTo, ds) /\ f <= Room(LoggedTo, ds)
    BY WithinAll DEF StatsInv, RoomInv
  <2>2. b = a + One(ending.counts /\ ending.date \in ds)
    <3>1. row.counts = ending.counts /\ row.date = ending.date
      OBVIOUS
    <3> HIDE DEF row
    <3>2. QED
      BY <3>1, <1>4, RowsOfAppend
  <2>3. b <= Room(n, ds)
    <3>1. CASE ending.counts
      <4>1. LoggedTo = n - 1 /\ n > 0 /\ ending.date \in spoken[n]
        BY <1>1, <3>1 DEF LoggedTo, UnloggedYet, StatsInv, ImportInv
      <4>2. Room(n, ds) = Room(n - 1, ds) + One(spoken[n] \cap ds # {})
        BY <4>1, <1>4, RoomToLast DEF Room
      <4>3. ending.date \in ds => spoken[n] \cap ds # {}
        BY <4>1
      <4> HIDE DEF a, b, n
      <4>4. QED
        BY <4>1, <4>2, <4>3, <2>1, <2>2 DEF One
    <3>2. CASE ~ ending.counts
      <4> HIDE DEF a, b, n
      <4>1. QED
        BY <3>2, <2>1, <2>2 DEF One
    <3>3. QED
      BY <3>1, <3>2
  <2>4. c <= b /\ b \in Nat /\ c \in Nat
    <3>1. Len(rows) \in Nat /\ Len(new) \in Nat
      BY <1>4, <1>5, LenProperties
    <3>2. b \in Nat /\ c \in Nat
      <4> HIDE DEF rows, new
      <4>1. QED
        BY <3>1, UptoNext
    <3> HIDE DEF rows
    <3>3. Upto(Len(Tail(rows)), RowsOn(Tail(rows), ds)) <= b
      BY <1>4, RowsOfTail
    <3>4. CASE Len(rows) > MaxRows
      BY <3>3, <3>2, <3>4
    <3>5. CASE ~ (Len(rows) > MaxRows)
      BY <3>2, <3>5
    <3>6. QED
      BY <3>2, <3>4, <3>5
  <2>5. QED
    <3> HIDE DEF a, b, c, f
    <3>1. a <= Room(n, ds) /\ f <= Room(n, ds) /\ c <= Room(n, ds)
      BY <2>1, <2>3, <2>4
    <3>2. QED
      BY <3>1 DEF a, c, f
<1> HIDE DEF new, n
<1>7. StatsType'
  BY <1>1, <1>3, <1>4, <1>5 DEF StatsInv, StatsType
<1>8. RoomInv'
  <2>1. \A ds \in SUBSET Dates : /\ Upto(Len(kept'), RowsOn(kept', ds)) <= Room(n, ds)
                                 /\ Upto(Len(keptFile'), RowsOn(keptFile', ds)) <= Room(n, ds)
    BY <1>3, <1>6
  <2>2. \A ds \in SUBSET Dates : /\ Total(tally.days, ds) <= Room(n, ds)
                                 /\ Total(tallyFile.days, ds) <= Room(n, ds)
    BY <1>2 DEF StatsInv, RoomInv
  <2>3. QED
    BY <1>1, <1>2, <2>1, <2>2 DEF RoomInv, Room
<1>9. ImportInv'
  BY <1>1 DEF StatsInv, ImportInv, UnloggedYet, Ended
<1>10. QED
  BY <1>7, <1>8, <1>9 DEF StatsInv

\* The calendar moves on.
LEMMA SetDateKeeps ==
  ASSUME StatsInv, NEW d \in Dates, SetDate(d)
  PROVE  StatsInv'
<1>1. date' = d /\ UNCHANGED <<tally, tallyFile, kept, keptFile, ending, spoken>>
  BY DEF SetDate
<1>2. QED
  BY <1>1 DEF StatsInv, StatsType, RoomInv, ImportInv, Room, CountedTo, LoggedTo,
              UncountedYet, UnloggedYet

\* An update finds the log of the version before it and no tallies.
LEMMA StatsStart == StatsInit => StatsInv
<1> SUFFICES ASSUME StatsInit PROVE StatsInv
  OBVIOUS
<1> DEFINE C == {i \in DOMAIN kept : kept[i].counts}
           c == Cardinality(C)
<1>1. /\ date = 1 /\ ending = [at |-> "load"] /\ kept = keptFile
      /\ tally = NoTally /\ tallyFile = NoTally
      /\ spoken = [i \in 1 .. c |-> {1}]
  BY DEF StatsInit
<1>2. 1 \in Dates
  BY DatesAssumption DEF Dates
<1>3. PICK n \in 0 .. MaxRows : kept \in [1 .. n -> [date : {1}, counts : BOOLEAN]]
  BY DEF StatsInit
<1>4. n \in Nat /\ kept \in Seq(LogRows) /\ Len(kept) = n /\ DOMAIN kept = 1 .. n
      /\ \A i \in 1 .. n : kept[i].date = 1
  <2>1. n \in Nat
    BY <1>3, DatesAssumption
  <2>2. [date : {1}, counts : BOOLEAN] \subseteq LogRows
    BY <1>2 DEF LogRows
  <2>3. kept \in Seq(LogRows)
    BY <2>1, <2>2, <1>3, IsASeq
  <2>4. QED
    BY <2>1, <2>3, <1>3, LenProperties
<1>5. c \in Nat /\ c = Upto(n, {i \in DOMAIN kept : kept[i].counts})
  <2>1. IsFiniteSet(1 .. n)
    <3>1. n \in Int /\ 1 \in Int
      BY <1>4
    <3>2. QED
      BY <3>1, FS_Interval
  <2>2. IsFiniteSet(C)
    BY <2>1, <1>4, FS_Subset
  <2>3. (1 .. n) \cap C = C
    BY <1>4
  <2> HIDE DEF C
  <2>4. QED
    BY <2>2, <2>3, FS_CardinalityType DEF Upto, C
<1> HIDE DEF c
<1>6. spoken \in Seq(SUBSET Dates) /\ Len(spoken) = c /\ \A i \in 1 .. c : spoken[i] = {1}
  <2>1. spoken \in [1 .. c -> SUBSET Dates]
    BY <1>1, <1>2
  <2>2. spoken \in Seq(SUBSET Dates)
    <3>1. c \in Nat
      BY <1>5
    <3>2. \A i \in 1 .. c : {1} \in SUBSET Dates
      BY <1>2
    <3>3. [i \in 1 .. c |-> {1}] \in Seq(SUBSET Dates)
      BY <3>1, <3>2, IsASeq
    <3>4. QED
      BY <3>3, <1>1
  <2>3. Len(spoken) = c
    BY <2>1, <2>2, <1>5, LenProperties
  <2>4. QED
    BY <2>2, <2>3, <1>1
<1>7. StatsType
  BY <1>1, <1>2, <1>4, <1>6 DEF StatsType, NoTally, Tallies
<1>8. ImportInv
  BY <1>1 DEF ImportInv, NoTally, UnloggedYet
<1>9. RoomInv
  <2>1. CountedTo = c /\ LoggedTo = c
    BY <1>1, <1>6 DEF CountedTo, LoggedTo, UncountedYet, UnloggedYet
  <2>2. ASSUME NEW ds \in SUBSET Dates
        PROVE  /\ Total(NoTally.days, ds) <= Room(c, ds)
               /\ Upto(n, RowsOn(kept, ds)) <= Room(c, ds)
    <3>1. Total(NoTally.days, ds) = 0
      BY DatesAreFinite, TotalOfNone DEF NoTally
    <3>2. Room(c, ds) \in Nat
      BY <1>5, UptoNext DEF Room
    <3>3. CASE 1 \in ds
      <4>1. (1 .. c) \cap SpokenOn(spoken, ds) = 1 .. c
        BY <1>1, <3>3 DEF SpokenOn
      <4>2. Room(c, ds) = c
        <5>1. c \in Int /\ 1 \in Int /\ (1 > c => c = 0) /\ (c - 1) + 1 = c
          BY <1>5
        <5>2. Cardinality(1 .. c) = c
          BY <5>1, FS_Interval
        <5>3. QED
          BY <4>1, <5>2 DEF Room, Upto
      <4>3. Upto(n, RowsOn(kept, ds)) <= c
        <5>1. \A i \in 1 .. n : i \in RowsOn(kept, ds) => i \in {j \in DOMAIN kept : kept[j].counts}
          BY DEF RowsOn
        <5>2. QED
          BY <5>1, <1>4, <1>5, UptoGrows
      <4>4. QED
        BY <3>1, <3>2, <4>2, <4>3
    <3>4. CASE 1 \notin ds
      <4>1. RowsOn(kept, ds) = {}
        BY <1>4, <3>4 DEF RowsOn
      <4>2. Upto(n, RowsOn(kept, ds)) = 0
        <5>1. (1 .. n) \cap RowsOn(kept, ds) = {}
          BY <4>1
        <5>2. QED
          BY <5>1, FS_EmptySet DEF Upto
      <4>3. QED
        BY <3>1, <3>2, <4>2
    <3>5. QED
      BY <3>3, <3>4
  <2>3. QED
    BY <1>1, <1>4, <2>1, <2>2 DEF RoomInv
<1>10. QED
  BY <1>7, <1>8, <1>9 DEF StatsInv

\* Every step keeps the tallies and the logs within what was spoken.
LEMMA StatsStep == StatsInv /\ [StatsNext]_statsVars => StatsInv'
<1> SUFFICES ASSUME StatsInv, [StatsNext]_statsVars
             PROVE  StatsInv'
  OBVIOUS
<1>1. CASE \E counts, optIn \in BOOLEAN : Speak(counts, optIn)
  BY <1>1, SpeakKeeps
<1>2. CASE Count
  BY <1>2, CountKeepsRoom
<1>3. CASE Keep
  BY <1>3, KeepKeeps
<1>4. CASE LoadLog
  BY <1>4, LoadLogKeeps
<1>5. CASE LoadTally
  BY <1>5, LoadTallyKeeps
<1>6. CASE \E d \in Dates : SetDate(d)
  BY <1>6, SetDateKeeps
<1>7. CASE UNCHANGED statsVars
  BY <1>7 DEF statsVars, StatsInv, StatsType, RoomInv, ImportInv, Room, CountedTo, LoggedTo,
              UncountedYet, UnloggedYet
<1> QED
  BY <1>1, <1>2, <1>3, <1>4, <1>5, <1>6, <1>7 DEF StatsNext

\* No set of days has more dictations than were spoken on them, whatever saves
\* failed, whichever file was reset or imported from, and wherever the clock was
\* set back (StatsStore::load, ingest, backfill_from_latency_records).
THEOREM TalliesAreTrue == StatsSpec => []EachCountsOnce
<1>1. StatsInv => EachCountsOnce
  <2> SUFFICES ASSUME StatsInv, NEW ds \in SUBSET Dates
               PROVE  Total(tally.days, ds) <= Cardinality({i \in DOMAIN spoken : spoken[i] \cap ds # {}})
    BY Zenon DEF EachCountsOnce, Total
  <2>1. DOMAIN spoken = 1 .. Len(spoken)
    BY LenProperties DEF StatsInv, StatsType
  <2>2. (1 .. Len(spoken)) \cap SpokenOn(spoken, ds) = {i \in DOMAIN spoken : spoken[i] \cap ds # {}}
    BY <2>1 DEF SpokenOn
  <2>3. Total(tally.days, ds) <= Room(Len(spoken), ds)
    BY WithinAll DEF StatsInv, RoomInv
  <2>4. QED
    BY <2>2, <2>3 DEF Room, Upto
<1> QED
  BY <1>1, StatsStart, StatsStep, PTL DEF StatsSpec
=============================================================================
