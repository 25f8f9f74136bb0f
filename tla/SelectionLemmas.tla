--------------------------- MODULE SelectionLemmas ---------------------------
(* What loops over a sequence compute, for sequences of every length.  The   *)
(* induction is over a set of positions: a fact about every position is that *)
(* the positions it holds of are all of them.                                *)
EXTENDS Selections, SequencesExt, SequenceTheorems, FiniteSetTheorems, TLAPS

\* A set that has the first position, and with each position the next one, has
\* them all: otherwise it would lack a least one.
LEMMA UpToInduction ==
    ASSUME NEW n \in Nat, NEW S, 0 \in S, \A i \in 1 .. n : i - 1 \in S => i \in S
    PROVE  0 .. n \subseteq S
<1> DEFINE Less == OpToRel(<, Nat)
           Rest == (0 .. n) \ S
<1>1. IsWellFoundedOn(Less, Nat)
  BY NatLessThanWellFounded
<1>2. SUFFICES ASSUME Rest # {} PROVE FALSE
  OBVIOUS
<1>3. \E x \in Rest : \A y \in Rest : <<y, x>> \notin Less
  <2>1. Rest \subseteq Nat
    OBVIOUS
  <2> HIDE DEF Less, Rest
  <2> QED
    BY <1>1, <1>2, <2>1, WFMin
<1>4. PICK x \in Rest : \A y \in Rest : <<y, x>> \notin Less
  BY <1>3
<1>5. \A y \in Rest : ~(y < x)
  <2>1. x \in Nat /\ \A y \in Rest : y \in Nat
    OBVIOUS
  <2>2. \A y \in Nat : y < x => <<y, x>> \in Less
    BY <2>1 DEF OpToRel
  <2> QED
    BY <1>4, <2>1, <2>2
<1> HIDE DEF Less
<1>6. x \in 1 .. n /\ x \notin S /\ x - 1 \in 0 .. n /\ x - 1 < x
  OBVIOUS
<1>7. x - 1 \in S
  BY <1>5, <1>6
<1> QED
  BY <1>6, <1>7

\* The values a loop of n rounds goes through.
Iterates(g, n, X, first, step) ==
    /\ g \in [0 .. n -> X]
    /\ g[0] = first
    /\ \A i \in 1 .. n : g[i] = step[<<i, g[i - 1]>>]

IsLoop(n, X, first, step) ==
    n \in Nat /\ first \in X /\ step \in [(1 .. n) \X X -> X]

\* A function is defined by its first value and the step to the next.
LEMMA RecursionUpTo ==
    ASSUME NEW n, NEW X, NEW first, NEW step, IsLoop(n, X, first, step)
    PROVE  \E g : Iterates(g, n, X, first, step)
<1> USE DEF IsLoop, Iterates
<1> DEFINE Defined(m) == \E g : Iterates(g, m, X, first, step)
           T == {m \in 0 .. n : Defined(m)}
<1>1. 0 \in T
  <2>1. DEFINE g == [i \in 0 .. 0 |-> first]
  <2>2. g \in [0 .. 0 -> X] /\ g[0] = first /\ 1 .. 0 = {}
    OBVIOUS
  <2>3. Defined(0)
    BY <2>2
  <2> QED
    BY <2>3
<1>2. ASSUME NEW m \in 1 .. n, m - 1 \in T PROVE m \in T
  <2>1. PICK g : Iterates(g, m - 1, X, first, step)
    BY <1>2
  <2> DEFINE h == [i \in 0 .. m |-> IF i = m THEN step[<<m, g[m - 1]>>] ELSE g[i]]
  <2>2. m - 1 \in 0 .. m - 1 /\ m \in 0 .. n /\ m # 0
    OBVIOUS
  <2>3. h \in [0 .. m -> X] /\ h[0] = first
    BY <2>1, <2>2
  <2>4. ASSUME NEW i \in 1 .. m PROVE h[i] = step[<<i, h[i - 1]>>]
    <3>1. i - 1 \in 0 .. m - 1 /\ h[i - 1] = g[i - 1]
      OBVIOUS
    <3>2. CASE i = m
      <4>1. h[m] = step[<<m, g[m - 1]>>]
        BY <2>2
      <4> QED
        BY <3>1, <3>2, <4>1
    <3>3. CASE i # m
      <4>1. i \in 1 .. m - 1 /\ h[i] = g[i]
        BY <3>3
      <4> QED
        BY <2>1, <3>1, <4>1
    <3> QED
      BY <3>2, <3>3
  <2> HIDE DEF h
  <2>5. Defined(m)
    BY <2>3, <2>4
  <2> QED
    BY <2>2, <2>5
<1>3. 0 .. n \subseteq T
  <2> HIDE DEF T
  <2> QED
    BY <1>1, <1>2, UpToInduction
<1>4. n \in T
  BY <1>3
<1> QED
  BY <1>4

-----------------------------------------------------------------------------

\* Selections are what their definition says: it is well defined.
LEMMA SelectedUpToSteps ==
    ASSUME NEW T, NEW s \in Seq(T), NEW S
    PROVE  /\ SelectedUpTo(s, S) \in [0 .. Len(s) -> Seq(T)]
           /\ SelectedUpTo(s, S)[0] = <<>>
           /\ \A i \in 1 .. Len(s) : SelectedUpTo(s, S)[i] =
                  IF s[i] \in S THEN Append(SelectedUpTo(s, S)[i - 1], s[i])
                  ELSE SelectedUpTo(s, S)[i - 1]
<1> DEFINE step == [iv \in (1 .. Len(s)) \X Seq(T) |->
                       IF s[iv[1]] \in S THEN Append(iv[2], s[iv[1]]) ELSE iv[2]]
           Steps(g) == g = [i \in 0 .. Len(s) |->
                       IF i = 0 THEN <<>>
                       ELSE IF s[i] \in S THEN Append(g[i - 1], s[i]) ELSE g[i - 1]]
           u == SelectedUpTo(s, S)
<1>1. Len(s) \in Nat /\ \A i \in 1 .. Len(s) : s[i] \in T
  OBVIOUS
<1>2. step \in [(1 .. Len(s)) \X Seq(T) -> Seq(T)]
  BY <1>1
<1>3. \E g : Steps(g)
  <2>1. IsLoop(Len(s), Seq(T), <<>>, step)
    BY <1>1, <1>2 DEF IsLoop
  <2>2. PICK g : Iterates(g, Len(s), Seq(T), <<>>, step)
    BY <2>1, RecursionUpTo
  <2>3. ASSUME NEW i \in 1 .. Len(s)
        PROVE  step[<<i, g[i - 1]>>] =
                   IF s[i] \in S THEN Append(g[i - 1], s[i]) ELSE g[i - 1]
    <3>1. i - 1 \in 0 .. Len(s)
      BY <1>1
    <3>2. <<i, g[i - 1]>> \in (1 .. Len(s)) \X Seq(T)
      BY <2>2, <3>1 DEF Iterates
    <3> QED
      BY <3>2
  <2> HIDE DEF step
  <2>4. \A i \in 0 .. Len(s) : g[i] =
            IF i = 0 THEN <<>>
            ELSE IF s[i] \in S THEN Append(g[i - 1], s[i]) ELSE g[i - 1]
    <3> HIDE DEF step
    <3> QED
      <4>1. g[0] = <<>> /\ \A i \in 1 .. Len(s) : g[i] = step[<<i, g[i - 1]>>]
        BY <2>2 DEF Iterates
      <4>2. \A i \in 0 .. Len(s) : i = 0 \/ i \in 1 .. Len(s)
        BY <1>1
      <4> QED
        BY <2>3, <4>1, <4>2
  <2>5. Steps(g)
    <3>1. g \in [0 .. Len(s) -> Seq(T)]
      BY <2>2 DEF Iterates
    <3> QED
      BY <2>4, <3>1
  <2> QED
    BY <2>5
<1>4. Steps(u)
  <2> u = CHOOSE g : Steps(g)
    BY DEF SelectedUpTo
  <2> HIDE DEF Steps, u
  <2> QED
    BY <1>3
<1> HIDE DEF u
<1>5. \A i \in 0 .. Len(s) : u[i] =
          IF i = 0 THEN <<>>
          ELSE IF s[i] \in S THEN Append(u[i - 1], s[i]) ELSE u[i - 1]
  BY <1>4
<1>6. u[0] = <<>> /\ \A i \in 1 .. Len(s) : u[i] =
          IF s[i] \in S THEN Append(u[i - 1], s[i]) ELSE u[i - 1]
  BY <1>1, <1>5
<1>7. u \in [0 .. Len(s) -> Seq(T)]
  <2> DEFINE W == {i \in 0 .. Len(s) : u[i] \in Seq(T)}
  <2>1. 0 \in W
    <3>1. 0 \in 0 .. Len(s) /\ <<>> \in Seq(T)
      BY <1>1
    <3> QED
      BY <1>6, <3>1
  <2>2. ASSUME NEW i \in 1 .. Len(s), i - 1 \in W PROVE i \in W
    <3>1. i \in 0 .. Len(s) /\ u[i - 1] \in Seq(T) /\ s[i] \in T
      BY <1>1, <2>2
    <3>2. Append(u[i - 1], s[i]) \in Seq(T)
      BY <3>1
    <3> QED
      BY <1>6, <3>1, <3>2
  <2>3. 0 .. Len(s) \subseteq W
    <3> HIDE DEF W
    <3> QED
      BY <1>1, <2>1, <2>2, UpToInduction
  <2>4. u = [i \in 0 .. Len(s) |-> u[i]]
    BY <1>4
  <2> QED
    BY <2>3, <2>4
<1> QED
  BY <1>6, <1>7 DEF u

\* A loop selects from what it has passed, exactly the elements in the set, and
\* each once if the sequence has no duplicates.
LEMMA SelectedUpToElements ==
    ASSUME NEW T, NEW s \in Seq(T), NEW S, NEW i \in 0 .. Len(s)
    PROVE  /\ ToSet(SelectedUpTo(s, S)[i]) = {s[j] : j \in 1 .. i} \cap S
           /\ IsInjective(s) => IsInjective(SelectedUpTo(s, S)[i])
<1> DEFINE u == SelectedUpTo(s, S)
           Passed(k) == {s[j] : j \in 1 .. k}
           W == {k \in 0 .. Len(s) :
                    /\ ToSet(u[k]) = Passed(k) \cap S
                    /\ IsInjective(s) => IsInjective(u[k])}
<1>1. /\ Len(s) \in Nat /\ u[0] = <<>>
      /\ \A k \in 0 .. Len(s) : u[k] \in Seq(T)
      /\ \A k \in 1 .. Len(s) : u[k] = IF s[k] \in S THEN Append(u[k - 1], s[k]) ELSE u[k - 1]
  BY SelectedUpToSteps
<1> HIDE DEF u
<1>2. 0 \in W
  BY <1>1 DEF ToSet, IsInjective
<1>3. ASSUME NEW k \in 1 .. Len(s), k - 1 \in W PROVE k \in W
  <2>1. Passed(k) = Passed(k - 1) \cup {s[k]}
    <3>1. 1 .. k = (1 .. k - 1) \cup {k}
      OBVIOUS
    <3> QED
      BY <3>1
  <2>2. k - 1 \in 0 .. Len(s) /\ u[k - 1] \in Seq(T) /\ s[k] \in T
    BY <1>1
  <2>3. CASE s[k] \notin S
    BY <1>1, <1>3, <2>1, <2>3
  <2>4. CASE s[k] \in S
    <3>1. u[k] = Append(u[k - 1], s[k])
      BY <1>1, <2>4
    <3>2. /\ Len(u[k]) = Len(u[k - 1]) + 1 /\ Len(u[k - 1]) \in Nat
          /\ DOMAIN u[k] = 1 .. Len(u[k - 1]) + 1 /\ DOMAIN u[k - 1] = 1 .. Len(u[k - 1])
          /\ \A p \in 1 .. Len(u[k - 1]) : u[k][p] = u[k - 1][p]
          /\ u[k][Len(u[k - 1]) + 1] = s[k]
      BY <2>2, <3>1
    <3>3. ToSet(u[k]) = ToSet(u[k - 1]) \cup {s[k]}
      <4>1. 1 .. Len(u[k - 1]) + 1 = (1 .. Len(u[k - 1])) \cup {Len(u[k - 1]) + 1}
        BY <3>2
      <4>2. ToSet(u[k]) = {u[k][p] : p \in 1 .. Len(u[k - 1])} \cup {s[k]}
        <5>1. ToSet(u[k]) = {u[k][p] : p \in (1 .. Len(u[k - 1])) \cup {Len(u[k - 1]) + 1}}
          BY <3>2, <4>1 DEF ToSet
        <5> QED
          BY <3>2, <5>1
      <4>3. ToSet(u[k - 1]) = {u[k][p] : p \in 1 .. Len(u[k - 1])}
        BY <3>2 DEF ToSet
      <4> QED
        BY <4>2, <4>3
    <3>4. ASSUME IsInjective(s) PROVE IsInjective(u[k])
      <4>1. s[k] \notin Passed(k - 1)
        BY <3>4 DEF IsInjective
      <4>2. \A p \in 1 .. Len(u[k - 1]) : u[k - 1][p] # s[k]
        BY <1>3, <3>2, <4>1 DEF ToSet
      <4>3. IsInjective(u[k - 1])
        BY <1>3, <3>4
      <4>4. ASSUME NEW p \in DOMAIN u[k], NEW q \in DOMAIN u[k], u[k][p] = u[k][q]
            PROVE  p = q
        <5>1. /\ p \in 1 .. Len(u[k - 1]) \/ p = Len(u[k - 1]) + 1
              /\ q \in 1 .. Len(u[k - 1]) \/ q = Len(u[k - 1]) + 1
          BY <3>2
        <5> QED
          BY <3>2, <4>2, <4>3, <4>4, <5>1 DEF IsInjective
      <4> QED
        BY <4>4 DEF IsInjective
    <3> QED
      BY <1>3, <2>1, <2>4, <3>3, <3>4
  <2> QED
    BY <2>3, <2>4
<1>4. 0 .. Len(s) \subseteq W
  <2> HIDE DEF W
  <2> QED
    BY <1>1, <1>2, <1>3, UpToInduction
<1> QED
  BY <1>4 DEF u

LEMMA SelectedElements ==
    ASSUME NEW T, NEW s \in Seq(T), NEW S
    PROVE  /\ Selected(s, S) \in Seq(T)
           /\ ToSet(Selected(s, S)) = ToSet(s) \cap S
           /\ IsInjective(s) => IsInjective(Selected(s, S))
<1>1. Len(s) \in 0 .. Len(s) /\ ToSet(s) = {s[j] : j \in 1 .. Len(s)}
  BY DEF ToSet
<1>2. Selected(s, S) \in Seq(T)
  BY <1>1, SelectedUpToSteps DEF Selected
<1>3. /\ ToSet(SelectedUpTo(s, S)[Len(s)]) = {s[j] : j \in 1 .. Len(s)} \cap S
      /\ IsInjective(s) => IsInjective(SelectedUpTo(s, S)[Len(s)])
  BY <1>1, SelectedUpToElements
<1> QED
  BY <1>1, <1>2, <1>3 DEF Selected

\* The sequence t begins with s.
BeginsWith(t, s) == Len(s) <= Len(t) /\ \A p \in 1 .. Len(s) : t[p] = s[p]

\* What a loop has selected it keeps, in its place.
LEMMA SelectedUpToGrows ==
    ASSUME NEW T, NEW s \in Seq(T), NEW S, NEW i \in 0 .. Len(s), NEW j \in 0 .. Len(s), i <= j
    PROVE  BeginsWith(SelectedUpTo(s, S)[j], SelectedUpTo(s, S)[i])
<1> DEFINE u == SelectedUpTo(s, S)
           W == {k \in 0 .. Len(s) : k < i \/ BeginsWith(u[k], u[i])}
<1>1. /\ Len(s) \in Nat
      /\ \A k \in 0 .. Len(s) : u[k] \in Seq(T) /\ Len(u[k]) \in Nat
      /\ \A k \in 1 .. Len(s) : u[k] = IF s[k] \in S THEN Append(u[k - 1], s[k]) ELSE u[k - 1]
  BY SelectedUpToSteps
<1> HIDE DEF u
<1>2. i \in W
  BY <1>1 DEF BeginsWith
<1>3. 0 \in W
  BY <1>1, <1>2
<1>4. ASSUME NEW k \in 1 .. Len(s), k - 1 \in W PROVE k \in W
  <2>1. CASE k <= i
    BY <1>2, <2>1
  <2>2. CASE k > i
    <3>1. BeginsWith(u[k - 1], u[i]) /\ k - 1 \in 0 .. Len(s) /\ k \in 0 .. Len(s) /\ s[k] \in T
      BY <1>4, <2>2
    <3>2. u[k - 1] \in Seq(T) /\ u[k] \in {u[k - 1], Append(u[k - 1], s[k])} /\ u[i] \in Seq(T)
      BY <1>1, <3>1
    <3>3. BeginsWith(u[k], u[k - 1])
      BY <3>1, <3>2 DEF BeginsWith
    <3>4. BeginsWith(u[k], u[i])
      BY <3>1, <3>2, <3>3 DEF BeginsWith
    <3> QED
      BY <3>1, <3>4
  <2> QED
    BY <2>1, <2>2
<1>5. 0 .. Len(s) \subseteq W
  <2> HIDE DEF W
  <2> QED
    BY <1>1, <1>3, <1>4, UpToInduction
<1> QED
  BY <1>1, <1>5 DEF u

\* The place of a selected element is the number of those selected up to it.
LEMMA SelectedSlot ==
    ASSUME NEW T, NEW s \in Seq(T), NEW S, NEW i \in 1 .. Len(s), s[i] \in S
    PROVE  /\ Len(SelectedUpTo(s, S)[i]) \in 1 .. Len(Selected(s, S))
           /\ Selected(s, S)[Len(SelectedUpTo(s, S)[i])] = s[i]
           /\ Len(SelectedUpTo(s, S)[i]) = Len(SelectedUpTo(s, S)[i - 1]) + 1
<1> DEFINE u == SelectedUpTo(s, S)
<1>1. /\ Len(s) \in Nat
      /\ \A k \in 0 .. Len(s) : u[k] \in Seq(T) /\ Len(u[k]) \in Nat
      /\ \A k \in 1 .. Len(s) : u[k] = IF s[k] \in S THEN Append(u[k - 1], s[k]) ELSE u[k - 1]
  BY SelectedUpToSteps
<1>2. /\ i \in 0 .. Len(s) /\ i - 1 \in 0 .. Len(s) /\ s[i] \in T
      /\ Len(s) \in 0 .. Len(s) /\ i <= Len(s)
  BY <1>1
<1>3. BeginsWith(u[Len(s)], u[i])
  BY <1>2, SelectedUpToGrows
<1> HIDE DEF u
<1>4. u[i - 1] \in Seq(T) /\ u[i] = Append(u[i - 1], s[i]) /\ Len(u[Len(s)]) \in Nat
  BY <1>1, <1>2
<1>5. Len(u[i]) = Len(u[i - 1]) + 1 /\ Len(u[i - 1]) \in Nat /\ u[i][Len(u[i])] = s[i]
  BY <1>2, <1>4
<1>6. Len(u[i]) \in 1 .. Len(u[Len(s)]) /\ u[Len(s)][Len(u[i])] = s[i]
  BY <1>3, <1>4, <1>5 DEF BeginsWith
<1> QED
  BY <1>5, <1>6 DEF Selected, u

\* Two loops whose selected elements are the same, position by position, select
\* the same.
LEMMA SelectedSame ==
    ASSUME NEW T, NEW s \in Seq(T), NEW t \in Seq(T), NEW S, Len(s) = Len(t),
           \A i \in 1 .. Len(s) : s[i] \in S \/ t[i] \in S => s[i] = t[i]
    PROVE  Selected(s, S) = Selected(t, S)
<1> DEFINE u == SelectedUpTo(s, S)
           v == SelectedUpTo(t, S)
           W == {k \in 0 .. Len(s) : u[k] = v[k]}
<1>1. /\ Len(s) \in Nat /\ u[0] = <<>>
      /\ \A k \in 1 .. Len(s) : u[k] = IF s[k] \in S THEN Append(u[k - 1], s[k]) ELSE u[k - 1]
  BY SelectedUpToSteps
<1>2. /\ v[0] = <<>>
      /\ \A k \in 1 .. Len(s) : v[k] = IF t[k] \in S THEN Append(v[k - 1], t[k]) ELSE v[k - 1]
  BY SelectedUpToSteps
<1> HIDE DEF u, v
<1>3. 0 \in W /\ \A k \in 1 .. Len(s) : k - 1 \in W => k \in W
  BY <1>1, <1>2
<1>4. 0 .. Len(s) \subseteq W
  <2> HIDE DEF W
  <2> QED
    BY <1>1, <1>3, UpToInduction
<1> QED
  BY <1>1, <1>4 DEF Selected, u, v

\* A loop that meets only elements of the set selects them all, one that meets
\* none selects none.
LEMMA SelectedAllOrNone ==
    ASSUME NEW T, NEW s \in Seq(T), NEW S
    PROVE  /\ ToSet(s) \subseteq S => Selected(s, S) = s
           /\ ToSet(s) \cap S = {} => Selected(s, S) = <<>>
<1> DEFINE u == SelectedUpTo(s, S)
           W == {k \in 0 .. Len(s) : Len(u[k]) = k /\ \A p \in 1 .. k : u[k][p] = s[p]}
           N == {k \in 0 .. Len(s) : u[k] = <<>>}
<1>1. /\ Len(s) \in Nat /\ u[0] = <<>>
      /\ \A k \in 0 .. Len(s) : u[k] \in Seq(T)
      /\ \A k \in 1 .. Len(s) : u[k] = IF s[k] \in S THEN Append(u[k - 1], s[k]) ELSE u[k - 1]
  BY SelectedUpToSteps
<1>2. \A k \in 1 .. Len(s) : s[k] \in ToSet(s) /\ s[k] \in T
  BY DEF ToSet
<1> HIDE DEF u
<1>3. ASSUME ToSet(s) \subseteq S PROVE u[Len(s)] = s
  <2>1. 0 \in W
    BY <1>1
  <2>2. ASSUME NEW k \in 1 .. Len(s), k - 1 \in W PROVE k \in W
    <3>1. u[k] = Append(u[k - 1], s[k]) /\ u[k - 1] \in Seq(T) /\ Len(u[k - 1]) = k - 1
      BY <1>1, <1>2, <1>3, <2>2
    <3>2. /\ Len(u[k]) = k /\ s[k] \in T /\ u[k][k] = s[k]
          /\ \A p \in 1 .. k - 1 : u[k][p] = u[k - 1][p]
      BY <1>2, <3>1
    <3>3. \A p \in 1 .. k : p = k \/ p \in 1 .. k - 1
      OBVIOUS
    <3> QED
      BY <2>2, <3>2, <3>3
  <2>3. 0 .. Len(s) \subseteq W
    <3> HIDE DEF W
    <3> QED
      BY <1>1, <2>1, <2>2, UpToInduction
  <2>4. u[Len(s)] \in Seq(T) /\ Len(u[Len(s)]) = Len(s) /\ \A p \in 1 .. Len(s) : u[Len(s)][p] = s[p]
    BY <1>1, <2>3
  <2> QED
    BY <2>4, SeqEqual
<1>4. ASSUME ToSet(s) \cap S = {} PROVE u[Len(s)] = <<>>
  <2>1. 0 \in N /\ \A k \in 1 .. Len(s) : k - 1 \in N => k \in N
    BY <1>1, <1>2, <1>4
  <2>2. 0 .. Len(s) \subseteq N
    <3> HIDE DEF N
    <3> QED
      BY <1>1, <2>1, UpToInduction
  <2> QED
    BY <1>1, <2>2
<1> QED
  BY <1>3, <1>4 DEF Selected, u

\* What comes after a sequence and is not in the set is not selected.
LEMMA SelectedBeyond ==
    ASSUME NEW T, NEW r \in Seq(T), NEW s \in Seq(T), NEW S, BeginsWith(r, s),
           \A i \in 1 .. Len(r) : i > Len(s) => r[i] \notin S
    PROVE  Selected(r, S) = Selected(s, S)
<1> DEFINE u == SelectedUpTo(s, S)
           w == SelectedUpTo(r, S)
           Within == {k \in 0 .. Len(s) : w[k] = u[k]}
           Beyond == {k \in 0 .. Len(r) : k >= Len(s) => w[k] = u[Len(s)]}
<1>1. /\ Len(s) \in Nat /\ u[0] = <<>>
      /\ \A k \in 1 .. Len(s) : u[k] = IF s[k] \in S THEN Append(u[k - 1], s[k]) ELSE u[k - 1]
  BY SelectedUpToSteps
<1>2. /\ Len(r) \in Nat /\ w[0] = <<>>
      /\ \A k \in 1 .. Len(r) : w[k] = IF r[k] \in S THEN Append(w[k - 1], r[k]) ELSE w[k - 1]
  BY SelectedUpToSteps
<1>3. Len(s) <= Len(r) /\ \A k \in 1 .. Len(s) : k \in 1 .. Len(r) /\ r[k] = s[k]
  BY <1>1, <1>2 DEF BeginsWith
<1> HIDE DEF u, w
<1>4. Len(s) \in Within
  <2>1. 0 \in Within
    BY <1>1, <1>2
  <2>2. \A k \in 1 .. Len(s) : k - 1 \in Within => k \in Within
    BY <1>1, <1>2, <1>3
  <2> HIDE DEF Within
  <2>3. 0 .. Len(s) \subseteq Within
    BY <1>1, <2>1, <2>2, UpToInduction
  <2> QED
    BY <1>1, <2>3
<1>5. Len(r) \in Beyond
  <2>1. 0 \in Beyond
    BY <1>1, <1>2
  <2>2. ASSUME NEW k \in 1 .. Len(r), k - 1 \in Beyond PROVE k \in Beyond
    <3>1. CASE k < Len(s)
      BY <3>1
    <3>2. CASE k = Len(s)
      BY <1>4, <3>2
    <3>3. CASE k > Len(s)
      <4>1. k - 1 >= Len(s) /\ r[k] \notin S
        BY <1>1, <3>3
      <4> QED
        BY <1>2, <2>2, <4>1
    <3> QED
      BY <1>1, <3>1, <3>2, <3>3
  <2> HIDE DEF Beyond
  <2>3. 0 .. Len(r) \subseteq Beyond
    BY <1>2, <2>1, <2>2, UpToInduction
  <2> QED
    BY <1>2, <2>3
<1> QED
  BY <1>3, <1>5 DEF Selected, u, w

\* The sequence c is a, then b.
IsJoin(c, a, b) ==
    /\ BeginsWith(c, a)
    /\ Len(c) = Len(a) + Len(b)
    /\ \A i \in 1 .. Len(b) : c[Len(a) + i] = b[i]

\* A sequence after another has the elements of both, each once if neither has
\* duplicates and they share none.
LEMMA JoinElements ==
    ASSUME NEW T, NEW a \in Seq(T), NEW b \in Seq(T), NEW c \in Seq(T), IsJoin(c, a, b)
    PROVE  /\ ToSet(c) = ToSet(a) \cup ToSet(b)
           /\ IsInjective(a) /\ IsInjective(b) /\ ToSet(a) \cap ToSet(b) = {} =>
                  IsInjective(c)
<1>1. /\ Len(a) \in Nat /\ DOMAIN a = 1 .. Len(a)
      /\ Len(b) \in Nat /\ DOMAIN b = 1 .. Len(b)
      /\ DOMAIN c = 1 .. Len(a) + Len(b)
      /\ \A i \in 1 .. Len(a) : i \in DOMAIN c /\ c[i] = a[i]
      /\ \A i \in 1 .. Len(b) : Len(a) + i \in DOMAIN c /\ c[Len(a) + i] = b[i]
  BY DEF IsJoin, BeginsWith
<1>2. ASSUME NEW i \in DOMAIN c
      PROVE  \/ i \in DOMAIN a /\ c[i] = a[i]
             \/ i - Len(a) \in DOMAIN b /\ c[i] = b[i - Len(a)] /\ i > Len(a)
  <2>1. CASE i <= Len(a)
    BY <1>1, <2>1
  <2>2. CASE i > Len(a)
    <3>1. i - Len(a) \in 1 .. Len(b) /\ Len(a) + (i - Len(a)) = i
      BY <1>1, <2>2
    <3> QED
      BY <1>1, <2>2, <3>1
  <2> QED
    BY <1>1, <2>1, <2>2
<1>3. ToSet(c) = ToSet(a) \cup ToSet(b)
  <2>1. ToSet(c) \subseteq ToSet(a) \cup ToSet(b)
    BY <1>2 DEF ToSet
  <2>2. ToSet(a) \subseteq ToSet(c)
    BY <1>1 DEF ToSet
  <2>3. ToSet(b) \subseteq ToSet(c)
    BY <1>1 DEF ToSet
  <2> QED
    BY <2>1, <2>2, <2>3
<1>4. ASSUME IsInjective(a), IsInjective(b), ToSet(a) \cap ToSet(b) = {}
      PROVE  IsInjective(c)
  <2>1. SUFFICES ASSUME NEW i \in DOMAIN c, NEW j \in DOMAIN c, c[i] = c[j] PROVE i = j
    BY DEF IsInjective
  <2>2. \A k \in DOMAIN a, l \in DOMAIN b : a[k] # b[l]
    BY <1>4 DEF ToSet
  <2>3. CASE i \in DOMAIN a /\ c[i] = a[i]
    <3>1. j \in DOMAIN a /\ c[j] = a[j]
      BY <1>2, <2>1, <2>2, <2>3
    <3> QED
      BY <1>4, <2>1, <2>3, <3>1 DEF IsInjective
  <2>4. CASE i - Len(a) \in DOMAIN b /\ c[i] = b[i - Len(a)] /\ i > Len(a)
    <3>1. j - Len(a) \in DOMAIN b /\ c[j] = b[j - Len(a)]
      BY <1>2, <2>1, <2>2, <2>4
    <3>2. i - Len(a) = j - Len(a)
      BY <1>4, <2>1, <2>4, <3>1 DEF IsInjective
    <3> QED
      BY <1>1, <3>2
  <2> QED
    BY <1>2, <2>3, <2>4
<1> QED
  BY <1>3, <1>4

\* Sequences without duplicates that have the same elements are as long.
LEMMA SameElementsSameLength ==
    ASSUME NEW T, NEW s \in Seq(T), NEW t \in Seq(T),
           IsInjective(s), IsInjective(t), ToSet(s) = ToSet(t)
    PROVE  Len(s) = Len(t)
<1>1. ASSUME NEW q \in Seq(T), IsInjective(q)
      PROVE  Cardinality(ToSet(q)) = Len(q)
  <2>1. q \in Bijection(1 .. Len(q), ToSet(q))
    BY <1>1 DEF Bijection, Injection, Surjection, ToSet
  <2>2. ExistsBijection(1 .. Len(q), ToSet(q)) /\ Len(q) \in Nat
    BY <2>1 DEF ExistsBijection
  <2> QED
    BY <2>2, FS_CountingElements
<1> QED
  BY <1>1
=============================================================================
