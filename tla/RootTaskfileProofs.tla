------------------------- MODULE RootTaskfileProofs -------------------------
(***************************************************************************)
(* The root Taskfile and the lock, for every store, configuration and      *)
(* user.  First what an update computes (the promoted variables, their     *)
(* order in the file, the includes), then that each step keeps RootInv:    *)
(* the includes and tasks that are TaskOtter's are known to the lock or    *)
(* forgotten, and from its promotion to the next edit the file is what was *)
(* asked for.                                                              *)
(***************************************************************************)
EXTENDS RootTaskfile, SelectionLemmas

\* The promoted variables are well defined, and grow task by task.
LEMMA PromotedUpToSteps ==
    ASSUME NEW c \in Configs, NEW r \in Releases
    PROVE  /\ PromotedUpTo(c, r) \in [0 .. Len(c.tasks) -> Seq(Vars)]
           /\ PromotedUpTo(c, r)[0] = <<>>
           /\ \A i \in 1 .. Len(c.tasks) : PromotedUpTo(c, r)[i] =
                  PromotedUpTo(c, r)[i - 1] \o
                      Selected(ModuleVars[r][c.tasks[i]],
                               Vars \ ToSet(PromotedUpTo(c, r)[i - 1]))
<1> DEFINE n == Len(c.tasks)
           more(i, ks) == Selected(ModuleVars[r][c.tasks[i]], Vars \ ToSet(ks))
           step == [ik \in (1 .. n) \X Seq(Vars) |-> ik[2] \o more(ik[1], ik[2])]
           Steps(g) == g = [i \in 0 .. n |->
                               IF i = 0 THEN <<>> ELSE g[i - 1] \o more(i, g[i - 1])]
           u == PromotedUpTo(c, r)
<1>1. n \in Nat /\ \A i \in 1 .. n : c.tasks[i] \in Tasks
  BY ConstantsAssumption
<1>2. \A i \in 1 .. n, ks \in Seq(Vars) : more(i, ks) \in Seq(Vars)
  <2>1. \A i \in 1 .. n : ModuleVars[r][c.tasks[i]] \in Seq(Vars)
    BY <1>1, ConstantsAssumption
  <2> QED
    BY <2>1, SelectedElements
<1> HIDE DEF n, more
<1>3. step \in [(1 .. n) \X Seq(Vars) -> Seq(Vars)]
  <2>1. \A ik \in (1 .. n) \X Seq(Vars) :
            ik[2] \in Seq(Vars) /\ more(ik[1], ik[2]) \in Seq(Vars)
    BY <1>2
  <2>2. \A ik \in (1 .. n) \X Seq(Vars) : ik[2] \o more(ik[1], ik[2]) \in Seq(Vars)
    BY <2>1
  <2> QED
    BY <2>2
<1>4. \E g : Steps(g)
  <2>1. IsLoop(n, Seq(Vars), <<>>, step)
    BY <1>1, <1>3 DEF IsLoop
  <2>2. PICK g : Iterates(g, n, Seq(Vars), <<>>, step)
    BY <2>1, RecursionUpTo
  <2>3. g \in [0 .. n -> Seq(Vars)]
    BY <2>2 DEF Iterates
  <2>4. ASSUME NEW i \in 1 .. n
        PROVE  step[<<i, g[i - 1]>>] = g[i - 1] \o more(i, g[i - 1])
    <3>1. <<i, g[i - 1]>> \in (1 .. n) \X Seq(Vars)
      BY <1>1, <2>3
    <3> QED
      BY <3>1
  <2> HIDE DEF step
  <2>5. \A i \in 0 .. n : g[i] = IF i = 0 THEN <<>> ELSE g[i - 1] \o more(i, g[i - 1])
    <3>1. g[0] = <<>> /\ \A i \in 1 .. n : g[i] = step[<<i, g[i - 1]>>]
      BY <2>2 DEF Iterates
    <3>2. \A i \in 0 .. n : i = 0 \/ i \in 1 .. n
      BY <1>1
    <3> QED
      BY <2>4, <3>1, <3>2
  <2>6. Steps(g)
    BY <2>3, <2>5
  <2> QED
    BY <2>6
<1>5. Steps(u)
  <2> u = CHOOSE g : Steps(g)
    BY DEF PromotedUpTo, n, more
  <2> HIDE DEF Steps, u
  <2> QED
    BY <1>4
<1> HIDE DEF u
<1>6. \A i \in 0 .. n : u[i] = IF i = 0 THEN <<>> ELSE u[i - 1] \o more(i, u[i - 1])
  BY <1>5
<1>7. u[0] = <<>> /\ \A i \in 1 .. n : u[i] = u[i - 1] \o more(i, u[i - 1])
  <2>1. 0 \in 0 .. n /\ \A i \in 1 .. n : i \in 0 .. n /\ i # 0
    BY <1>1
  <2>2. u[0] = <<>>
    BY <1>6, <2>1
  <2> QED
    BY <1>6, <2>1, <2>2
<1>8. u \in [0 .. n -> Seq(Vars)]
  <2> DEFINE W == {i \in 0 .. n : u[i] \in Seq(Vars)}
  <2>1. 0 \in W
    <3>1. 0 \in 0 .. n /\ <<>> \in Seq(Vars)
      BY <1>1
    <3> QED
      BY <1>7, <3>1
  <2>2. ASSUME NEW i \in 1 .. n, i - 1 \in W PROVE i \in W
    <3>1. i \in 0 .. n /\ u[i - 1] \in Seq(Vars) /\ more(i, u[i - 1]) \in Seq(Vars)
      BY <1>1, <1>2, <2>2
    <3>2. u[i - 1] \o more(i, u[i - 1]) \in Seq(Vars)
      BY <3>1
    <3> QED
      BY <1>7, <3>1, <3>2
  <2>3. 0 .. n \subseteq W
    <3> HIDE DEF W
    <3> QED
      BY <1>1, <2>1, <2>2, UpToInduction
  <2>4. u = [i \in 0 .. n |-> u[i]]
    BY <1>5
  <2> QED
    BY <2>3, <2>4
<1> QED
  BY <1>7, <1>8 DEF u, n, more

\* The variables of the modules of the first i tasks.
DeclaredUpTo(c, r, i) ==
    {k \in Vars : \E j \in 1 .. i : k \in ToSet(ModuleVars[r][c.tasks[j]])}

\* They are what is promoted, each once.
LEMMA PromotedElements ==
    ASSUME NEW c \in Configs, NEW r \in Releases, NEW i \in 0 .. Len(c.tasks)
    PROVE  /\ PromotedUpTo(c, r)[i] \in Seq(Vars)
           /\ IsInjective(PromotedUpTo(c, r)[i])
           /\ ToSet(PromotedUpTo(c, r)[i]) = DeclaredUpTo(c, r, i)
<1> DEFINE n == Len(c.tasks)
           u == PromotedUpTo(c, r)
           ofModule(j) == ModuleVars[r][c.tasks[j]]
           more(j) == Selected(ofModule(j), Vars \ ToSet(u[j - 1]))
           Declared(j) == {k \in Vars : \E l \in 1 .. j : k \in ToSet(ofModule(l))}
           W == {j \in 0 .. n : IsInjective(u[j]) /\ ToSet(u[j]) = Declared(j)}
<1>1. /\ n \in Nat /\ u[0] = <<>>
      /\ \A j \in 0 .. n : u[j] \in Seq(Vars)
      /\ \A j \in 1 .. n : u[j] = u[j - 1] \o more(j)
  <2>1. n \in Nat
    BY ConstantsAssumption
  <2> QED
    BY <2>1, PromotedUpToSteps
<1>2. \A j \in 1 .. n : ofModule(j) \in Seq(Vars) /\ IsInjective(ofModule(j))
  <2>1. \A j \in 1 .. n : c.tasks[j] \in Tasks
    BY ConstantsAssumption
  <2> QED
    BY <2>1, ConstantsAssumption
<1> HIDE DEF n, u, ofModule
<1>3. ASSUME NEW j \in 1 .. n
      PROVE  /\ more(j) \in Seq(Vars) /\ IsInjective(more(j))
             /\ ToSet(more(j)) = ToSet(ofModule(j)) \cap (Vars \ ToSet(u[j - 1]))
  BY <1>2, SelectedElements
<1> HIDE DEF more
<1>4. 0 \in W
  BY <1>1 DEF ToSet, IsInjective
<1>5. ASSUME NEW j \in 1 .. n, j - 1 \in W PROVE j \in W
  <2> DEFINE a == u[j - 1]
             b == more(j)
             d == u[j]
  <2>1. a \in Seq(Vars) /\ b \in Seq(Vars) /\ d \in Seq(Vars)
    BY <1>1, <1>3
  <2>2. /\ IsInjective(a) /\ ToSet(a) = Declared(j - 1) /\ IsInjective(b)
        /\ ToSet(b) = ToSet(ofModule(j)) \cap (Vars \ ToSet(a))
    BY <1>3, <1>5
  <2>3. d = a \o b
    BY <1>1
  <2> HIDE DEF a, b, d
  <2>4. IsJoin(d, a, b)
    BY <2>1, <2>3 DEF IsJoin, BeginsWith
  <2>5. ToSet(a) \cap ToSet(b) = {}
    BY <2>2
  <2>6. ToSet(d) = ToSet(a) \cup ToSet(b) /\ IsInjective(d)
    BY <2>1, <2>2, <2>4, <2>5, JoinElements
  <2>7. Declared(j) = Declared(j - 1) \cup (ToSet(ofModule(j)) \cap Vars)
    <3>1. 1 .. j = (1 .. j - 1) \cup {j}
      BY <1>1
    <3> QED
      BY <3>1
  <2>8. ToSet(d) = Declared(j)
    BY <2>2, <2>6, <2>7
  <2> QED
    BY <2>6, <2>8 DEF d
<1>6. 0 .. n \subseteq W
  <2> HIDE DEF W
  <2> QED
    BY <1>1, <1>4, <1>5, UpToInduction
<1> QED
  BY <1>1, <1>6 DEF u, n, ofModule, DeclaredUpTo

\* The same of the run's own input.
LEMMA PromotedFacts ==
    ASSUME config \in Configs, release \in Releases
    PROVE  /\ Promoted \in Seq(Vars)
           /\ IsInjective(Promoted)
           /\ ToSet(Promoted) = {k \in Vars : \E t \in Requested : k \in ToSet(VarsOf(t))}
<1>1. config.tasks \in Seq(Tasks) /\ Len(config.tasks) \in 0 .. Len(config.tasks)
  BY ConstantsAssumption
<1>2. Requested = {config.tasks[j] : j \in 1 .. Len(config.tasks)}
  BY <1>1 DEF Requested, ToSet
<1>3. ToSet(Promoted) = {k \in Vars : \E j \in 1 .. Len(config.tasks) :
                            k \in ToSet(VarsOf(config.tasks[j]))}
  <2>1. ToSet(Promoted) = DeclaredUpTo(config, release, Len(config.tasks))
    BY <1>1, PromotedElements DEF Promoted
  <2> QED
    BY <2>1 DEF DeclaredUpTo, VarsOf
<1> QED
  BY <1>1, <1>2, <1>3, PromotedElements DEF Promoted

\* The file with the variables it lacked: each once.
LEMMA AppendedFacts ==
    ASSUME config \in Configs, release \in Releases,
           order \in Seq(Vars), IsInjective(order)
    PROVE  /\ Appended \in Seq(Vars)
           /\ IsInjective(Appended)
           /\ ToSet(Appended) = ToSet(order) \cup ToSet(Promoted)
           /\ BeginsWith(Appended, order)
           /\ \A i \in 1 .. Len(Appended) : i > Len(order) => Appended[i] \in ToSet(Promoted)
           /\ ToSet(Promoted) \subseteq ToSet(order) => Appended = order
<1> DEFINE P == Promoted
           new == Selected(P, Vars \ ToSet(order))
           A == Appended
<1>1. P \in Seq(Vars) /\ IsInjective(P)
  BY PromotedFacts
<1>2. A = order \o new
  BY DEF Appended
<1> HIDE DEF P
<1>3. ToSet(P) \subseteq Vars
  BY <1>1 DEF ToSet
<1>4. /\ new \in Seq(Vars) /\ IsInjective(new)
      /\ ToSet(new) = ToSet(P) \ ToSet(order)
  BY <1>1, <1>3, SelectedElements
<1>5. ToSet(P) \subseteq ToSet(order) => new = <<>>
  BY <1>1, SelectedAllOrNone
<1> HIDE DEF new, A
<1>6. A \in Seq(Vars) /\ IsJoin(A, order, new)
  BY <1>2, <1>4 DEF IsJoin, BeginsWith
<1>7. ToSet(order) \cap ToSet(new) = {}
  BY <1>4
<1>8. IsInjective(A) /\ ToSet(A) = ToSet(order) \cup ToSet(new)
  BY <1>4, <1>6, <1>7, JoinElements
<1>9. ASSUME NEW i \in 1 .. Len(A), i > Len(order) PROVE A[i] \in ToSet(P)
  <2>1. i - Len(order) \in 1 .. Len(new) /\ Len(order) + (i - Len(order)) = i
    BY <1>4, <1>6, <1>9 DEF IsJoin
  <2>2. A[i] = new[i - Len(order)] /\ new[i - Len(order)] \in ToSet(new)
    BY <1>4, <1>6, <2>1 DEF IsJoin, ToSet
  <2> QED
    BY <1>4, <2>2
<1>10. ToSet(P) \subseteq ToSet(order) => A = order
  BY <1>2, <1>5, ConcatEmptySeq
<1>11. BeginsWith(A, order)
  BY <1>6 DEF IsJoin
<1> QED
  BY <1>4, <1>6, <1>8, <1>9, <1>10, <1>11 DEF A, P

\* A promoted variable of the file takes the slot of a promoted variable, and
\* no two the same slot.
LEMMA PromotedSlots ==
    ASSUME NEW A \in Seq(Vars), NEW P \in Seq(Vars), IsInjective(A), IsInjective(P),
           ToSet(P) \subseteq ToSet(A)
    PROVE  /\ Len(Selected(A, ToSet(P))) = Len(P)
           /\ \A i \in 1 .. Len(A) : A[i] \in ToSet(P) =>
                  Len(SelectedUpTo(A, ToSet(P))[i]) \in 1 .. Len(P)
           /\ \A i, j \in 1 .. Len(A) : i < j /\ A[j] \in ToSet(P) =>
                  Len(SelectedUpTo(A, ToSet(P))[i]) < Len(SelectedUpTo(A, ToSet(P))[j])
<1> DEFINE S == ToSet(P)
           u == SelectedUpTo(A, S)
<1> HIDE DEF S
<1>1. /\ Selected(A, S) \in Seq(Vars) /\ IsInjective(Selected(A, S))
      /\ ToSet(Selected(A, S)) = ToSet(P)
  <2>1. /\ Selected(A, S) \in Seq(Vars) /\ IsInjective(Selected(A, S))
        /\ ToSet(Selected(A, S)) = ToSet(A) \cap S
    BY SelectedElements
  <2> QED
    BY <2>1 DEF S
<1>2. Len(Selected(A, S)) = Len(P)
  BY <1>1, SameElementsSameLength
<1>3. \A i \in 1 .. Len(A) : A[i] \in S => Len(u[i]) \in 1 .. Len(P)
  BY <1>2, SelectedSlot
<1>4. ASSUME NEW i \in 1 .. Len(A), NEW j \in 1 .. Len(A), i < j, A[j] \in S
      PROVE  Len(u[i]) < Len(u[j])
  <2>1. i \in 0 .. Len(A) /\ j - 1 \in 0 .. Len(A) /\ i <= j - 1
    BY <1>4
  <2>2. BeginsWith(u[j - 1], u[i])
    BY <2>1, SelectedUpToGrows
  <2>3. Len(u[j]) = Len(u[j - 1]) + 1
    BY <1>4, SelectedSlot
  <2>4. u[j - 1] \in Seq(Vars) /\ u[i] \in Seq(Vars)
    <3>1. u \in [0 .. Len(A) -> Seq(Vars)]
      BY SelectedUpToSteps
    <3> HIDE DEF u
    <3> QED
      BY <2>1, <3>1
  <2> HIDE DEF u
  <2>5. Len(u[j - 1]) \in Nat /\ Len(u[i]) \in Nat
    BY <2>4
  <2> QED
    BY <2>2, <2>3, <2>5 DEF BeginsWith
<1> QED
  BY <1>2, <1>3, <1>4 DEF S

\* What reorderPromotedVars does to the variables A of a file, all of P among them.
IsRearranged(R, A, P) ==
    /\ Len(R) = Len(A)
    /\ \A i \in 1 .. Len(A) :
           R[i] = IF A[i] \in ToSet(P) THEN P[Len(SelectedUpTo(A, ToSet(P))[i])] ELSE A[i]

ComesOutInOrder(R, A, P) ==
    /\ Selected(R, ToSet(P)) = P
    /\ Selected(R, Vars \ ToSet(P)) = Selected(A, Vars \ ToSet(P))
    /\ ToSet(R) = ToSet(A)
    /\ IsInjective(R)
    /\ Selected(A, ToSet(P)) = P => R = A

\* The promoted variables come out in their order, the others where they were.
LEMMA RearrangedFacts ==
    ASSUME NEW A \in Seq(Vars), NEW P \in Seq(Vars), IsInjective(A), IsInjective(P),
           ToSet(P) \subseteq ToSet(A), NEW R \in Seq(Vars), IsRearranged(R, A, P)
    PROVE  ComesOutInOrder(R, A, P)
<1> DEFINE S == ToSet(P)
           u == SelectedUpTo(A, S)
           v == SelectedUpTo(R, S)
<1>1. /\ Len(A) \in Nat /\ Len(R) = Len(A)
      /\ Len(P) \in Nat /\ DOMAIN A = 1 .. Len(A) /\ DOMAIN R = 1 .. Len(A)
      /\ \A i \in 1 .. Len(A) : A[i] \in Vars /\ R[i] \in Vars
      /\ \A p \in 1 .. Len(P) : P[p] \in S /\ P[p] \in Vars
  BY DEF IsRearranged, ToSet
<1>2. \A i \in 1 .. Len(A) : R[i] = IF A[i] \in S THEN P[Len(u[i])] ELSE A[i]
  BY DEF IsRearranged
<1>3. /\ Len(Selected(A, S)) = Len(P)
      /\ \A i \in 1 .. Len(A) : A[i] \in S => Len(u[i]) \in 1 .. Len(P)
      /\ \A i, j \in 1 .. Len(A) : i < j /\ A[j] \in S => Len(u[i]) < Len(u[j])
  BY PromotedSlots
<1> HIDE DEF S
<1>4. /\ u[0] = <<>> /\ \A k \in 0 .. Len(A) : u[k] \in Seq(Vars)
      /\ \A k \in 1 .. Len(A) : u[k] = IF A[k] \in S THEN Append(u[k - 1], A[k]) ELSE u[k - 1]
  BY SelectedUpToSteps
<1>5. /\ v[0] = <<>> /\ \A k \in 0 .. Len(A) : v[k] \in Seq(Vars)
      /\ \A k \in 1 .. Len(A) : v[k] = IF R[k] \in S THEN Append(v[k - 1], R[k]) ELSE v[k - 1]
  <2>1. /\ v[0] = <<>> /\ v \in [0 .. Len(R) -> Seq(Vars)]
        /\ \A k \in 1 .. Len(R) : v[k] = IF R[k] \in S THEN Append(v[k - 1], R[k]) ELSE v[k - 1]
    BY SelectedUpToSteps
  <2> HIDE DEF v
  <2> QED
    BY <1>1, <2>1
<1>6. Selected(R, S) = P
  <2> DEFINE W == {k \in 0 .. Len(A) : Len(v[k]) = Len(u[k]) /\ BeginsWith(P, v[k])}
  <2> HIDE DEF u, v
  <2>1. 0 \in W
    BY <1>1, <1>4, <1>5 DEF BeginsWith
  <2>2. ASSUME NEW k \in 1 .. Len(A), k - 1 \in W PROVE k \in W
    <3>1. /\ k \in 0 .. Len(A) /\ k - 1 \in 0 .. Len(A)
          /\ u[k - 1] \in Seq(Vars) /\ v[k - 1] \in Seq(Vars)
          /\ Len(v[k - 1]) = Len(u[k - 1]) /\ BeginsWith(P, v[k - 1])
      BY <1>1, <1>4, <1>5, <2>2
    <3>2. CASE A[k] \in S
      <4>1. u[k] = Append(u[k - 1], A[k]) /\ Len(u[k]) \in 1 .. Len(P)
        BY <1>3, <1>4, <3>2
      <4>2. R[k] = P[Len(u[k])] /\ R[k] \in S
        BY <1>1, <1>2, <3>2, <4>1
      <4>3. v[k] = Append(v[k - 1], R[k])
        BY <1>5, <4>2
      <4>4. Len(u[k]) = Len(v[k - 1]) + 1
        BY <1>1, <3>1, <4>1
      <4>5. Len(v[k]) = Len(u[k]) /\ BeginsWith(P, v[k])
        BY <1>1, <3>1, <4>1, <4>2, <4>3, <4>4 DEF BeginsWith
      <4> QED
        BY <3>1, <4>5
    <3>3. CASE A[k] \notin S
      BY <1>2, <1>4, <1>5, <3>1, <3>3
    <3> QED
      BY <3>2, <3>3
  <2>3. 0 .. Len(A) \subseteq W
    <3> HIDE DEF W
    <3> QED
      BY <1>1, <2>1, <2>2, UpToInduction
  <2>4. Len(v[Len(A)]) = Len(P) /\ BeginsWith(P, v[Len(A)]) /\ v[Len(A)] \in Seq(Vars)
    BY <1>1, <1>3, <1>5, <2>3 DEF u, Selected
  <2>5. v[Len(A)] = P
    BY <2>4, SeqEqual DEF BeginsWith
  <2> QED
    BY <1>1, <2>5 DEF v, Selected
<1>7. \A i \in 1 .. Len(A) : R[i] \in S <=> A[i] \in S
  <2> HIDE DEF u
  <2> QED
    BY <1>1, <1>2, <1>3
<1>8. Selected(R, Vars \ S) = Selected(A, Vars \ S)
  <2> DEFINE N == Vars \ S
  <2>1. \A i \in 1 .. Len(R) : R[i] \in N \/ A[i] \in N => R[i] = A[i]
    BY <1>1, <1>2, <1>7
  <2> HIDE DEF N
  <2>2. Selected(R, N) = Selected(A, N)
    BY <1>1, <2>1, SelectedSame
  <2> QED
    BY <2>2 DEF N
<1>9. ToSet(R) = ToSet(A)
  <2>1. ToSet(R) \cap S = ToSet(P)
    BY <1>6, SelectedElements
  <2>2. ToSet(R) \ S = ToSet(A) \ S
    <3> HIDE DEF u
    <3> QED
      BY <1>1, <1>2, <1>7 DEF ToSet
  <2>3. S \subseteq ToSet(A) /\ S = ToSet(P)
    BY DEF S
  <2> QED
    BY <2>1, <2>2, <2>3
<1>10. IsInjective(R)
  <2>1. SUFFICES ASSUME NEW i \in 1 .. Len(A), NEW j \in 1 .. Len(A), i < j
                 PROVE  R[i] # R[j]
    BY <1>1 DEF IsInjective
  <2> HIDE DEF u
  <2>2. CASE A[i] \in S /\ A[j] \in S
    <3>1. /\ Len(u[i]) \in 1 .. Len(P) /\ Len(u[j]) \in 1 .. Len(P) /\ Len(u[i]) # Len(u[j])
          /\ R[i] = P[Len(u[i])] /\ R[j] = P[Len(u[j])]
      BY <1>1, <1>2, <1>3, <2>1, <2>2
    <3> QED
      BY <3>1 DEF IsInjective
  <2>3. CASE A[i] \notin S /\ A[j] \notin S
    BY <1>1, <1>2, <2>1, <2>3 DEF IsInjective
  <2>4. CASE A[i] \in S <=> A[j] \notin S
    BY <1>7, <2>4
  <2> QED
    BY <2>2, <2>3, <2>4
<1>11. ASSUME Selected(A, S) = P PROVE R = A
  <2>1. ASSUME NEW i \in 1 .. Len(A), A[i] \in S PROVE P[Len(u[i])] = A[i]
    BY <1>11, <2>1, SelectedSlot
  <2>2. \A i \in 1 .. Len(A) : R[i] = A[i]
    BY <1>2, <2>1
  <2> QED
    BY <1>1, <2>2, SeqEqual
<1> QED
  BY <1>6, <1>8, <1>9, <1>10, <1>11 DEF S, ComesOutInOrder

\* What an update makes of the variables of the file: the promoted ones are there
\* in the modules' order, the user's own keep theirs, and a file that has them so
\* is left alone.
LEMMA ReorderedFacts ==
    ASSUME config \in Configs, release \in Releases,
           order \in Seq(Vars), IsInjective(order)
    PROVE  /\ Reordered \in Seq(Vars)
           /\ IsInjective(Reordered)
           /\ ToSet(Reordered) = ToSet(order) \cup ToSet(Promoted)
           /\ Selected(Reordered, ToSet(Promoted)) = Promoted
           /\ Selected(Reordered, Vars \ ToSet(Promoted)) =
                  Selected(order, Vars \ ToSet(Promoted))
           /\ Selected(order, ToSet(Promoted)) = Promoted => Reordered = order
<1> DEFINE A == Appended
           P == Promoted
           S == ToSet(P)
           N == Vars \ S
           R == Reordered
<1>1. /\ A \in Seq(Vars) /\ IsInjective(A) /\ P \in Seq(Vars) /\ IsInjective(P)
      /\ ToSet(A) = ToSet(order) \cup S /\ BeginsWith(A, order)
      /\ \A i \in 1 .. Len(A) : i > Len(order) => A[i] \in S
      /\ S \subseteq ToSet(order) => A = order
  BY AppendedFacts, PromotedFacts
<1>2. \A i \in 1 .. Len(A) : Contains(P, A[i]) <=> A[i] \in S
  BY <1>1 DEF Contains, ToSet
<1>3. R = [i \in 1 .. Len(A) |->
              IF A[i] \in S THEN P[Len(SelectedUpTo(A, S)[i])] ELSE A[i]]
  <2>1. R = [i \in DOMAIN A |->
                IF Contains(P, A[i]) THEN P[Len(SelectedUpTo(A, S)[i])] ELSE A[i]]
    BY DEF Reordered
  <2> HIDE DEF A, P, S, R
  <2>2. DOMAIN A = 1 .. Len(A)
    BY <1>1
  <2> QED
    BY <1>2, <2>1, <2>2
<1>4. \A i \in 1 .. Len(A) : A[i] \in S => Len(SelectedUpTo(A, S)[i]) \in 1 .. Len(P)
  <2> HIDE DEF A, P, R
  <2>1. ToSet(P) \subseteq ToSet(A)
    BY <1>1
  <2> QED
    BY <1>1, <2>1, PromotedSlots
<1>5. R \in Seq(Vars) /\ IsRearranged(R, A, P)
  <2> HIDE DEF A, P, R
  <2>1. Len(A) \in Nat /\ \A i \in 1 .. Len(A) : A[i] \in Vars
    BY <1>1
  <2>2. \A p \in 1 .. Len(P) : P[p] \in Vars
    BY <1>1
  <2>3. R \in [1 .. Len(A) -> Vars]
    BY <1>3, <1>4, <2>1, <2>2
  <2>4. R \in Seq(Vars) /\ Len(R) = Len(A)
    BY <2>1, <2>3
  <2> QED
    BY <1>3, <2>4 DEF IsRearranged
<1> HIDE DEF A, P, R
<1>6. /\ Selected(R, S) = P /\ Selected(R, N) = Selected(A, N)
      /\ ToSet(R) = ToSet(A) /\ IsInjective(R)
      /\ Selected(A, S) = P => R = A
  <2>1. ToSet(P) \subseteq ToSet(A)
    BY <1>1
  <2> QED
    <3>1. A \in Seq(Vars) /\ P \in Seq(Vars) /\ IsInjective(A) /\ IsInjective(P)
      BY <1>1
    <3>2. ComesOutInOrder(R, A, P)
      BY <1>5, <2>1, <3>1, RearrangedFacts
    <3> QED
      BY <3>2 DEF ComesOutInOrder
<1>7. Selected(A, N) = Selected(order, N)
  <2>1. \A i \in 1 .. Len(A) : i > Len(order) => A[i] \notin N
    BY <1>1
  <2> HIDE DEF N
  <2> QED
    BY <1>1, <2>1, SelectedBeyond
<1>8. ASSUME Selected(order, S) = P PROVE R = order
  <2>1. ToSet(P) = ToSet(order) \cap S
    <3> HIDE DEF S
    <3> QED
      BY <1>8, SelectedElements
  <2>2. A = order
    BY <1>1, <2>1
  <2> QED
    BY <1>6, <1>8, <2>2
<1> QED
  BY <1>1, <1>5, <1>6, <1>7, <1>8 DEF A, P, R

\* An include that points, or is meant to point, into a synced module.
Pointing(t) == includes[t] # NoEntry /\ includes[t].path # Foreign

\* What an update makes of the include of a requested task points to its module.
LEMMA UpsertedPoints ==
    ASSUME RememberedInv, ~Refused, NEW t \in Tasks, t \in Requested
    PROVE  Upserted(t) \in Entry /\ Upserted(t).path = config.target
<1> USE SentinelsAssumption
<1>1. config.target \in Targets
  BY ConstantsAssumption DEF RememberedInv
<1>2. includes[t] \in Entry \cup {NoEntry}
  BY DEF RememberedInv
<1>3. \A vs \in [Vars -> {"unset", "reference", "own"}] :
          MergedVars(t, vs) \in [Vars -> {"unset", "reference", "own"}]
  BY DEF MergedVars
<1>4. Unset \in [Vars -> {"unset", "reference", "own"}]
  BY DEF Unset
<1>5. CASE includes[t] = NoEntry
  BY <1>1, <1>3, <1>4, <1>5 DEF Upserted, Entry
<1>6. CASE includes[t] \in Entry /\ includes[t].scalar
  <2>1. IsManagedInclude(t)
    BY <1>6 DEF Refused
  <2> QED
    BY <1>1, <1>6, <2>1 DEF Upserted, IsManagedInclude, Entry
<1>7. CASE includes[t] \in Entry /\ ~includes[t].scalar
  <2>1. includes[t] # NoEntry /\ includes[t].vars \in [Vars -> {"unset", "reference", "own"}]
    BY <1>7 DEF Entry
  <2>2. MergedVars(t, includes[t].vars) \in [Vars -> {"unset", "reference", "own"}]
    BY <1>3, <2>1
  <2>3. Upserted(t) = [includes[t] EXCEPT !.path = config.target,
                                          !.vars = MergedVars(t, includes[t].vars)]
    BY <1>7, <2>1 DEF Upserted
  <2> QED
    BY <1>1, <1>7, <2>2, <2>3 DEF Entry
<1> QED
  BY <1>2, <1>5, <1>6, <1>7

-----------------------------------------------------------------------------

\* The promotion of an updated file keeps the invariant: what is not requested
\* and stays was already forgotten.
LEMMA WriteRootRemembers ==
    ASSUME RememberedInv, WriteRoot
    PROVE  RememberedInv'
<1> USE SentinelsAssumption
<1>1. /\ ~Refused /\ config.syncRoot /\ pc = "idle"
      /\ includes' = UpdatedIncludes
      /\ pc' = "lock" /\ outcome' = "none"
      /\ UNCHANGED <<lock, config, lostIncludes>>
  BY DEF WriteRoot, lost
<1>2. Requested' = Requested /\ Managed' = Managed
  BY <1>1 DEF Requested, Managed
<1>3. \A t \in Tasks : includes'[t] =
          IF t \in Requested THEN Upserted(t)
          ELSE IF t \in Managed THEN NoEntry ELSE includes[t]
  BY <1>1 DEF UpdatedIncludes
<1>4. includes' \in [Tasks -> Entry \cup {NoEntry}]
  <2>1. \A t \in Tasks : includes'[t] \in Entry \cup {NoEntry}
    BY <1>1, <1>3, UpsertedPoints DEF RememberedInv
  <2>2. includes' = [t \in Tasks |-> includes'[t]]
    BY <1>1 DEF UpdatedIncludes
  <2> QED
    BY <2>1, <2>2
<1>5. ASSUME NEW t \in Tasks, Pointing(t)'
      PROVE  \/ t \in Requested /\ includes'[t].path = config.target
             \/ t \in lostIncludes \ (Requested \cup Managed)
  <2>1. CASE t \in Requested
    BY <1>1, <1>3, <2>1, UpsertedPoints
  <2>2. CASE t \notin Requested
    BY <1>1, <1>3, <1>5, <2>2 DEF RememberedInv, Pointing
  <2> QED
    BY <2>1, <2>2
<1> QED
  BY <1>1, <1>2, <1>4, <1>5 DEF RememberedInv, Pointing, NoDanglingInclude, RootSynced

\* The promotion of the lock: it lists what the run made requested, and what an
\* earlier lock listed and this run did not look at is forgotten.
LEMMA WriteLockRemembers ==
    ASSUME RememberedInv, WriteLock
    PROVE  RememberedInv'
<1> USE SentinelsAssumption
<1>1. /\ pc = "lock" /\ pc' = "idle" /\ lock' = NewLock
      /\ UNCHANGED <<includes, config, release>>
  BY DEF WriteLock, root
<1>2. NewLock \in Lock /\ NewLock.cfg = config /\ NewLock # None
  BY DEF NewLock, Lock, Generated, RememberedInv
<1>3. Managed' = Requested /\ Requested' = Requested /\ lock' # None
  BY <1>1, <1>2 DEF Managed, Requested
<1>4. CASE config.syncRoot
  <2>1. lostIncludes' = lostIncludes \ (Requested \cup Managed)
    BY <1>4 DEF WriteLock
  <2>2. \A t \in Tasks : Pointing(t)' =>
            \/ t \in Requested /\ includes'[t].path = config'.target
            \/ t \in lostIncludes'
    BY <1>1, <1>4, <2>1 DEF RememberedInv, Pointing
  <2>3. NoDanglingInclude'
    BY <1>3, <2>2 DEF NoDanglingInclude, Pointing
  <2> QED
    BY <1>1, <1>2, <1>3, <2>2, <2>3 DEF RememberedInv, Pointing
<1>5. CASE ~config.syncRoot
  <2>1. lostIncludes' = (lostIncludes \cup Managed) \ Requested
    BY <1>5 DEF WriteLock
  <2>2. NoDanglingInclude'
    BY <1>1, <1>5 DEF NoDanglingInclude, RootSynced
  <2>3. \A t \in Tasks : Pointing(t)' => t \in lostIncludes' \/ t \in Managed'
    BY <1>1, <1>3, <1>5, <2>1 DEF RememberedInv, Pointing
  <2> QED
    BY <1>1, <1>2, <1>3, <2>2, <2>3 DEF RememberedInv, Pointing
<1> QED
  BY <1>4, <1>5

\* What the user writes by hand into a module's include is in the lock.
LEMMA EditIncludeRemembers ==
    ASSUME RememberedInv, NEW t \in Tasks, EditInclude(t)
    PROVE  RememberedInv'
<1> USE SentinelsAssumption
<1>1. /\ pc = "idle" /\ outcome' = "none"
      /\ UNCHANGED <<lock, config, pc, lostIncludes>>
  BY DEF EditInclude, Edit, lost
<1>2. PICK e \in HandWritten(t) \cup
                 {NoEntry, [scalar |-> FALSE, path |-> Foreign, vars |-> Unset]} :
          includes' = [includes EXCEPT ![t] = e]
  BY DEF EditInclude
<1>3. e \in Entry \cup {NoEntry}
  <2>1. Unset \in [Vars -> {"unset", "reference", "own"}]
    BY DEF Unset
  <2>2. HandWritten(t) \subseteq Entry
    BY DEF HandWritten
  <2>3. [scalar |-> FALSE, path |-> Foreign, vars |-> Unset] \in Entry
    BY <2>1 DEF Entry
  <2> QED
    BY <1>2, <2>2, <2>3
<1>4. e # NoEntry /\ e.path # Foreign => lock # None /\ t \in Managed
  <2>1. e \notin HandWritten(t) => e = NoEntry \/ e.path = Foreign
    BY <1>2
  <2>2. HandWritten(t) # {} => lock # None /\ t \in Managed
    BY DEF HandWritten
  <2> QED
    BY <2>1, <2>2
<1>5. includes' \in [Tasks -> Entry \cup {NoEntry}]
  BY <1>2, <1>3 DEF RememberedInv
<1>6. Requested' = Requested /\ Managed' = Managed
  BY <1>1 DEF Requested, Managed
<1>7. \A u \in Tasks : Pointing(u)' =>
          u \in lostIncludes \/ (lock # None /\ u \in Managed)
  BY <1>1, <1>2, <1>4 DEF RememberedInv, Pointing
<1> QED
  BY <1>1, <1>5, <1>6, <1>7 DEF RememberedInv, Pointing, NoDanglingInclude, RootSynced

-----------------------------------------------------------------------------

\* Every step keeps the invariant.
LEMMA StepRemembers ==
    ASSUME RememberedInv, [Next]_vars
    PROVE  RememberedInv'
<1> USE SentinelsAssumption
<1>1. CASE Refuse
  BY <1>1 DEF Refuse, RememberedInv, root, lost, Managed, Requested, NoDanglingInclude, RootSynced
<1>2. CASE WriteRoot
  BY <1>2, WriteRootRemembers
<1>3. CASE SkipRoot
  BY <1>3 DEF SkipRoot, RememberedInv, root, lost, Managed, Requested, NoDanglingInclude, RootSynced
<1>4. CASE WriteLock
  BY <1>4, WriteLockRemembers
<1>5. CASE Crash
  BY <1>5 DEF Crash, RememberedInv, root, Managed, Requested, NoDanglingInclude, RootSynced
<1>6. ASSUME NEW t \in Tasks, EditInclude(t) PROVE RememberedInv'
  BY <1>6, EditIncludeRemembers
<1>7. ASSUME Edit, UNCHANGED includes, config' \in Configs PROVE RememberedInv'
  <2>1. pc = "idle" /\ outcome' = "none" /\ UNCHANGED <<lock, pc, lostIncludes, includes>>
    BY <1>7 DEF Edit, lost
  <2>2. lock # None => Managed' = Managed
    BY <2>1 DEF Managed
  <2> QED
    BY <1>7, <2>1, <2>2 DEF RememberedInv, NoDanglingInclude, RootSynced
<1>8. config \in Configs
  BY DEF RememberedInv
<1>9. ASSUME NEW k \in Vars, EditVar(k) PROVE RememberedInv'
  BY <1>7, <1>8, <1>9 DEF EditVar
<1>10. ASSUME NEW n \in Names, EditTask(n) PROVE RememberedInv'
  BY <1>7, <1>8, <1>10 DEF EditTask
<1>11. CASE MoveVars
  BY <1>7, <1>8, <1>11 DEF MoveVars
<1>12. CASE Break
  BY <1>7, <1>8, <1>12 DEF Break, root
<1>13. CASE Reconfigure
  BY <1>7, <1>13 DEF Reconfigure, root
<1>14. CASE Publish
  BY <1>7, <1>8, <1>14 DEF Publish, root
<1>15. CASE UNCHANGED vars
  BY <1>15 DEF vars, root, lost, RememberedInv, Managed, Requested, NoDanglingInclude, RootSynced
<1> QED
  BY <1>1, <1>2, <1>3, <1>4, <1>5, <1>6, <1>9, <1>10, <1>11, <1>12, <1>13, <1>14, <1>15
  DEF Next, Run

-----------------------------------------------------------------------------

\* How often a name is listed is a number.
LEMMA ListingsTyped ==
    ASSUME NEW r \in Releases, NEW t \in Tasks, NEW n \in Names
    PROVE  Listings(r, t, n) \in Nat
  BY ConstantsAssumption DEF Listings

\* The calls of a generated task are well defined, and grow task by task.
LEMMA MembersUpToSteps ==
    ASSUME NEW c \in Configs, NEW r \in Releases, NEW n \in Names
    PROVE  /\ MembersUpTo(c, r, n) \in [0 .. Len(c.tasks) -> Seq(Tasks)]
           /\ MembersUpTo(c, r, n)[0] = <<>>
           /\ \A i \in 1 .. Len(c.tasks) : MembersUpTo(c, r, n)[i] =
                  MembersUpTo(c, r, n)[i - 1] \o
                      [j \in 1 .. Listings(r, c.tasks[i], n) |-> c.tasks[i]]
<1> DEFINE m == Len(c.tasks)
           more(i) == [j \in 1 .. Listings(r, c.tasks[i], n) |-> c.tasks[i]]
           step == [is \in (1 .. m) \X Seq(Tasks) |-> is[2] \o more(is[1])]
           Steps(g) == g = [i \in 0 .. m |->
                               IF i = 0 THEN <<>> ELSE g[i - 1] \o more(i)]
           u == MembersUpTo(c, r, n)
<1>1. m \in Nat /\ \A i \in 1 .. m : c.tasks[i] \in Tasks
  BY ConstantsAssumption
<1>2. ASSUME NEW i \in 1 .. m PROVE more(i) \in Seq(Tasks)
  <2>1. c.tasks[i] \in Tasks
    BY <1>1
  <2>2. Listings(r, c.tasks[i], n) \in Nat
    BY <2>1, ListingsTyped
  <2> QED
    BY <2>1, <2>2
<1> HIDE DEF m, more
<1>3. step \in [(1 .. m) \X Seq(Tasks) -> Seq(Tasks)]
  <2>1. \A is \in (1 .. m) \X Seq(Tasks) :
            is[2] \in Seq(Tasks) /\ more(is[1]) \in Seq(Tasks)
    BY <1>2
  <2>2. \A is \in (1 .. m) \X Seq(Tasks) : is[2] \o more(is[1]) \in Seq(Tasks)
    BY <2>1
  <2> QED
    BY <2>2
<1>4. \E g : Steps(g)
  <2>1. IsLoop(m, Seq(Tasks), <<>>, step)
    BY <1>1, <1>3 DEF IsLoop
  <2>2. PICK g : Iterates(g, m, Seq(Tasks), <<>>, step)
    BY <2>1, RecursionUpTo
  <2>3. g \in [0 .. m -> Seq(Tasks)]
    BY <2>2 DEF Iterates
  <2>4. ASSUME NEW i \in 1 .. m PROVE step[<<i, g[i - 1]>>] = g[i - 1] \o more(i)
    <3>1. <<i, g[i - 1]>> \in (1 .. m) \X Seq(Tasks)
      BY <1>1, <2>3
    <3> QED
      BY <3>1
  <2> HIDE DEF step
  <2>5. \A i \in 0 .. m : g[i] = IF i = 0 THEN <<>> ELSE g[i - 1] \o more(i)
    <3>1. g[0] = <<>> /\ \A i \in 1 .. m : g[i] = step[<<i, g[i - 1]>>]
      BY <2>2 DEF Iterates
    <3>2. \A i \in 0 .. m : i = 0 \/ i \in 1 .. m
      BY <1>1
    <3> QED
      BY <2>4, <3>1, <3>2
  <2>6. Steps(g)
    BY <2>3, <2>5
  <2> QED
    BY <2>6
<1>5. Steps(u)
  <2> u = CHOOSE g : Steps(g)
    BY DEF MembersUpTo, m, more
  <2> HIDE DEF Steps, u
  <2> QED
    BY <1>4
<1> HIDE DEF u
<1>6. \A i \in 0 .. m : u[i] = IF i = 0 THEN <<>> ELSE u[i - 1] \o more(i)
  BY <1>5
<1>7. u[0] = <<>> /\ \A i \in 1 .. m : u[i] = u[i - 1] \o more(i)
  <2>1. 0 \in 0 .. m /\ \A i \in 1 .. m : i \in 0 .. m /\ i # 0
    BY <1>1
  <2>2. u[0] = <<>>
    BY <1>6, <2>1
  <2> QED
    BY <1>6, <2>1, <2>2
<1>8. u \in [0 .. m -> Seq(Tasks)]
  <2> DEFINE W == {i \in 0 .. m : u[i] \in Seq(Tasks)}
  <2>1. 0 \in W
    <3>1. 0 \in 0 .. m /\ <<>> \in Seq(Tasks)
      BY <1>1
    <3> QED
      BY <1>7, <3>1
  <2>2. ASSUME NEW i \in 1 .. m, i - 1 \in W PROVE i \in W
    <3>1. i \in 0 .. m /\ u[i - 1] \in Seq(Tasks) /\ more(i) \in Seq(Tasks)
      BY <1>1, <1>2, <2>2
    <3>2. u[i - 1] \o more(i) \in Seq(Tasks)
      BY <3>1
    <3> QED
      BY <1>7, <3>1, <3>2
  <2>3. 0 .. m \subseteq W
    <3> HIDE DEF W
    <3> QED
      BY <1>1, <2>1, <2>2, UpToInduction
  <2>4. u = [i \in 0 .. m |-> u[i]]
    BY <1>5
  <2> QED
    BY <2>3, <2>4
<1> QED
  BY <1>7, <1>8 DEF u, m, more

\* A generated task calls only requested tasks whose modules list its name.
LEMMA MembersFacts ==
    ASSUME config \in Configs, release \in Releases, NEW n \in Names
    PROVE  /\ Members(n) \in Seq(Tasks)
           /\ \A t \in ToSet(Members(n)) :
                  t \in Requested /\ Listings(release, t, n) > 0
           /\ Members(n) \notin {NoTask, ByUser}
<1> DEFINE m == Len(config.tasks)
           u == MembersUpTo(config, release, n)
           more(i) == [j \in 1 .. Listings(release, config.tasks[i], n) |-> config.tasks[i]]
           Callable == {t \in Requested : Listings(release, t, n) > 0}
           W == {i \in 0 .. m : ToSet(u[i]) \subseteq Callable}
<1>1. /\ m \in Nat /\ u[0] = <<>>
      /\ \A i \in 0 .. m : u[i] \in Seq(Tasks)
      /\ \A i \in 1 .. m : u[i] = u[i - 1] \o more(i)
  <2>1. m \in Nat
    BY ConstantsAssumption
  <2>2. /\ u \in [0 .. m -> Seq(Tasks)] /\ u[0] = <<>>
        /\ \A i \in 1 .. m : u[i] = u[i - 1] \o more(i)
    BY MembersUpToSteps
  <2> HIDE DEF u, m, more
  <2> QED
    BY <2>1, <2>2
<1>2. ASSUME NEW i \in 1 .. m
      PROVE  more(i) \in Seq(Tasks) /\ ToSet(more(i)) \subseteq Callable
  <2>1. config.tasks[i] \in Tasks /\ config.tasks[i] \in Requested
    BY ConstantsAssumption DEF Requested, ToSet
  <2>2. Listings(release, config.tasks[i], n) \in Nat
    BY <2>1, ListingsTyped
  <2>3. more(i) \in Seq(Tasks)
    BY <2>1, <2>2
  <2>4. ASSUME NEW j \in DOMAIN more(i) PROVE more(i)[j] \in Callable
    <3>1. j \in 1 .. Listings(release, config.tasks[i], n) /\ more(i)[j] = config.tasks[i]
      OBVIOUS
    <3>2. Listings(release, config.tasks[i], n) > 0
      BY <2>2, <3>1
    <3> QED
      BY <2>1, <3>1, <3>2
  <2> HIDE DEF more, Callable
  <2> QED
    BY <2>3, <2>4 DEF ToSet
<1> HIDE DEF m, u, more, Callable
<1>3. 0 \in W
  BY <1>1 DEF ToSet
<1>4. ASSUME NEW i \in 1 .. m, i - 1 \in W PROVE i \in W
  <2> DEFINE a == u[i - 1]
             b == more(i)
             d == u[i]
  <2>1. a \in Seq(Tasks) /\ b \in Seq(Tasks) /\ d = a \o b
    BY <1>1, <1>2
  <2>2. ToSet(a) \subseteq Callable /\ ToSet(b) \subseteq Callable
    BY <1>2, <1>4
  <2> HIDE DEF a, b, d
  <2>3. ASSUME NEW j \in DOMAIN d PROVE d[j] \in ToSet(a) \cup ToSet(b)
    <3>1. Len(a) \in Nat /\ Len(b) \in Nat /\ DOMAIN a = 1 .. Len(a) /\ DOMAIN b = 1 .. Len(b)
          /\ DOMAIN d = 1 .. Len(a) + Len(b)
      BY <2>1
    <3>2. CASE j <= Len(a)
      <4>1. d[j] = a[j] /\ j \in DOMAIN a
        BY <2>1, <3>1, <3>2
      <4> QED
        BY <4>1 DEF ToSet
    <3>3. CASE j > Len(a)
      <4>1. d[j] = b[j - Len(a)] /\ j - Len(a) \in DOMAIN b
        BY <2>1, <3>1, <3>3
      <4> QED
        BY <4>1 DEF ToSet
    <3> QED
      BY <3>1, <3>2, <3>3
  <2>4. ToSet(d) \subseteq Callable
    BY <2>2, <2>3 DEF ToSet
  <2> QED
    BY <2>4 DEF d
<1>5. 0 .. m \subseteq W
  <2> HIDE DEF W
  <2> QED
    BY <1>1, <1>3, <1>4, UpToInduction
<1>6. Members(n) \in Seq(Tasks) /\ ToSet(Members(n)) \subseteq Callable
  <2>1. u[m] \in Seq(Tasks) /\ ToSet(u[m]) \subseteq Callable
    BY <1>1, <1>5
  <2>2. <<>> \in Seq(Tasks) /\ ToSet(<<>>) \subseteq Callable
    BY DEF ToSet
  <2>3. Members(n) = u[m] \/ Members(n) = <<>>
    BY DEF Members, u, m
  <2> QED
    BY <2>1, <2>2, <2>3
<1> QED
  BY <1>6, SentinelsAssumption DEF Callable

\* While neither the configuration nor the release changes, an update asks for
\* the same.
LEMMA SameInput ==
    ASSUME UNCHANGED <<config, release>>
    PROVE  /\ Requested' = Requested
           /\ Promoted' = Promoted
           /\ Generated' = Generated
           /\ \A t \in Tasks : VarsOf(t)' = VarsOf(t)
           /\ \A n \in Names : Members(n)' = Members(n)
           /\ \A k \in Vars : BlockOfModule(k)' = BlockOfModule(k)
<1>1. Common(release)' = Common(release)
  BY DEF Common
<1>2. \A n \in Names : Members(n)' = Members(n)
  BY <1>1 DEF Members
<1>3. Generated' = Generated
  BY <1>2 DEF Generated
<1>4. Requested' = Requested /\ Promoted' = Promoted
  BY DEF Requested, Promoted
<1>5. \A t \in Tasks : VarsOf(t)' = VarsOf(t)
  BY DEF VarsOf
<1>6. \A k \in Vars : BlockOfModule(k)' = BlockOfModule(k)
  BY DEF BlockOfModule, VarsOf
<1> QED
  BY <1>2, <1>3, <1>4, <1>5, <1>6

\* And an update of the same file makes the same of it.
LEMMA SameFile ==
    ASSUME UNCHANGED <<includes, value, config, release>>
    PROVE  /\ \A k \in Vars : UpdatedValue(k)' = UpdatedValue(k)
           /\ \A t \in Tasks : Upserted(t)' = Upserted(t)
<1>1. \A k \in Vars : UpdatedValue(k)' = UpdatedValue(k)
  BY SameInput DEF UpdatedValue
<1>2. \A t \in Tasks : \A vs : MergedVars(t, vs)' = MergedVars(t, vs)
  BY SameInput DEF MergedVars
<1>3. \A t \in Tasks : Upserted(t)' = Upserted(t)
  BY <1>2 DEF Upserted
<1> QED
  BY <1>1, <1>3

\* What an update makes of a variable's value, another update leaves alone.
LEMMA ValueSettles ==
    ASSUME RootTypeOK, WriteRoot, NEW k \in Vars
    PROVE  /\ UpdatedValue(k)' = value'[k]
           /\ value'[k] \in {"absent", "default", "block", "own", "ownblock"}
           /\ value'[k] # "absent" <=> k \in ToSet(order) \cup ToSet(Promoted)
<1>1. value'[k] = UpdatedValue(k) /\ UNCHANGED <<config, release>>
  BY DEF WriteRoot
<1>2. Contains(Promoted, k)' = Contains(Promoted, k) /\ BlockOfModule(k)' = BlockOfModule(k)
  <2>1. Promoted' = Promoted
    BY <1>1, SameInput
  <2> QED
    BY <1>1, <2>1, SameInput
<1>3. UpdatedValue(k)' = value'[k]
  BY <1>1, <1>2 DEF UpdatedValue
<1>4. value[k] \in {"absent", "default", "block", "own", "ownblock"}
  BY DEF RootTypeOK
<1>5. Contains(Promoted, k) <=> k \in ToSet(Promoted)
  <2>1. Promoted \in Seq(Vars)
    BY PromotedFacts DEF RootTypeOK
  <2>2. DOMAIN Promoted = 1 .. Len(Promoted)
    BY <2>1
  <2> QED
    BY <2>2 DEF Contains, ToSet
<1>6. value[k] # "absent" <=> k \in ToSet(order)
  BY DEF RootTypeOK
<1> QED
  BY <1>1, <1>3, <1>4, <1>5, <1>6 DEF UpdatedValue

\* What an update makes of a requested task's include, another leaves alone.
LEMMA IncludeSettles ==
    ASSUME RememberedInv, WriteRoot, NEW t \in Tasks, t \in Requested
    PROVE  /\ includes'[t] # NoEntry
           /\ includes'[t].path = config.target
           /\ Upserted(t)' = includes'[t]
<1>1. /\ ~Refused /\ includes' = UpdatedIncludes /\ UNCHANGED <<config, release>>
  BY DEF WriteRoot
<1>2. includes'[t] = Upserted(t)
  BY <1>1 DEF UpdatedIncludes
<1>3. Upserted(t) \in Entry /\ Upserted(t).path = config.target
  BY <1>1, UpsertedPoints
<1>4. includes'[t] # NoEntry
  BY <1>2, <1>3, SentinelsAssumption
<1>5. VarsOf(t)' = VarsOf(t)
  BY <1>1, SameInput
<1>6. \A vs : MergedVars(t, vs)' = MergedVars(t, vs)
  BY <1>5 DEF MergedVars
<1>7. ASSUME ~includes'[t].scalar
      PROVE  MergedVars(t, includes'[t].vars) = includes'[t].vars
  <2>1. PICK vs : includes'[t].vars = MergedVars(t, vs)
    BY <1>2, <1>3, <1>7 DEF Upserted, Entry
  <2> QED
    BY <2>1 DEF MergedVars
<1>8. Upserted(t)' = includes'[t]
  <2>1. CASE includes'[t].scalar
    BY <1>4, <2>1 DEF Upserted
  <2>2. CASE ~includes'[t].scalar
    <3>1. Upserted(t)' = [includes'[t] EXCEPT !.path = config'.target,
                                              !.vars = MergedVars(t, includes'[t].vars)]
      BY <1>4, <1>6, <2>2 DEF Upserted
    <3>2. Upserted(t)' = [includes'[t] EXCEPT !.path = includes'[t].path,
                                              !.vars = includes'[t].vars]
      BY <1>1, <1>2, <1>3, <1>7, <2>2, <3>1
    <3> QED
      BY <1>2, <1>3, <3>2 DEF Entry
  <2> QED
    BY <2>1, <2>2
<1> QED
  BY <1>2, <1>3, <1>4, <1>8

-----------------------------------------------------------------------------

\* The promotion of an updated file: it is what was asked for.
LEMMA WriteRootKeeps ==
    ASSUME RootInv, WriteRoot
    PROVE  RootInv'
<1>1. /\ ~Refused /\ config.syncRoot /\ pc = "idle" /\ pc' = "lock" /\ outcome' = "none"
      /\ includes' = UpdatedIncludes /\ order' = Reordered
      /\ value' = [k \in Vars |-> UpdatedValue(k)] /\ tasks' = UpdatedTasks
      /\ UNCHANGED <<broken, lock, config, release, edits, faults, lostIncludes, lostTasks>>
  BY DEF WriteRoot, lost
<1>2. RootTypeOK /\ RememberedInv /\ TasksRemembered
  BY DEF RootInv
<1>3. RememberedInv'
  BY <1>2, WriteRootRemembers
<1>4. /\ order' \in Seq(Vars) /\ IsInjective(order')
      /\ ToSet(order') = ToSet(order) \cup ToSet(Promoted)
      /\ Selected(order', ToSet(Promoted)) = Promoted
  BY <1>1, <1>2, ReorderedFacts DEF RootTypeOK
<1>5. \A k \in Vars :
          /\ UpdatedValue(k)' = value'[k]
          /\ value'[k] \in {"absent", "default", "block", "own", "ownblock"}
          /\ value'[k] # "absent" <=> k \in ToSet(order) \cup ToSet(Promoted)
  BY <1>2, ValueSettles
<1>6. \A n \in Names : tasks'[n] = IF n \in Generated THEN Members(n)
                                   ELSE IF n \in ManagedRoot THEN NoTask ELSE tasks[n]
  BY <1>1 DEF UpdatedTasks
<1>7. ManagedRoot' = ManagedRoot
  BY <1>1 DEF ManagedRoot
<1>8. \A n \in Names : Members(n) \in Seq(Tasks)
  BY <1>2, MembersFacts DEF RootTypeOK
<1>9. RootTypeOK'
  <2>1. value' \in [Vars -> {"absent", "default", "block", "own", "ownblock"}]
    BY <1>1, <1>5
  <2>2. tasks' \in [Names -> {NoTask, ByUser} \cup Seq(Tasks)]
    <3>1. \A n \in Names : tasks'[n] \in {NoTask, ByUser} \cup Seq(Tasks)
      BY <1>2, <1>6, <1>8 DEF RootTypeOK
    <3> QED
      BY <1>1, <3>1 DEF UpdatedTasks
  <2>3. ToSet(order') = {k \in Vars : value'[k] # "absent"}
    <3>1. ToSet(order') \subseteq Vars
      BY <1>4 DEF ToSet
    <3> QED
      BY <1>4, <1>5, <3>1
  <2> QED
    BY <1>1, <1>2, <1>3, <1>4, <2>1, <2>2, <2>3 DEF RootTypeOK, RememberedInv
<1>10. TasksRemembered'
  BY <1>1, <1>2, <1>6, <1>7, SameInput DEF TasksRemembered
<1>11. UpToDate'
  <2>1. ~broken'
    BY <1>1 DEF Refused
  <2>2. Selected(order', ToSet(Promoted')) = Promoted'
    BY <1>1, <1>4, SameInput
  <2>3. \A t \in Requested' : /\ includes'[t] # NoEntry
                              /\ includes'[t].path = config'.target
                              /\ Upserted(t)' = includes'[t]
    <3>1. Requested \subseteq Tasks
      BY <1>2, ConstantsAssumption DEF RootTypeOK, Requested, ToSet
    <3>2. Requested' = Requested
      BY <1>1, SameInput
    <3> QED
      BY <1>1, <1>2, <3>1, <3>2, IncludeSettles
  <2>4. \A n \in Generated' : tasks'[n] = Members(n)'
    BY <1>1, <1>6, SameInput DEF Generated
  <2>5. \A n \in ManagedRoot' \ Generated' : tasks'[n] = NoTask
    <3>1. ManagedRoot \subseteq Names
      BY <1>2 DEF RootTypeOK, ManagedRoot, Lock
    <3> QED
      BY <1>1, <1>6, <1>7, <3>1, SameInput
  <2> QED
    BY <1>5, <2>1, <2>2, <2>3, <2>4, <2>5 DEF UpToDate
<1> QED
  BY <1>1, <1>3, <1>9, <1>10, <1>11 DEF RootInv

\* The promotion of the lock: it says what the file now has.
LEMMA WriteLockKeeps ==
    ASSUME RootInv, WriteLock
    PROVE  RootInv'
<1>1. /\ pc = "lock" /\ pc' = "idle" /\ lock' = NewLock /\ outcome' = "synced"
      /\ UNCHANGED <<includes, order, value, tasks, broken, config, release, edits, faults>>
  BY DEF WriteLock, root
<1>2. RootTypeOK /\ RememberedInv /\ TasksRemembered /\ UpToDate
  BY DEF RootInv
<1>3. NewLock \in Lock /\ NewLock # None
  BY <1>2, SentinelsAssumption DEF NewLock, Lock, Generated, RootTypeOK
<1>4. NewLock' = NewLock
  BY <1>1, SameInput DEF NewLock
<1>5. ManagedRoot' = IF config.syncRoot THEN Generated ELSE {}
  BY <1>1, <1>3 DEF ManagedRoot, NewLock
<1>6. RememberedInv'
  BY <1>2, WriteLockRemembers
<1>7. ManagedRoot \subseteq Names /\ Generated \subseteq Names /\ Requested \subseteq Tasks
  <2>1. Requested \subseteq Tasks
    BY <1>2, ConstantsAssumption DEF RootTypeOK, Requested, ToSet
  <2> QED
    BY <1>2, <2>1 DEF RootTypeOK, ManagedRoot, Lock, Generated
<1>8. Managed \subseteq Tasks
  BY <1>2, <1>7, ConstantsAssumption DEF Managed, RootTypeOK, Lock, ToSet
<1>9. lostIncludes' \subseteq Tasks /\ lostTasks' \subseteq Names
  BY <1>2, <1>7, <1>8 DEF WriteLock, RootTypeOK
<1>10. RootTypeOK'
  BY <1>1, <1>2, <1>3, <1>9 DEF RootTypeOK
<1>11. TasksRemembered'
  <2>1. CASE config.syncRoot
    <3>1. lostTasks' = lostTasks \ (Generated \cup ManagedRoot)
      BY <2>1 DEF WriteLock
    <3> QED
      BY <1>1, <1>2, <1>5, <2>1, <3>1 DEF TasksRemembered
  <2>2. CASE ~config.syncRoot
    <3>1. lostTasks' = lostTasks \cup ManagedRoot
      BY <2>2 DEF WriteLock
    <3> QED
      BY <1>1, <1>2, <1>5, <2>2, <3>1 DEF TasksRemembered
  <2> QED
    BY <2>1, <2>2
<1>12. UpToDate'
  <2>1. CASE ~config.syncRoot
    BY <1>1, <2>1 DEF UpToDate
  <2>2. CASE config.syncRoot
    <3>1. /\ ~broken /\ Selected(order, ToSet(Promoted)) = Promoted
          /\ \A k \in Vars : UpdatedValue(k) = value[k]
          /\ \A t \in Requested :
                includes[t] # NoEntry /\ includes[t].path = config.target
                    /\ Upserted(t) = includes[t]
          /\ \A n \in Generated : tasks[n] = Members(n)
      BY <1>1, <1>2, <2>2 DEF UpToDate
    <3>2. /\ Requested' = Requested /\ Promoted' = Promoted /\ Generated' = Generated
          /\ \A n \in Names : Members(n)' = Members(n)
      BY <1>1, SameInput
    <3>3. \A k \in Vars : UpdatedValue(k)' = UpdatedValue(k)
      BY <1>1, SameFile
    <3>4. \A t \in Requested : Upserted(t)' = Upserted(t)
      BY <1>1, <1>7, SameFile
    <3>5. ManagedRoot' \ Generated' = {}
      BY <1>5, <2>2, <3>2
    <3>6. Selected(order', ToSet(Promoted')) = Promoted'
      BY <1>1, <3>1, <3>2
    <3> QED
      BY <1>1, <1>7, <3>1, <3>2, <3>3, <3>4, <3>5, <3>6 DEF UpToDate
  <2> QED
    BY <2>1, <2>2
<1> QED
  BY <1>1, <1>4, <1>6, <1>10, <1>11, <1>12 DEF RootInv

\* The user moves variables around: they are the same.
LEMMA MovedVars ==
    ASSUME order \in Seq(Vars), IsInjective(order), MoveVars
    PROVE  order' \in Seq(Vars) /\ IsInjective(order') /\ ToSet(order') = ToSet(order)
<1> DEFINE n == Len(order)
<1>1. /\ n \in Nat /\ n > 1 /\ DOMAIN order = 1 .. n
      /\ \A i \in 1 .. n : order[i] \in Vars
  BY DEF MoveVars
<1>2. order' = Reverse(order) \/ order' = Tail(order) \o <<Head(order)>>
  BY DEF MoveVars
<1>3. CASE order' = Reverse(order)
  <2>1. order' = [i \in 1 .. n |-> order[(n - i) + 1]]
    BY <1>3 DEF Reverse
  <2> HIDE DEF n
  <2>2. \A i \in 1 .. n : (n - i) + 1 \in 1 .. n /\ (n - ((n - i) + 1)) + 1 = i
    BY <1>1
  <2>3. DOMAIN order' = 1 .. n /\ \A i \in 1 .. n : order'[i] = order[(n - i) + 1]
    BY <2>1
  <2>4. order' \in [1 .. n -> Vars]
    BY <1>1, <2>1, <2>2
  <2>5. order' \in Seq(Vars)
    BY <1>1, <2>4
  <2>6. ToSet(order') = ToSet(order)
    BY <1>1, <2>2, <2>3 DEF ToSet
  <2>7. IsInjective(order')
    <3>1. SUFFICES ASSUME NEW i \in 1 .. n, NEW j \in 1 .. n, order'[i] = order'[j]
                   PROVE  i = j
      BY <2>3 DEF IsInjective
    <3>2. (n - i) + 1 = (n - j) + 1
      BY <1>1, <2>2, <2>3, <3>1 DEF IsInjective
    <3> QED
      BY <1>1, <3>2
  <2> QED
    BY <2>5, <2>6, <2>7
<1>4. CASE order' = Tail(order) \o <<Head(order)>>
  <2>1. /\ order' \in Seq(Vars) /\ DOMAIN order' = 1 .. n
        /\ \A i \in 1 .. n : order'[i] = IF i = n THEN order[1] ELSE order[i + 1]
    <3> DEFINE a == Tail(order)
               b == <<Head(order)>>
    <3>1. a \in Seq(Vars) /\ Len(a) = n - 1 /\ \A i \in 1 .. n - 1 : a[i] = order[i + 1]
      BY <1>1
    <3>2. b \in Seq(Vars) /\ Len(b) = 1 /\ b[1] = order[1]
      BY <1>1
    <3>3. order' = a \o b
      BY <1>4
    <3> HIDE DEF a, b, n
    <3>4. order' \in Seq(Vars) /\ IsJoin(order', a, b)
      <4>1. a \in Seq(Vars) /\ b \in Seq(Vars)
        BY <3>1, <3>2
      <4>2. a \o b \in Seq(Vars) /\ IsJoin(a \o b, a, b)
        BY <4>1 DEF IsJoin, BeginsWith
      <4> QED
        BY <3>3, <4>2
    <3>5. Len(order') = n
      BY <1>1, <3>1, <3>2, <3>4 DEF IsJoin
    <3>6. ASSUME NEW i \in 1 .. n
          PROVE  order'[i] = IF i = n THEN order[1] ELSE order[i + 1]
      <4>1. CASE i = n
        <5>1. order'[Len(a) + 1] = b[1] /\ Len(a) + 1 = n
          BY <1>1, <3>1, <3>2, <3>4 DEF IsJoin
        <5> QED
          BY <3>2, <4>1, <5>1
      <4>2. CASE i # n
        <5>1. i \in 1 .. Len(a) /\ i \in 1 .. n - 1
          BY <1>1, <3>1, <4>2
        <5> QED
          BY <3>1, <3>4, <4>2, <5>1 DEF IsJoin, BeginsWith
      <4> QED
        BY <4>1, <4>2
    <3> QED
      BY <3>4, <3>5, <3>6
  <2> HIDE DEF n
  <2> DEFINE from(i) == IF i = n THEN 1 ELSE i + 1
             to(i) == IF i = 1 THEN n ELSE i - 1
  <2>2. \A i \in 1 .. n : order'[i] = order[from(i)] /\ from(i) \in 1 .. n
    BY <1>1, <2>1
  <2>3. \A i \in 1 .. n : to(i) \in 1 .. n /\ from(to(i)) = i /\ to(from(i)) = i
    BY <1>1
  <2> HIDE DEF from, to
  <2>4. ToSet(order') = ToSet(order)
    <3>1. \A i \in 1 .. n : order[i] = order'[to(i)] /\ to(i) \in 1 .. n
      BY <2>2, <2>3
    <3>2. ToSet(order) \subseteq ToSet(order')
      BY <1>1, <2>1, <3>1 DEF ToSet
    <3>3. ToSet(order') \subseteq ToSet(order)
      BY <1>1, <2>1, <2>2 DEF ToSet
    <3> QED
      BY <3>2, <3>3
  <2>5. IsInjective(order')
    <3>1. SUFFICES ASSUME NEW i \in 1 .. n, NEW j \in 1 .. n, order'[i] = order'[j]
                   PROVE  i = j
      BY <2>1 DEF IsInjective
    <3>2. from(i) = from(j)
      BY <1>1, <2>2, <3>1 DEF IsInjective
    <3> QED
      BY <2>3, <3>2
  <2> QED
    BY <2>1, <2>4, <2>5
<1> QED
  BY <1>2, <1>3, <1>4

\* The user adds, changes or deletes a variable: the others stay.
LEMMA EditedVar ==
    ASSUME RootTypeOK, NEW k \in Vars, EditVar(k)
    PROVE  /\ order' \in Seq(Vars) /\ IsInjective(order')
           /\ value' \in [Vars -> {"absent", "default", "block", "own", "ownblock"}]
           /\ ToSet(order') = {l \in Vars : value'[l] # "absent"}
<1>1. PICK v \in {"absent", "own", "ownblock"} :
          /\ v # value[k]
          /\ value' = [value EXCEPT ![k] = v]
          /\ order' = IF v = "absent" THEN Selected(order, Vars \ {k})
                      ELSE IF value[k] = "absent" THEN Append(order, k)
                      ELSE order
  BY DEF EditVar
<1>2. /\ order \in Seq(Vars) /\ IsInjective(order)
      /\ value \in [Vars -> {"absent", "default", "block", "own", "ownblock"}]
      /\ ToSet(order) = {l \in Vars : value[l] # "absent"}
  BY DEF RootTypeOK
<1>3. value' \in [Vars -> {"absent", "default", "block", "own", "ownblock"}]
  BY <1>1, <1>2
<1>4. CASE v = "absent"
  <2> DEFINE S == Vars \ {k}
  <2>1. order' = Selected(order, S)
    BY <1>1, <1>4
  <2> HIDE DEF S
  <2>2. /\ order' \in Seq(Vars) /\ IsInjective(order')
        /\ ToSet(order') = ToSet(order) \cap S
    BY <1>2, <2>1, SelectedElements
  <2> QED
    BY <1>1, <1>2, <1>3, <1>4, <2>2 DEF S
<1>5. CASE v # "absent" /\ value[k] = "absent"
  <2> DEFINE d == <<k>>
  <2>1. order' = Append(order, k)
    BY <1>1, <1>5
  <2>2. order' \in Seq(Vars) /\ d \in Seq(Vars) /\ IsJoin(order', order, d)
    BY <1>2, <2>1 DEF IsJoin, BeginsWith
  <2>3. IsInjective(d) /\ ToSet(d) = {k}
    BY DEF IsInjective, ToSet
  <2> HIDE DEF d
  <2>4. ToSet(order) \cap ToSet(d) = {}
    BY <1>2, <1>5, <2>3
  <2>5. ToSet(order') = ToSet(order) \cup {k} /\ IsInjective(order')
    BY <1>2, <2>2, <2>3, <2>4, JoinElements
  <2> QED
    BY <1>1, <1>2, <1>3, <1>5, <2>2, <2>5
<1>6. CASE v # "absent" /\ value[k] # "absent"
  <2>1. order' = order
    BY <1>1, <1>6
  <2>2. \A l \in Vars : value'[l] # "absent" <=> value[l] # "absent"
    BY <1>1, <1>2, <1>6
  <2> QED
    BY <1>2, <1>3, <2>1, <2>2
<1> QED
  BY <1>4, <1>5, <1>6

\* Between two runs nobody but TaskOtter writes a task it generates, and what was
\* promised of the file is over.
LEMMA EditKeeps ==
    ASSUME RootInv, Edit, RootTypeOK', RememberedInv',
           \A n \in Names : tasks'[n] \in {tasks[n], NoTask, ByUser}
    PROVE  RootInv'
<1>1. /\ pc = "idle" /\ outcome' = "none" /\ UNCHANGED <<lock, pc, lostTasks>>
  BY DEF Edit, lost
<1>2. TasksRemembered'
  BY <1>1 DEF RootInv, TasksRemembered, ManagedRoot
<1> QED
  BY <1>1, <1>2 DEF RootInv, UpToDate

\* Every step keeps the invariant.
LEMMA StepKeeps ==
    ASSUME RootInv, [Next]_vars
    PROVE  RootInv'
<1>1. RootTypeOK /\ RememberedInv /\ TasksRemembered
  BY DEF RootInv
<1>2. RememberedInv'
  BY <1>1, StepRemembers
<1>3. CASE Refuse
  <2>1. /\ pc = "idle" /\ outcome' = "refused"
        /\ UNCHANGED <<root, broken, lock, config, release, pc, edits, faults, lost>>
    BY <1>3 DEF Refuse
  <2>2. TasksRemembered'
    BY <1>1, <2>1 DEF TasksRemembered, ManagedRoot, root, lost
  <2> QED
    BY <1>1, <1>2, <2>1, <2>2 DEF RootInv, RootTypeOK, UpToDate, root, lost
<1>4. CASE WriteRoot
  BY <1>4, WriteRootKeeps
<1>5. CASE SkipRoot
  <2>1. /\ pc = "idle" /\ ~config.syncRoot /\ pc' = "lock" /\ outcome' = "none"
        /\ UNCHANGED <<root, broken, lock, config, release, edits, faults, lost>>
    BY <1>5 DEF SkipRoot
  <2>2. TasksRemembered'
    BY <1>1, <2>1 DEF TasksRemembered, ManagedRoot, root, lost
  <2> QED
    BY <1>1, <1>2, <2>1, <2>2 DEF RootInv, RootTypeOK, UpToDate, root, lost
<1>6. CASE WriteLock
  BY <1>6, WriteLockKeeps
<1>7. CASE Crash
  <2>1. /\ pc = "lock" /\ pc' = "idle" /\ outcome' = "crashed"
        /\ faults < MaxFaults /\ faults' = faults + 1
        /\ lostIncludes' = lostIncludes \cup
               {t \in Requested : config.syncRoot /\ (lock = None \/ t \notin Managed)}
        /\ lostTasks' = lostTasks \cup {n \in Generated \ ManagedRoot : config.syncRoot}
        /\ UNCHANGED <<includes, order, value, tasks, broken, lock, config, release, edits>>
    BY <1>7 DEF Crash, root
  <2>2. ManagedRoot' = ManagedRoot
    BY <2>1 DEF ManagedRoot
  <2>3. TasksRemembered'
    BY <1>1, <2>1, <2>2 DEF TasksRemembered
  <2>4. Requested \subseteq Tasks /\ Generated \subseteq Names
    BY <1>1, ConstantsAssumption DEF RootTypeOK, Requested, ToSet, Generated
  <2>5. faults' \in 0 .. MaxFaults
    BY <1>1, <2>1, ConstantsAssumption DEF RootTypeOK
  <2>6. RootTypeOK'
    BY <1>1, <2>1, <2>4, <2>5 DEF RootTypeOK
  <2> QED
    BY <1>2, <2>1, <2>3, <2>6 DEF RootInv, UpToDate
<1>8. ASSUME Edit PROVE edits' \in 0 .. MaxEdits
  BY <1>1, <1>8, ConstantsAssumption DEF Edit, RootTypeOK
<1>9. ASSUME NEW t \in Tasks, EditInclude(t) PROVE RootInv'
  <2>1. Edit /\ UNCHANGED <<order, value, tasks, broken, config, release>>
    BY <1>9 DEF EditInclude
  <2>2. RootTypeOK'
    BY <1>1, <1>2, <1>8, <2>1 DEF RootTypeOK, RememberedInv, Edit, lost
  <2> QED
    BY <1>2, <2>1, <2>2, EditKeeps
<1>10. ASSUME NEW k \in Vars, EditVar(k) PROVE RootInv'
  <2>1. Edit /\ UNCHANGED <<includes, tasks, broken, config, release>>
    BY <1>10 DEF EditVar
  <2>2. RootTypeOK'
    BY <1>1, <1>8, <1>10, <2>1, EditedVar DEF RootTypeOK, Edit, lost
  <2> QED
    BY <1>2, <2>1, <2>2, EditKeeps
<1>11. ASSUME NEW n \in Names, EditTask(n) PROVE RootInv'
  <2>1. Edit /\ UNCHANGED <<includes, order, value, broken, config, release>>
    BY <1>11 DEF EditTask
  <2>2. PICK x \in {ByUser, NoTask} : tasks' = [tasks EXCEPT ![n] = x]
    BY <1>11 DEF EditTask
  <2>3. tasks' \in [Names -> {NoTask, ByUser} \cup Seq(Tasks)]
    BY <1>1, <2>2 DEF RootTypeOK
  <2>4. RootTypeOK'
    BY <1>1, <1>8, <2>1, <2>3 DEF RootTypeOK, Edit, lost
  <2>5. \A m \in Names : tasks'[m] \in {tasks[m], NoTask, ByUser}
    BY <1>1, <2>2 DEF RootTypeOK
  <2> QED
    BY <1>2, <2>1, <2>4, <2>5, EditKeeps
<1>12. CASE MoveVars
  <2>1. Edit /\ UNCHANGED <<includes, value, tasks, broken, config, release>>
    BY <1>12 DEF MoveVars
  <2>2. RootTypeOK'
    BY <1>1, <1>8, <1>12, <2>1, MovedVars DEF RootTypeOK, Edit, lost
  <2> QED
    BY <1>2, <2>1, <2>2, EditKeeps
<1>13. CASE Break \/ Reconfigure \/ Publish
  <2>1. /\ Edit /\ UNCHANGED <<includes, order, value, tasks>>
        /\ broken' \in BOOLEAN /\ config' \in Configs /\ release' \in Releases
    BY <1>1, <1>13 DEF Break, Reconfigure, Publish, root, RootTypeOK
  <2>2. RootTypeOK'
    BY <1>1, <1>8, <2>1 DEF RootTypeOK, Edit, lost
  <2> QED
    BY <1>2, <2>1, <2>2, EditKeeps
<1>14. CASE UNCHANGED vars
  <2>1. UNCHANGED <<includes, order, value, tasks, broken, lock, config, release, pc,
                    outcome, edits, faults, lostIncludes, lostTasks>>
    BY <1>14 DEF vars, root, lost
  <2>2. Generated' = Generated /\ ManagedRoot' = ManagedRoot /\ NewLock' = NewLock
    BY <2>1, SameInput DEF ManagedRoot, NewLock
  <2>3. TasksRemembered'
    BY <1>1, <2>1, <2>2 DEF TasksRemembered
  <2>4. UpToDate'
    <3>1. Requested \subseteq Tasks /\ Generated \subseteq Names
      BY <1>1, ConstantsAssumption DEF RootTypeOK, Requested, ToSet, Generated
    <3>2. Requested' = Requested /\ Promoted' = Promoted
      BY <2>1, SameInput
    <3>3. \A n \in Names : Members(n)' = Members(n)
      BY <2>1, SameInput
    <3>4. \A k \in Vars : UpdatedValue(k)' = UpdatedValue(k)
      BY <2>1, SameFile
    <3>5. \A t \in Requested : Upserted(t)' = Upserted(t)
      BY <2>1, <3>1, SameFile
    <3> QED
      BY <2>1, <2>2, <3>1, <3>2, <3>3, <3>4, <3>5 DEF RootInv, UpToDate
  <2> QED
    BY <1>1, <1>2, <2>1, <2>2, <2>3, <2>4 DEF RootInv, RootTypeOK
<1> QED
  BY <1>3, <1>4, <1>5, <1>6, <1>7, <1>9, <1>10, <1>11, <1>12, <1>13, <1>14 DEF Next, Run

-----------------------------------------------------------------------------

\* What the file, the lock and the run in progress know of each other, whatever
\* the user, the store and crashes did in between.
THEOREM RootInvariant == Spec => []RootInv
<1>1. Init => RootInv
  <2>1. SUFFICES ASSUME Init PROVE RootInv
    OBVIOUS
  <2>2. <<>> \in Seq(Vars) /\ IsInjective(<<>>) /\ ToSet(<<>>) = {}
    BY DEF IsInjective, ToSet
  <2>3. RootTypeOK
    <3>1. /\ includes \in [Tasks -> Entry \cup {NoEntry}]
          /\ tasks \in [Names -> {NoTask, ByUser} \cup Seq(Tasks)]
          /\ value \in [Vars -> {"absent", "default", "block", "own", "ownblock"}]
      BY <2>1 DEF Init
    <3>2. /\ order \in Seq(Vars) /\ IsInjective(order)
          /\ ToSet(order) = {k \in Vars : value[k] # "absent"}
      <4>1. order = <<>> /\ \A k \in Vars : value[k] = "absent"
        BY <2>1 DEF Init
      <4> QED
        BY <4>1, <2>2
    <3>3. edits \in 0 .. MaxEdits /\ faults \in 0 .. MaxFaults
      BY <2>1, ConstantsAssumption DEF Init
    <3>4. /\ broken \in BOOLEAN /\ lock \in Lock \cup {None}
          /\ config \in Configs /\ release \in Releases
          /\ pc \in {"idle", "lock"}
          /\ outcome \in {"none", "synced", "refused", "crashed"}
          /\ lostIncludes \subseteq Tasks /\ lostTasks \subseteq Names
      BY <2>1 DEF Init
    <3> QED
      BY <3>1, <3>2, <3>3, <3>4 DEF RootTypeOK
  <2>4. RememberedInv
    BY <2>1, SentinelsAssumption
    DEF Init, RememberedInv, NoDanglingInclude, RootSynced
  <2> QED
    BY <2>1, <2>3, <2>4 DEF Init, RootInv, TasksRemembered, UpToDate
<1>2. RootInv /\ [Next]_vars => RootInv'
  BY StepKeeps
<1> QED
  BY <1>1, <1>2, PTL DEF Spec

\* Every variable always has its type; a variable stands once in the file, exactly
\* when it has a value.
THEOREM RootAlwaysTyped == Spec => []RootTypeOK
<1>1. RootInv => RootTypeOK
  BY DEF RootInv
<1> QED
  BY <1>1, RootInvariant, PTL

\* At every moment the lock knows every include that belongs to a synced module,
\* except those an interrupted run or one without the root Taskfile left behind.
THEOREM IncludesRemembered == Spec => []RememberedInv
<1>1. RootInv => RememberedInv
  BY DEF RootInv
<1> QED
  BY <1>1, RootInvariant, PTL

\* After every successful update of the root Taskfile no include of a module
\* that is not synced any more is left, except the forgotten ones.
THEOREM NeverDangling == Spec => []NoDanglingInclude
<1>1. RememberedInv => NoDanglingInclude
  BY DEF RememberedInv
<1> QED
  BY <1>1, IncludesRemembered, PTL

\* After a run that updated the file, what it should say and what the lock says.
LEMMA SyncedFacts ==
    ASSUME RootInv, RootSynced
    PROVE  /\ Managed = Requested /\ ManagedRoot = Generated /\ lock = NewLock
           /\ ~broken /\ Requested \subseteq Tasks
           /\ Selected(order, ToSet(Promoted)) = Promoted
           /\ \A k \in Vars : UpdatedValue(k) = value[k]
           /\ \A t \in Requested :
                 /\ includes[t] \in Entry
                 /\ includes[t].path = config.target
                 /\ Upserted(t) = includes[t]
           /\ \A n \in Generated : tasks[n] = Members(n)
<1>1. lock = NewLock /\ UpToDate /\ RootTypeOK /\ config.syncRoot
  BY DEF RootInv, RootSynced
<1>2. lock # None
  <2>1. NewLock \in Lock
    BY <1>1 DEF NewLock, Lock, Generated, RootTypeOK
  <2> QED
    BY <1>1, <2>1, SentinelsAssumption
<1>3. Managed = Requested /\ ManagedRoot = Generated
  BY <1>1, <1>2 DEF Managed, Requested, ManagedRoot, NewLock
<1>4. Requested \subseteq Tasks
  BY <1>1, ConstantsAssumption DEF RootTypeOK, Requested, ToSet
<1> QED
  BY <1>1, <1>3, <1>4 DEF UpToDate, RootSynced, RootTypeOK

\* After every successful update the variables of the synced modules are in the
\* root Taskfile in the modules' order, and the includes refer to them.
THEOREM VarsAlwaysReachTheirModule == Spec => []VarsReachTheirModule
<1>1. RootInv => VarsReachTheirModule
  <2>1. SUFFICES ASSUME RootInv, RootSynced
                 PROVE  /\ Selected(order, ToSet(Promoted)) = Promoted
                        /\ \A t \in Requested : ~includes[t].scalar =>
                              \A k \in ToSet(VarsOf(t)) :
                                  includes[t].vars[k] = "reference" /\ value[k] # "absent"
    BY DEF VarsReachTheirModule
  <2>2. RootTypeOK
    BY <2>1 DEF RootInv
  <2>3. Selected(order, ToSet(Promoted)) = Promoted
    BY <2>1, SyncedFacts
  <2>4. ASSUME NEW t \in Requested, ~includes[t].scalar, NEW k \in ToSet(VarsOf(t))
        PROVE  includes[t].vars[k] = "reference" /\ value[k] # "absent"
    <3>1. t \in Tasks /\ includes[t] \in Entry /\ Upserted(t) = includes[t]
      BY <2>1, SyncedFacts
    <3>2. VarsOf(t) \in Seq(Vars)
      BY <2>2, <3>1, ConstantsAssumption DEF VarsOf, RootTypeOK
    <3>3. k \in Vars /\ Contains(VarsOf(t), k)
      BY <3>2 DEF ToSet, Contains
    <3>4. includes[t].vars = MergedVars(t, includes[t].vars)
      <4>1. Upserted(t).vars = MergedVars(t, includes[t].vars)
        BY <2>4, <3>1, SentinelsAssumption DEF Upserted, Entry
      <4> QED
        BY <3>1, <4>1
    <3>5. includes[t].vars[k] = "reference"
      BY <3>3, <3>4 DEF MergedVars
    <3>6. k \in ToSet(Promoted) /\ Promoted \in Seq(Vars)
      BY <2>2, <3>3, PromotedFacts DEF RootTypeOK
    <3>7. order \in Seq(Vars)
      BY <2>2 DEF RootTypeOK
    <3>8. ToSet(Promoted) = ToSet(order) \cap ToSet(Promoted)
      <4> DEFINE S == ToSet(Promoted)
      <4>1. Selected(order, S) = Promoted
        BY <2>3
      <4> HIDE DEF S
      <4>2. ToSet(Selected(order, S)) = ToSet(order) \cap S
        BY <3>7, SelectedElements
      <4> QED
        BY <4>1, <4>2 DEF S
    <3>9. value[k] # "absent"
      BY <2>2, <3>6, <3>8 DEF RootTypeOK
    <3> QED
      BY <3>5, <3>9
  <2> QED
    BY <2>3, <2>4
<1> QED
  BY <1>1, RootInvariant, PTL

\* After every successful update a generated task makes at least two calls, all
\* of modules that are synced, included and export it, unless TaskOtter forgot the task.
THEOREM GeneratedTasksAlwaysResolve == Spec => []GeneratedTasksResolve
<1>1. RootInv => GeneratedTasksResolve
  <2>1. SUFFICES ASSUME RootInv, RootSynced,
                        NEW n \in Names \ lostTasks, tasks[n] \notin {NoTask, ByUser}
                 PROVE  /\ Len(tasks[n]) > 1
                        /\ \A t \in ToSet(tasks[n]) :
                              /\ t \in Requested
                              /\ includes[t] # NoEntry
                              /\ includes[t].path = config.target
                              /\ Listings(release, t, n) > 0
    BY DEF GeneratedTasksResolve
  <2>2. pc = "idle" /\ TasksRemembered /\ config \in Configs /\ release \in Releases
    BY <2>1 DEF RootInv, RememberedInv, RootSynced, RootTypeOK
  <2>3. n \in Generated
    BY <2>1, <2>2, SyncedFacts DEF TasksRemembered
  <2>4. tasks[n] = Members(n)
    BY <2>1, <2>3, SyncedFacts
  <2>5. Len(Members(n)) > 1
    <3>1. Members(n) \in Seq(Tasks) /\ Len(Members(n)) >= 2
      BY <2>2, <2>3, MembersFacts DEF Generated
    <3> QED
      BY <3>1
  <2>6. \A t \in ToSet(Members(n)) :
            t \in Requested /\ Listings(release, t, n) > 0
    BY <2>2, MembersFacts
  <2>7. \A t \in Requested : includes[t] # NoEntry /\ includes[t].path = config.target
    BY <2>1, SyncedFacts, SentinelsAssumption
  <2> QED
    BY <2>4, <2>5, <2>6, <2>7
<1> QED
  BY <1>1, RootInvariant, PTL

\* A run right after a successful one changes nothing, neither the file nor the
\* lock.
THEOREM ResyncAlwaysQuiet == Spec => []ResyncIsQuiet
<1>1. RootInv => ResyncIsQuiet
  <2>1. SUFFICES ASSUME RootInv, outcome = "synced"
                 PROVE  /\ lock = NewLock
                        /\ config.syncRoot =>
                              /\ ~Refused
                              /\ UpdatedIncludes = includes
                              /\ Reordered = order
                              /\ \A k \in Vars : UpdatedValue(k) = value[k]
                              /\ UpdatedTasks = tasks
    BY DEF ResyncIsQuiet
  <2>2. lock = NewLock /\ RootTypeOK
    BY <2>1 DEF RootInv
  <2>3. SUFFICES ASSUME RootSynced
                 PROVE  /\ ~Refused /\ UpdatedIncludes = includes /\ Reordered = order
                        /\ \A k \in Vars : UpdatedValue(k) = value[k]
                        /\ UpdatedTasks = tasks
    BY <2>1, <2>2 DEF RootSynced
  <2>4. ~Refused
    <3>1. config.target # NoPath
      BY <2>2, ConstantsAssumption, SentinelsAssumption DEF RootTypeOK
    <3> QED
      BY <2>1, <2>3, <3>1, SyncedFacts DEF Refused, IsManagedInclude
  <2>5. UpdatedIncludes = includes
    <3>1. includes = [t \in Tasks |-> includes[t]]
      BY <2>2 DEF RootTypeOK
    <3>2. \A t \in Requested : Upserted(t) = includes[t]
      BY <2>1, <2>3, SyncedFacts
    <3>3. Managed = Requested
      BY <2>1, <2>3, SyncedFacts
    <3> QED
      BY <3>1, <3>2, <3>3 DEF UpdatedIncludes
  <2>6. Reordered = order
    BY <2>1, <2>2, <2>3, SyncedFacts, ReorderedFacts DEF RootTypeOK
  <2>7. \A k \in Vars : UpdatedValue(k) = value[k]
    BY <2>1, <2>3, SyncedFacts
  <2>8. UpdatedTasks = tasks
    <3>1. tasks = [n \in Names |-> tasks[n]]
      BY <2>2 DEF RootTypeOK
    <3>2. \A n \in Generated : tasks[n] = Members(n)
      BY <2>1, <2>3, SyncedFacts
    <3>3. ManagedRoot = Generated
      BY <2>1, <2>3, SyncedFacts
    <3> QED
      BY <3>1, <3>2, <3>3 DEF UpdatedTasks
  <2> QED
    BY <2>4, <2>5, <2>6, <2>7, <2>8
<1> QED
  BY <1>1, RootInvariant, PTL

\* An update never touches what the user wrote, except under a name TaskOtter
\* manages or managed and where a module's block replaces a value that is none, and
\* it keeps the order of the user's own variables.
THEOREM UserContentAlwaysKept == Spec => UserContentKept
<1>1. ASSUME RootInv, WriteRoot PROVE UserContentStays
  <2>1. RootTypeOK
    BY <1>1 DEF RootInv
  <2>2. /\ ~Refused /\ includes' = UpdatedIncludes /\ order' = Reordered
        /\ value' = [k \in Vars |-> UpdatedValue(k)] /\ tasks' = UpdatedTasks
    BY <1>1 DEF WriteRoot
  <2>3. ASSUME NEW t \in Tasks, includes[t] # NoEntry, includes[t].path = Foreign
        PROVE  \/ includes'[t] = includes[t]
               \/ includes'[t] = NoEntry /\ lock # None
                     /\ t \in ToSet(lock.cfg.tasks) \ Requested
    <3>1. config.target # Foreign /\ NoPath # Foreign
      BY <2>1, ConstantsAssumption, SentinelsAssumption DEF RootTypeOK
    <3>2. t \notin Requested
      BY <2>2, <2>3, <3>1 DEF Refused, IsManagedInclude
    <3> QED
      BY <2>2, <3>2 DEF UpdatedIncludes, Managed
  <2>4. \A n \in Names : tasks[n] = ByUser =>
            tasks'[n] = ByUser \/ n \in Generated \/ (lock # None /\ n \in lock.generated)
    BY <2>2 DEF UpdatedTasks, ManagedRoot
  <2>5. ASSUME NEW k \in Vars
        PROVE  /\ value[k] = "ownblock" => value'[k] = "ownblock"
               /\ value[k] = "own" =>
                     value'[k] = "own" \/ (Contains(Promoted, k) /\ BlockOfModule(k))
    <3>1. value'[k] = UpdatedValue(k)
      BY <2>2
    <3> QED
      BY <3>1 DEF UpdatedValue
  <2>6. Selected(order', Vars \ ToSet(Promoted)) = Selected(order, Vars \ ToSet(Promoted))
    BY <2>1, <2>2, ReorderedFacts DEF RootTypeOK
  <2>7. ASSUME NEW t \in Tasks, NEW k \in Vars,
               includes[t] # NoEntry, includes'[t] # NoEntry,
               includes[t].vars[k] = "own", ~Contains(VarsOf(t), k)
        PROVE  includes'[t].vars[k] = "own"
    <3>1. includes'[t] \in {Upserted(t), includes[t]}
      BY <2>2, <2>7 DEF UpdatedIncludes
    <3>2. includes[t] \in Entry
      BY <2>1, <2>7 DEF RootTypeOK
    <3>3. MergedVars(t, includes[t].vars)[k] = "own"
      BY <2>7 DEF MergedVars
    <3>4. Upserted(t).vars[k] = "own"
      BY <2>7, <3>2, <3>3 DEF Upserted, Entry
    <3> QED
      BY <2>7, <3>1, <3>4
  <2> QED
    BY <2>3, <2>4, <2>5, <2>6, <2>7 DEF UserContentStays
<1>2. RootInv /\ [Next]_vars => [WriteRoot => UserContentStays]_vars
  BY <1>1
<1> QED
  BY <1>2, RootInvariant, PTL DEF Spec, UserContentKept
=============================================================================
