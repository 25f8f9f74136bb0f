---------------------------- MODULE IncludeProofs ----------------------------
(***************************************************************************)
(* Proofs about ModuleIncludes, for any store: the includes of the copied  *)
(* modules lead to the copies of the modules they led to in the store.     *)
(***************************************************************************)
EXTENDS ModuleIncludes, ResolveProofs, WellFoundedInduction

\* A destination is named after a module: stripping suffixes comes to an end,
\* with a name nothing can be stripped from.
LEMMA NormalizeTyped == Normalize \in [Modules -> Modules]
<1> DEFINE Strips(m) == \E t \in Modules : Suffixed(m, t)
           Stripped(m) == CHOOSE t \in Modules : Suffixed(m, t)
           Ended(D) == \A x \in D : Strips(x) => Stripped(x) \in D
           Within(D, m) == m \in D /\ Ended(D)
           Below(m) == {x \in Modules :
                           \A D \in SUBSET Modules : Within(D, m) => x \in D}
           Ends(m) == {x \in Below(m) : ~Strips(x)}
           f == [m \in Modules |-> CHOOSE x : x \in Ends(m)]
<1>1. \A m \in Modules :
         Strips(m) => Stripped(m) \in Modules /\ Suffixed(m, Stripped(m))
  OBVIOUS
<1>2. \A ms \in SUBSET Modules : ms # {} =>
         \E m \in ms : \A t \in ms : ~Suffixed(m, t)
  BY SuffixAssumption DEF Suffixed
<1> HIDE DEF Strips, Stripped
<1>3. ASSUME NEW m \in Modules PROVE m \in Below(m) /\ Ended(Below(m))
  <2>1. m \in Below(m)
    OBVIOUS
  <2>2. ASSUME NEW x \in Below(m), Strips(x) PROVE Stripped(x) \in Below(m)
    BY <1>1, <2>2
  <2> QED
    BY <2>1, <2>2
<1>4. ASSUME NEW m \in Modules PROVE Ends(m) # {}
  <2>1. Below(m) \in SUBSET Modules /\ Below(m) # {}
    BY <1>3
  <2>2. PICK x \in Below(m) : \A t \in Below(m) : ~Suffixed(x, t)
    BY <1>2, <2>1
  <2>3. ~Strips(x)
    BY <1>1, <1>3, <2>1, <2>2
  <2> QED
    BY <2>3
<1>5. ASSUME NEW m \in Modules, Strips(m) PROVE Ends(m) = Ends(Stripped(m))
  <2>1. Stripped(m) \in Modules
    BY <1>1, <1>5
  <2>2. \A D \in SUBSET Modules : Within(D, m) => Within(D, Stripped(m))
    BY <1>5
  <2>3. Ends(Stripped(m)) \subseteq Ends(m)
    BY <2>2
  <2>4. ASSUME NEW x \in Ends(m), NEW D \in SUBSET Modules, Within(D, Stripped(m))
        PROVE  x \in D
    <3>1. Within(D \cup {m}, m)
      BY <2>4
    <3>2. x # m /\ x \in D \cup {m}
      BY <1>5, <3>1
    <3> QED
      BY <3>2
  <2> QED
    BY <2>3, <2>4
<1>6. ASSUME NEW m \in Modules, ~Strips(m) PROVE Ends(m) = {m}
  <2>1. Within({m}, m)
    BY <1>6
  <2>2. Below(m) = {m}
    BY <1>3, <2>1
  <2> QED
    BY <1>6, <2>2
<1>7. \A m \in Modules : f[m] \in Ends(m) /\ Ends(m) \subseteq Modules
  BY <1>4
<1>8. ASSUME NEW m \in Modules
      PROVE  f[m] = IF Strips(m) THEN f[Stripped(m)] ELSE m
  <2>1. CASE Strips(m)
    <3>1. Stripped(m) \in Modules /\ Ends(m) = Ends(Stripped(m))
      BY <1>1, <1>5, <2>1
    <3>2. f[m] = CHOOSE x : x \in Ends(m)
      OBVIOUS
    <3>3. f[Stripped(m)] = CHOOSE x : x \in Ends(Stripped(m))
      BY <3>1
    <3> HIDE DEF f, Ends
    <3> QED
      BY <2>1, <3>1, <3>2, <3>3
  <2>2. CASE ~Strips(m)
    <3>1. Ends(m) = {m}
      BY <1>6, <2>2
    <3> HIDE DEF Ends
    <3> QED
      BY <1>7, <2>2, <3>1
  <2> QED
    BY <2>1, <2>2
<1> DEFINE Solves(g) == g = [m \in Modules |-> IF Strips(m) THEN g[Stripped(m)] ELSE m]
<1>9. Solves(f)
  <2>1. f = [m \in Modules |-> f[m]]
    OBVIOUS
  <2> HIDE DEF f
  <2> QED
    BY <1>8, <2>1
<1>10. Normalize = CHOOSE g : Solves(g)
  BY DEF Normalize, Strips, Stripped
<1>11. Solves(Normalize)
  <2> HIDE DEF Solves, f
  <2> QED
    BY <1>9, <1>10
<1>12. \A m \in Modules : Normalize[m] = IF Strips(m) THEN Normalize[Stripped(m)] ELSE m
  BY <1>11
<1> DEFINE Astray == {m \in Modules : Normalize[m] \notin Modules}
<1>13. Astray = {}
  <2>1. SUFFICES ASSUME Astray # {} PROVE FALSE
    OBVIOUS
  <2>2. PICK m \in Astray : \A t \in Astray : ~Suffixed(m, t)
    BY <1>2, <2>1
  <2>3. CASE Strips(m)
    BY <1>1, <1>12, <2>2, <2>3
  <2>4. CASE ~Strips(m)
    BY <1>12, <2>2, <2>4
  <2> QED
    BY <2>3, <2>4
<1>14. Normalize = [m \in Modules |-> Normalize[m]]
  <2>1. Normalize = [m \in Modules |-> IF Strips(m) THEN Normalize[Stripped(m)] ELSE m]
    BY <1>11
  <2> QED
    BY <1>12, <2>1
<1> QED
  BY <1>13, <1>14

-----------------------------------------------------------------------------

\* Of the prefixes two directories have in common one is the longest.
LEMMA CommonPrefix ==
    ASSUME NEW from \in Seq(Names), NEW to \in Seq(Names)
    PROVE  LongestCommonPrefix({from, to}) \in CommonPrefixes({from, to})
<1> DEFINE Ps == CommonPrefixes({from, to})
           Less == OpToRel(<, Nat)
           Shortfalls == {Len(from) - Len(p) : p \in Ps}
<1>1. \A p \in Ps : Len(p) \in Nat /\ Len(p) <= Len(from)
  <2>1. ASSUME NEW p \in Ps PROVE Len(p) \in Nat /\ Len(p) <= Len(from)
    <3>1. PICK s \in {from, to} : p \in Prefixes(s)
      BY DEF CommonPrefixes
    <3>2. PICK l \in 0 .. Len(s) : p = SubSeq(s, 1, l)
      BY <3>1 DEF Prefixes
    <3>3. s \in Seq(Names) /\ l \in Nat /\ l <= Len(s)
      OBVIOUS
    <3>4. p \in Seq(Names)
      BY <3>2, <3>3
    <3> QED
      BY <3>4 DEF CommonPrefixes, IsPrefix
  <2> QED
    BY <2>1
<1>2. <<>> \in Ps
  <2>1. <<>> = SubSeq(from, 1, 0) /\ 0 \in 0 .. Len(from)
    OBVIOUS
  <2>2. <<>> \in Prefixes(from)
    BY <2>1 DEF Prefixes
  <2>3. IsPrefix(<<>>, from) /\ IsPrefix(<<>>, to)
    BY DEF IsPrefix
  <2> QED
    BY <2>2, <2>3 DEF CommonPrefixes
<1> HIDE DEF Ps
<1>3. Shortfalls \subseteq Nat /\ Shortfalls # {}
  BY <1>1, <1>2
<1>4. IsWellFoundedOn(Less, Nat)
  BY NatLessThanWellFounded
<1>5. \E x \in Shortfalls : \A y \in Shortfalls : <<y, x>> \notin Less
  <2> HIDE DEF Shortfalls, Less
  <2> QED
    BY <1>3, <1>4, WFMin
<1>6. \E longest \in Ps : \A other \in Ps : Len(other) <= Len(longest)
  <2>1. PICK x \in Shortfalls : \A y \in Shortfalls : <<y, x>> \notin Less
    BY <1>5
  <2>2. \A y \in Shortfalls : ~(y < x)
    <3>1. \A y \in Nat : y < x => <<y, x>> \in Less
      BY <1>3 DEF OpToRel
    <3> HIDE DEF Less, Shortfalls
    <3> QED
      BY <1>3, <2>1, <3>1
  <2>3. PICK longest \in Ps : x = Len(from) - Len(longest)
    OBVIOUS
  <2>4. ASSUME NEW other \in Ps PROVE Len(other) <= Len(longest)
    <3>1. ~(Len(from) - Len(other) < Len(from) - Len(longest))
      BY <2>2, <2>3
    <3>2. Len(from) \in Nat /\ Len(other) \in Nat /\ Len(longest) \in Nat
      BY <1>1
    <3> QED
      BY <3>1, <3>2
  <2> QED
    BY <2>4
<1> QED
  BY <1>6 DEF Ps, LongestCommonPrefix

\* The relative path from one directory to another leads there.
LEMMA RelLeadsThere ==
    ASSUME NEW from \in Seq(Names), NEW to \in Seq(Names)
    PROVE  Follow(from, Rel(from, to)) = to
<1> DEFINE common == LongestCommonPrefix({from, to})
           c == Len(common)
<1>1. IsPrefix(common, from) /\ IsPrefix(common, to)
  <2>1. common \in CommonPrefixes({from, to})
    BY CommonPrefix
  <2> HIDE DEF common
  <2> QED
    BY <2>1 DEF CommonPrefixes
<1>2. c \in Nat
  <2>1. PICK s \in {from, to} : common \in Prefixes(s)
    BY CommonPrefix DEF CommonPrefixes
  <2>2. PICK l \in 0 .. Len(s) : common = SubSeq(s, 1, l)
    BY <2>1 DEF Prefixes
  <2> HIDE DEF common
  <2>3. common \in Seq(Names)
    BY <2>2
  <2> QED
    BY <2>3
<1>3. c <= Len(from) /\ c <= Len(to) /\ SubSeq(from, 1, c) = SubSeq(to, 1, c)
  BY <1>1 DEF IsPrefix
<1>4. /\ Rel(from, to).up = Len(from) - c
      /\ Rel(from, to).down = SubSeq(to, c + 1, Len(to))
  BY DEF Rel
<1> HIDE DEF c, common
<1>5. Follow(from, Rel(from, to)) = SubSeq(from, 1, c) \o SubSeq(to, c + 1, Len(to))
  <2>1. ~(Len(from) - c > Len(from)) /\ Len(from) - (Len(from) - c) = c
    BY <1>2
  <2> DEFINE include == Rel(from, to)
  <2>2. include.up = Len(from) - c /\ include.down = SubSeq(to, c + 1, Len(to))
    BY <1>4
  <2>3. Follow(from, include) =
            IF include.up > Len(from) THEN <<None>>
            ELSE SubSeq(from, 1, Len(from) - include.up) \o include.down
    BY DEF Follow
  <2> HIDE DEF include
  <2>4. Follow(from, include) = SubSeq(from, 1, c) \o SubSeq(to, c + 1, Len(to))
    BY <2>1, <2>2, <2>3
  <2> QED
    BY <2>4 DEF include
<1>6. SubSeq(to, 1, c) \o SubSeq(to, c + 1, Len(to)) = SubSeq(to, 1, Len(to))
  BY <1>2, <1>3, ConcatAdjacentSubSeq, 1 \in 1 .. Len(to) + 1, c \in 1 - 1 .. Len(to),
     Len(to) \in c .. Len(to)
<1>7. SubSeq(to, 1, Len(to)) = to
  BY SubSeqFull
<1> QED
  BY <1>3, <1>5, <1>6, <1>7

-----------------------------------------------------------------------------

\* Every include of a copied module leads to the copy of the module it led to in
\* the store, wherever normalization has put the two: no destination is shared,
\* and no path in the store names two modules.
THEOREM IncludesAlwaysLeadToTheCopies == Spec => []IncludesLeadToTheCopies
<1>1. ResolveTypeOK /\ ResolveInv => IncludesLeadToTheCopies
  <2>1. SUFFICES ASSUME ResolveTypeOK, ResolveInv, outcome = "ok",
                        NEW m \in needed, NEW d \in deps[m]
                 PROVE  {n \in needed : Destination(n)
                            = Follow(Destination(m), RewrittenIncludes(m)[d])} = {d}
    BY DEF IncludesLeadToTheCopies
  <2>2. needed \subseteq Modules /\ ~Collision(needed) /\ d \in needed
    BY <2>1 DEF ResolveTypeOK, ResolveInv, CopyInv, CopiesWhatIsNeeded, Defined, Closed
  <2>3. \A n \in needed : Normalize[n] \in Modules /\ Destination(n) \in Seq(Names)
    BY <2>2, NormalizeTyped, DirectoryAssumption DEF Destination
  <2>4. {n \in needed : Destination(n) = Destination(d)} = {d}
    <3>1. \A n \in needed : Destination(n) = Destination(d)
                               => Normalize[n] = Normalize[d]
      BY <2>2, <2>3, DirectoryAssumption DEF Destination, IsInjective
    <3> QED
      BY <2>2, <3>1 DEF Collision
  <2>5. Named(Includes(m)[d]) = {d}
    <3>1. Includes(m)[d].down = Directory[d]
      BY DEF Includes
    <3>2. \A n \in needed : Directory[n] = Directory[d] => n = d
      BY <2>2, DirectoryAssumption DEF IsInjective
    <3> QED
      BY <2>2, <3>1, <3>2 DEF Named
  <2>6. RewrittenIncludes(m)[d] = Rel(Destination(m), Destination(d))
    <3>1. d \in DOMAIN Includes(m)
      BY DEF Includes
    <3>2. (CHOOSE n \in Named(Includes(m)[d]) : TRUE) = d
      BY <2>5
    <3> QED
      BY <2>5, <3>1, <3>2 DEF RewrittenIncludes, RewriteIncludePath
  <2> QED
    BY <2>3, <2>2, <2>4, <2>6, RelLeadsThere
<1> QED
  BY <1>1, ResolutionInvariant, PTL
=============================================================================
