---------------------------- MODULE ResolveProofs ----------------------------
(***************************************************************************)
(* Proofs about ResolveModules, for any store and any requested tasks: a   *)
(* resolution that succeeds copies exactly what the sources need, and no   *)
(* dependency cycle; one that fails tells what is wrong with what they     *)
(* need.                                                                   *)
(***************************************************************************)
EXTENDS ResolveModules, SequenceTheorems, TLAPS

USE ResolveAssumption

\* What Enter does to the stack.
LEMMA Pushed ==
    ASSUME NEW s \in Seq(Modules), NEW m \in Modules
    PROVE  /\ Append(s, m) \in Seq(Modules)
           /\ Len(Append(s, m)) = Len(s) + 1
           /\ Append(s, m)[Len(s) + 1] = m
           /\ \A i \in 1 .. Len(s) : Append(s, m)[i] = s[i]
  OBVIOUS

\* What Return does to the stack.
LEMMA Popped ==
    ASSUME NEW s \in Seq(Modules), s # <<>>
    PROVE  LET t == SubSeq(s, 1, Len(s) - 1) IN
           /\ t \in Seq(Modules)
           /\ Len(t) = Len(s) - 1 /\ Len(s) \in Nat \ {0}
           /\ \A i \in 1 .. Len(s) - 1 : t[i] = s[i]
  <1> DEFINE n == Len(s) - 1
             t == SubSeq(s, 1, n)
  <1>1. Len(s) \in Nat \ {0} /\ n \in Nat /\ \A i \in 1 .. n : s[i] \in Modules
    OBVIOUS
  <1> HIDE DEF n
  <1>2. /\ t \in Seq(Modules)
        /\ Len(t) = IF 1 <= n THEN n - 1 + 1 ELSE 0
        /\ \A i \in 1 .. n - 1 + 1 : t[i] = s[1 + i - 1]
    BY <1>1, SubSeqProperties
  <1> HIDE DEF t
  <1>3. n - 1 + 1 = n /\ \A i \in Nat : 1 + i - 1 = i
    BY <1>1
  <1>4. Len(t) = n
    <2>1. CASE 1 <= n
      BY <1>2, <1>3, <2>1
    <2>2. CASE ~(1 <= n)
      BY <1>1, <1>2, <2>2
    <2>. QED
      BY <2>1, <2>2
  <1>5. \A i \in 1 .. n : t[i] = s[i]
    BY <1>2, <1>3
  <1>. QED
    BY <1>1, <1>2, <1>4, <1>5 DEF n, t

LEMMA TopOnStack ==
    ASSUME stack \in Seq(Modules), stack # <<>>
    PROVE  /\ Len(stack) \in Nat \ {0}
           /\ Top \in Modules /\ Top \in OnStack /\ Top = stack[Len(stack)]
  BY DEF Top, OnStack

-----------------------------------------------------------------------------
LEMMA InitTyped == Init => ResolveTypeOK
  BY DEF Init, ResolveTypeOK, Working, Errors

LEMMA VisitDependencyTyped ==
    ASSUME ResolveTypeOK, NEW d \in Modules, VisitDependency(d)
    PROVE  ResolveTypeOK'
  <1> USE DEF ResolveTypeOK
  <1>1. Len(stack) \in Nat \ {0} /\ Top \in Modules
    BY TopOnStack DEF VisitDependency
  <1>2. UNCHANGED <<taskfiles, deps, tasks, manager, catalog, sources, todo>>
    BY DEF VisitDependency, inputs
  <1>3. CASE Fails("missing") /\ UNCHANGED cycle
    BY <1>2, <1>3 DEF Fails, Errors
  <1>4. CASE /\ d \in OnStack
             /\ Fails("cycle") /\ cycle' = CyclePath(d)
    <2> DEFINE first == CHOOSE i \in 1 .. Len(stack) : stack[i] = d
    <2>1. first \in 1 .. Len(stack)
      BY <1>4 DEF OnStack
    <2>2. SubSeq(stack, first, Len(stack)) \in Seq(Modules)
      <3>1. first \in Int /\ Len(stack) \in Int
        BY <1>1, <2>1
      <3>2. \A i \in first .. Len(stack) : stack[i] \in Modules
        BY <1>1, <2>1
      <3>. QED
        BY <3>1, <3>2, SubSeqProperties
    <2>3. cycle' \in Seq(Modules)
      BY <1>4, <2>2 DEF CyclePath
    <2>. QED
      BY <1>2, <1>4, <2>3 DEF Fails, Errors
  <1>5. CASE /\ rest' = [rest EXCEPT ![Top] = @ \ {d}]
             /\ UNCHANGED <<outcome, stack, needed, cycle>>
    BY <1>1, <1>2, <1>5
  <1>6. CASE /\ d \in DOMAIN deps
             /\ Enter(d, stack, [rest EXCEPT ![Top] = @ \ {d}]) /\ UNCHANGED cycle
    BY <1>1, <1>2, <1>6 DEF Enter
  <1>. QED
    BY <1>3, <1>4, <1>5, <1>6 DEF VisitDependency

LEMMA StepTyped ==
    ASSUME ResolveTypeOK, Next
    PROVE  ResolveTypeOK'
  <1> USE DEF ResolveTypeOK, inputs, walk, Working, Errors
  <1>1. CASE LoadSnapshot
    BY <1>1 DEF LoadSnapshot
  <1>2. CASE ResolveTasks
    <2>1. sources' \subseteq Modules
      <3>1. CASE Unresolved
        BY <1>2, <3>1 DEF ResolveTasks
      <3>2. CASE ~Unresolved
        <4>1. \A t \in tasks : SourceOf(t) \in catalog
          BY <3>2 DEF Unresolved
        <4>. QED
          BY <1>2, <3>2, <4>1 DEF ResolveTasks
      <3>. QED
        BY <3>1, <3>2
    <2>. QED
      BY <1>2, <2>1 DEF ResolveTasks
  <1>3. ASSUME NEW m \in todo, VisitRequested(m) PROVE ResolveTypeOK'
    <2>1. m \in Modules /\ todo' \subseteq todo
      BY <1>3 DEF VisitRequested
    <2>2. UNCHANGED <<taskfiles, deps, tasks, manager, catalog, sources, cycle>>
      BY <1>3 DEF VisitRequested
    <2>3. CASE Fails("undefined") \/ UNCHANGED <<outcome, stack, rest, needed>>
      BY <2>1, <2>2, <2>3 DEF Fails
    <2>4. CASE m \in DOMAIN deps /\ Enter(m, stack, rest)
      BY <2>1, <2>2, <2>4, Pushed DEF Enter
    <2>. QED
      BY <1>3, <2>3, <2>4 DEF VisitRequested
  <1>4. CASE Return
    BY <1>4, Popped DEF Return
  <1>5. CASE Finish
    BY <1>5 DEF Finish
  <1>. QED
    BY <1>1, <1>2, <1>3, <1>4, <1>5, VisitDependencyTyped DEF Next

\* Every variable of the resolution keeps its type.
THEOREM ResolveTypeCorrect == Spec => []ResolveTypeOK
  <1>1. ResolveTypeOK /\ UNCHANGED vars => ResolveTypeOK'
    BY DEF ResolveTypeOK, vars, inputs, walk
  <1>. QED
    BY <1>1, InitTyped, StepTyped, PTL DEF Spec

-----------------------------------------------------------------------------
LEMMA StartsWalk ==
    ASSUME ResolveTypeOK, NothingVisited, ResolveTasks
    PROVE  outcome' = "walk" => WalkInv'
  <1>. SUFFICES ASSUME outcome' = "walk" PROVE WalkInv'
    OBVIOUS
  <1>1. /\ sources' = todo' /\ stack' = <<>> /\ needed' = {}
        /\ rest' = [m \in Modules |-> {}]
    BY DEF ResolveTasks, NothingVisited
  <1>2. Len(stack') = 0 /\ OnStack' = {} /\ Returned' = {}
    BY <1>1 DEF OnStack, Returned
  <1>. QED
    BY <1>1, <1>2 DEF WalkInv, Defined, Acyclic

\* Visiting a module for the first time.
LEMMA Entered ==
    ASSUME ResolveTypeOK, WalkInv,
           NEW m \in DOMAIN deps, m \notin needed,
           NEW r \in [Modules -> SUBSET Modules],
           \A x \in Modules : r[x] \subseteq rest[x],
           \A i \in 1 .. Len(stack) - 1 : r[stack[i]] = rest[stack[i]],
           stack # <<>> => rest[Top] \subseteq r[Top] \cup {m},
           Enter(m, stack, r),
           UNCHANGED <<deps, sources>>,
           sources \subseteq todo' \cup needed',
           \A ms \in SUBSET Modules : Closed(ms) => m \in ms
    PROVE  WalkInv'
  <1> DEFINE n == Len(stack)
  <1>1. /\ stack \in Seq(Modules) /\ n \in Nat /\ m \in Modules
        /\ rest \in [Modules -> SUBSET Modules] /\ deps[m] \in SUBSET Modules
        /\ needed \subseteq Modules /\ DOMAIN deps \subseteq Modules
    BY DEF ResolveTypeOK
  <1>2. /\ stack' = Append(stack, m) /\ needed' = needed \cup {m}
        /\ rest' = [r EXCEPT ![m] = deps[m]]
        /\ deps' = deps /\ sources' = sources
    BY DEF Enter
  <1>3. /\ Len(stack') = n + 1 /\ stack'[n + 1] = m
        /\ \A i \in 1 .. n : stack'[i] = stack[i]
    BY <1>1, <1>2, Pushed
  <1>4. OnStack' = OnStack \cup {m}
    <2>1. OnStack' \subseteq OnStack \cup {m}
      <3>1. ASSUME NEW i \in 1 .. n + 1 PROVE stack'[i] \in OnStack \cup {m}
        <4>1. i = n + 1 \/ i \in 1 .. n
          BY <1>1
        <4>. QED
          BY <1>3, <4>1 DEF OnStack
      <3>. QED
        BY <1>3, <3>1 DEF OnStack
    <2>2. OnStack \cup {m} \subseteq OnStack'
      <3>1. n + 1 \in 1 .. n + 1 /\ \A i \in 1 .. n : i \in 1 .. n + 1
        BY <1>1
      <3>. QED
        BY <1>3, <3>1 DEF OnStack
    <2>. QED
      BY <2>1, <2>2
  <1>5. m \notin OnStack /\ Returned' = Returned
    BY <1>2, <1>4 DEF WalkInv, Returned
  <1>6. \A i \in 1 .. n : stack[i] \in OnStack /\ stack[i] # m /\ stack[i] \in Modules
    BY <1>1, <1>5 DEF OnStack
  <1>7. /\ rest'[m] = deps[m]
        /\ \A x \in Modules \ {m} : rest'[x] = r[x] /\ r[x] \subseteq rest[x]
    BY <1>1, <1>2
  <1>8. Defined(needed)' /\ (sources \subseteq todo \cup needed)' /\ (OnStack \subseteq needed)'
    BY <1>2, <1>4 DEF WalkInv, Defined
  <1>9. \A i, j \in 1 .. Len(stack') : stack'[i] = stack'[j] => i = j
    BY <1>1, <1>3, <1>6 DEF WalkInv
  <1>10. /\ \A x \in OnStack' : rest'[x] \subseteq deps'[x]
         /\ \A x \in Modules \ OnStack' : rest'[x] = {}
    <2>1. OnStack \subseteq Modules
      BY <1>1 DEF WalkInv
    <2>. QED
      BY <1>2, <1>4, <1>7, <2>1 DEF WalkInv
  <1>11. ASSUME NEW i \in 1 .. Len(stack')
         PROVE  deps'[stack'[i]] \subseteq
                   rest'[stack'[i]] \cup Returned' \cup Above(i)'
    <2>1. CASE i = n + 1
      BY <1>2, <1>3, <1>7, <2>1
    <2>2. CASE i \in 1 .. n
      <3>1. deps[stack[i]] \subseteq rest[stack[i]] \cup Returned \cup Above(i)
        BY <2>2 DEF WalkInv
      <3>2. /\ stack'[i] = stack[i] /\ rest'[stack[i]] = r[stack[i]]
        BY <1>3, <1>6, <1>7, <2>2
      <3>3. Above(i) \subseteq Above(i)'
        BY <1>1, <1>3, <2>2 DEF Above
      <3>4. rest[stack[i]] \subseteq r[stack[i]] \cup Above(i)'
        <4>1. CASE i = n
          <5>1. Above(i)' = {m}
            BY <1>1, <1>3, <4>1 DEF Above
          <5>. QED
            BY <1>1, <2>2, <4>1, <5>1 DEF Top
        <4>2. CASE i # n
          BY <1>1, <2>2, <4>2
        <4>. QED
          BY <4>1, <4>2
      <3>. QED
        BY <1>2, <1>5, <3>1, <3>2, <3>3, <3>4
    <2>. QED
      BY <1>1, <1>3, <2>1, <2>2
  <1>12. (\A x \in Returned : deps[x] \subseteq Returned)' /\ Acyclic(Returned)'
    BY <1>2, <1>5 DEF WalkInv, Acyclic
  <1>13. \A ms \in SUBSET Modules : Closed(ms)' => needed' \subseteq ms
    BY <1>2 DEF WalkInv, Closed
  <1>. QED
    BY <1>8, <1>9, <1>10, <1>11, <1>12, <1>13 DEF WalkInv

\* Visiting a module again, after having returned from it.
LEMMA Skipped ==
    ASSUME ResolveTypeOK, WalkInv, NEW d \in Returned,
           stack # <<>>, rest' = [rest EXCEPT ![Top] = @ \ {d}],
           UNCHANGED <<deps, sources, todo, stack, needed>>
    PROVE  WalkInv'
  <1>1. Top \in Modules /\ Top \in OnStack /\ rest \in [Modules -> SUBSET Modules]
    BY TopOnStack DEF ResolveTypeOK
  <1>2. OnStack' = OnStack /\ Returned' = Returned /\ \A i : Above(i)' = Above(i)
    BY DEF OnStack, Returned, Above
  <1>3. \A x \in Modules : rest'[x] \subseteq rest[x] /\ rest[x] \subseteq rest'[x] \cup Returned
    BY <1>1
  <1>4. \A i \in 1 .. Len(stack) : stack[i] \in Modules
    BY DEF ResolveTypeOK
  <1>5. /\ \A x \in OnStack : rest'[x] \subseteq deps[x]
        /\ \A x \in Modules \ OnStack : rest'[x] = {}
    <2>1. OnStack \subseteq Modules
      BY <1>4 DEF OnStack
    <2>. QED
      BY <1>3, <2>1 DEF WalkInv
  <1>6. \A i \in 1 .. Len(stack) :
           deps[stack[i]] \subseteq rest'[stack[i]] \cup Returned \cup Above(i)
    BY <1>3, <1>4 DEF WalkInv
  <1>7. \A i, j \in 1 .. Len(stack) : stack[i] = stack[j] => i = j
    BY DEF WalkInv
  <1>8. /\ Defined(needed) /\ sources \subseteq todo \cup needed
        /\ OnStack \subseteq needed
        /\ \A x \in Returned : deps[x] \subseteq Returned
        /\ Acyclic(Returned)
        /\ \A ms \in SUBSET Modules : Closed(ms) => needed \subseteq ms
    BY DEF WalkInv
  <1>. QED
    BY <1>2, <1>5, <1>6, <1>7, <1>8 DEF WalkInv, Defined, Acyclic, Closed

\* Adding a module all of whose dependencies have been returned from.
LEMMA AcyclicExtended ==
    ASSUME NEW S, NEW m, m \notin S, Acyclic(S), deps[m] \subseteq S,
           \A x \in S : deps[x] \subseteq S
    PROVE  Acyclic(S \cup {m})
  <1>. SUFFICES ASSUME NEW part \in SUBSET (S \cup {m}), part # {}
                PROVE  \E x \in part : deps[x] \cap part = {}
    BY DEF Acyclic
  <1>1. CASE part \ {m} = {}
    <2>1. m \in part /\ deps[m] \cap part = {}
      BY <1>1
    <2>. QED
      BY <2>1
  <1>2. CASE part \ {m} # {}
    <2>1. part \ {m} \in SUBSET S
      OBVIOUS
    <2>2. PICK x \in part \ {m} : deps[x] \cap (part \ {m}) = {}
      BY <1>2, <2>1 DEF Acyclic
    <2>3. deps[x] \cap part = {}
      BY <2>1, <2>2
    <2>. QED
      BY <2>2, <2>3
  <1>. QED
    BY <1>1, <1>2

LEMMA Left ==
    ASSUME ResolveTypeOK, WalkInv, Return
    PROVE  WalkInv'
  <1> DEFINE n == Len(stack)
  <1>1. /\ stack \in Seq(Modules) /\ stack # <<>> /\ rest[Top] = {}
        /\ stack' = SubSeq(stack, 1, n - 1)
        /\ UNCHANGED <<deps, sources, todo, rest, needed>>
    BY DEF ResolveTypeOK, Return, inputs
  <1>2. /\ n \in Nat \ {0} /\ Len(stack') = n - 1
        /\ \A i \in 1 .. n - 1 : stack'[i] = stack[i]
    BY <1>1, Popped
  <1>3. Top \in Modules /\ Top \in OnStack /\ Top = stack[n]
    BY <1>1, TopOnStack
  <1>4. \A i, j \in 1 .. n : stack[i] = stack[j] => i = j
    BY DEF WalkInv
  <1>5. OnStack' = OnStack \ {Top}
    BY <1>2, <1>3, <1>4 DEF OnStack
  <1>6. Top \in needed /\ Top \notin Returned /\ Returned' = Returned \cup {Top}
    BY <1>1, <1>3, <1>5 DEF WalkInv, Returned
  <1>7. deps[Top] \subseteq Returned
    <2>1. Above(n) = {}
      BY <1>2 DEF Above
    <2>2. n \in 1 .. n
      BY <1>2
    <2>3. deps[stack[n]] \subseteq rest[stack[n]] \cup Returned \cup Above(n)
      BY <2>2 DEF WalkInv
    <2>. QED
      BY <1>1, <1>3, <2>1, <2>3
  <1>8. \A x \in Returned : deps[x] \subseteq Returned
    BY DEF WalkInv
  <1>9. (\A x \in Returned : deps[x] \subseteq Returned)'
    BY <1>1, <1>6, <1>7, <1>8
  <1>10. Acyclic(Returned)'
    <2>1. Acyclic(Returned \cup {Top})
      BY <1>6, <1>7, <1>8, AcyclicExtended DEF WalkInv
    <2>. QED
      BY <1>1, <1>6, <2>1 DEF Acyclic
  <1>11. \A i, j \in 1 .. Len(stack') : stack'[i] = stack'[j] => i = j
    BY <1>2, <1>4
  <1>12. ASSUME NEW i \in 1 .. Len(stack')
         PROVE  deps'[stack'[i]] \subseteq
                   rest'[stack'[i]] \cup Returned' \cup Above(i)'
    <2>1. deps[stack[i]] \subseteq rest[stack[i]] \cup Returned \cup Above(i)
      BY <1>2 DEF WalkInv
    <2>2. Above(i) \subseteq Above(i)' \cup {Top}
      BY <1>2, <1>3 DEF Above
    <2>. QED
      BY <1>1, <1>2, <1>6, <2>1, <2>2
  <1>13. /\ \A x \in OnStack' : rest'[x] \subseteq deps'[x]
         /\ \A x \in Modules \ OnStack' : rest'[x] = {}
    BY <1>1, <1>5 DEF WalkInv
  <1>14. /\ Defined(needed)' /\ (sources \subseteq todo \cup needed)'
         /\ (OnStack \subseteq needed)'
         /\ \A ms \in SUBSET Modules : Closed(ms)' => needed' \subseteq ms
    BY <1>1, <1>5 DEF WalkInv, Defined, Closed
  <1>. QED
    BY <1>9, <1>10, <1>11, <1>12, <1>13, <1>14 DEF WalkInv

-----------------------------------------------------------------------------
\* What an action preserves when it neither starts, continues nor ends the walk.
LEMMA NotWalking ==
    ASSUME outcome' \in Errors
    PROVE  CopyInv'
  BY DEF Errors, CopyInv, CopiesWhatIsNeeded, NeverCopiesACycle

LEMMA StillWalking ==
    ASSUME outcome' = "walk", WalkInv'
    PROVE  CopyInv'
  BY DEF CopyInv, CopiesWhatIsNeeded, NeverCopiesACycle

LEMMA VisitRequestedKeeps ==
    ASSUME ResolveTypeOK, CopyInv, NEW m \in todo, VisitRequested(m)
    PROVE  CopyInv'
  <1>1. /\ outcome = "walk" /\ WalkInv /\ stack = <<>> /\ todo' = todo \ {m}
        /\ UNCHANGED <<deps, sources>>
    BY DEF VisitRequested, CopyInv, inputs
  <1>2. m \in sources /\ OnStack = {} /\ sources \subseteq todo \cup needed
    BY <1>1 DEF ResolveTypeOK, OnStack, WalkInv
  <1>3. CASE Fails("undefined")
    BY <1>3, NotWalking DEF Fails, Errors
  <1>4. CASE m \in needed /\ UNCHANGED <<outcome, stack, rest, needed>>
    <2>1. sources' \subseteq todo' \cup needed'
      BY <1>1, <1>2, <1>4
    <2>2. OnStack' = OnStack /\ Returned' = Returned /\ \A i : Above(i)' = Above(i)
      BY <1>4 DEF OnStack, Returned, Above
    <2>3. WalkInv'
      BY <1>1, <1>4, <2>1, <2>2 DEF WalkInv, Defined, Acyclic, Closed
    <2>. QED
      BY <1>1, <1>4, <2>3, StillWalking
  <1>5. CASE m \in DOMAIN deps /\ m \notin needed /\ Enter(m, stack, rest)
    <2>1. sources \subseteq todo' \cup needed'
      BY <1>1, <1>2, <1>5 DEF Enter
    <2>2. \A ms \in SUBSET Modules : Closed(ms) => m \in ms
      BY <1>2 DEF Closed
    <2>3. rest \in [Modules -> SUBSET Modules] /\ Len(stack) = 0
      BY <1>1 DEF ResolveTypeOK
    <2>4. WalkInv'
      BY <1>1, <1>5, <2>1, <2>2, <2>3, Entered
    <2>. QED
      BY <1>1, <1>5, <2>4, StillWalking DEF Enter
  <1>. QED
    BY <1>3, <1>4, <1>5 DEF VisitRequested

LEMMA VisitDependencyKeeps ==
    ASSUME ResolveTypeOK, CopyInv, NEW d \in Modules, VisitDependency(d)
    PROVE  CopyInv'
  <1> DEFINE remaining == [rest EXCEPT ![Top] = @ \ {d}]
  <1>1. /\ outcome = "walk" /\ WalkInv /\ stack # <<>> /\ d \in rest[Top]
        /\ UNCHANGED <<deps, sources, todo>>
    BY DEF VisitDependency, CopyInv, inputs
  <1>2. CASE Fails("missing") \/ Fails("cycle")
    BY <1>2, NotWalking DEF Fails, Errors
  <1>3. CASE /\ d \in needed \ OnStack /\ rest' = remaining
             /\ UNCHANGED <<outcome, stack, needed>>
    <2>1. d \in Returned
      BY <1>3 DEF Returned
    <2>2. WalkInv'
      BY <1>1, <1>3, <2>1, Skipped
    <2>. QED
      BY <1>1, <1>3, <2>2, StillWalking
  <1>4. CASE d \in DOMAIN deps \ (needed \cup OnStack) /\ Enter(d, stack, remaining)
    <2>1. /\ Len(stack) \in Nat \ {0} /\ Top \in Modules /\ Top \in OnStack
          /\ Top = stack[Len(stack)]
      BY <1>1, TopOnStack DEF ResolveTypeOK
    <2>2. /\ remaining \in [Modules -> SUBSET Modules]
          /\ \A x \in Modules : remaining[x] \subseteq rest[x]
          /\ \A x \in Modules \ {Top} : remaining[x] = rest[x]
          /\ rest[Top] \subseteq remaining[Top] \cup {d}
      BY <2>1 DEF ResolveTypeOK
    <2>3. \A i \in 1 .. Len(stack) - 1 : remaining[stack[i]] = rest[stack[i]]
      <3>1. \A i \in 1 .. Len(stack) - 1 : stack[i] \in Modules /\ stack[i] # Top
        BY <1>1, <2>1 DEF WalkInv, ResolveTypeOK
      <3>. QED
        BY <2>2, <3>1
    <2>4. sources \subseteq todo' \cup needed'
      BY <1>1, <1>4 DEF WalkInv, Enter
    <2>5. \A ms \in SUBSET Modules : Closed(ms) => d \in ms
      <3>1. Top \in needed /\ Top \in DOMAIN deps /\ d \in deps[Top]
        BY <1>1, <2>1 DEF WalkInv, Defined
      <3>. QED
        BY <1>1, <3>1 DEF WalkInv, Closed
    <2> HIDE DEF remaining
    <2>6. WalkInv'
      BY <1>1, <1>4, <2>2, <2>3, <2>4, <2>5, Entered
    <2>. QED
      BY <1>1, <1>4, <2>6, StillWalking DEF Enter
  <1>. QED
    BY <1>2, <1>3, <1>4 DEF VisitDependency

LEMMA FinishKeeps ==
    ASSUME ResolveTypeOK, CopyInv, Finish
    PROVE  CopyInv'
  <1>1. /\ WalkInv /\ stack = <<>> /\ todo = {} /\ outcome' \in {"collision", "ok"}
        /\ UNCHANGED <<deps, sources, needed>>
    BY DEF Finish, CopyInv, inputs, walk
  <1>2. OnStack = {} /\ Returned = needed
    BY <1>1 DEF OnStack, Returned
  <1>3. Defined(needed) /\ Closed(needed) /\ Acyclic(needed)
    BY <1>1, <1>2 DEF WalkInv, Closed
  <1>4. \A ms \in SUBSET Modules : Closed(ms) => needed \subseteq ms
    BY <1>1 DEF WalkInv
  <1>5. CopiesWhatIsNeeded' /\ NeverCopiesACycle'
    BY <1>1, <1>3, <1>4
       DEF CopiesWhatIsNeeded, NeverCopiesACycle, Defined, Closed, Acyclic
  <1>6. outcome' = "ok" => ~Collision(needed)'
    BY <1>1 DEF Finish, Collision
  <1>. QED
    BY <1>1, <1>5, <1>6 DEF CopyInv

LEMMA InitEstablishes == Init => CopyInv
  BY DEF Init, CopyInv, NothingVisited, CopiesWhatIsNeeded, NeverCopiesACycle

LEMMA StepKeeps ==
    ASSUME ResolveTypeOK, CopyInv, Next
    PROVE  CopyInv'
  <1>1. CASE LoadSnapshot
    <2>1. CASE outcome' = "invalid"
      BY <2>1, NotWalking DEF Errors
    <2>2. CASE outcome' = "resolve"
      BY <1>1, <2>2
         DEF LoadSnapshot, inputs, walk, CopyInv, NothingVisited,
             CopiesWhatIsNeeded, NeverCopiesACycle
    <2>. QED
      BY <1>1, <2>1, <2>2 DEF LoadSnapshot
  <1>2. CASE ResolveTasks
    <2>1. CASE outcome' = "unresolved"
      BY <2>1, NotWalking DEF Errors
    <2>2. CASE outcome' = "walk"
      <3>1. NothingVisited
        BY <1>2 DEF ResolveTasks, CopyInv
      <3>. QED
        BY <1>2, <2>2, <3>1, StartsWalk, StillWalking
    <2>. QED
      BY <1>2, <2>1, <2>2 DEF ResolveTasks
  <1>3. CASE Return
    <2>1. WalkInv /\ outcome' = "walk"
      BY <1>3 DEF Return, CopyInv
    <2>. QED
      BY <1>3, <2>1, Left, StillWalking
  <1>. QED
    BY <1>1, <1>2, <1>3, VisitRequestedKeeps, VisitDependencyKeeps, FinishKeeps
       DEF Next

\* The invariant the walk maintains: what it has returned from is closed under
\* dependencies and free of cycles, and it visits nothing the sources do not need.
THEOREM WalkInvariant == Spec => [](ResolveTypeOK /\ CopyInv)
  <1>1. Init => ResolveTypeOK /\ CopyInv
    BY InitTyped, InitEstablishes
  <1>2. ResolveTypeOK /\ CopyInv /\ [Next]_vars => (ResolveTypeOK /\ CopyInv)'
    <2>1. CASE Next
      BY <2>1, StepTyped, StepKeeps
    <2>2. ResolveTypeOK /\ UNCHANGED vars => ResolveTypeOK'
      BY DEF ResolveTypeOK, vars, inputs, walk
    <2>3. CopyInv /\ UNCHANGED vars => CopyInv'
      BY DEF vars, inputs, walk, CopyInv, NothingVisited, WalkInv,
             CopiesWhatIsNeeded, NeverCopiesACycle, Defined, Closed, Acyclic,
             OnStack, Returned, Above
    <2>. QED
      BY <2>1, <2>2, <2>3
  <1>. QED
    BY <1>1, <1>2, PTL DEF Spec

\* A resolution that succeeds copies the requested modules and what they depend
\* on, directly or not, and nothing else (ResolveTransitive).
THEOREM AlwaysCopiesWhatIsNeeded == Spec => []CopiesWhatIsNeeded
  <1>1. CopyInv => CopiesWhatIsNeeded
    BY DEF CopyInv
  <1>. QED
    BY <1>1, WalkInvariant, PTL

\* No resolution succeeds with a dependency cycle among the modules it copies
\* (detectCycle), for stores of any size.
THEOREM CyclesAlwaysCaught == Spec => []NeverCopiesACycle
  <1>1. CopyInv => NeverCopiesACycle
    BY DEF CopyInv
  <1>. QED
    BY <1>1, WalkInvariant, PTL

-----------------------------------------------------------------------------
(* Why a resolution fails, and which sources it takes. *)

\* What is visited, and what it depends on, is needed.
LEMMA VisitedIsNeeded ==
    ASSUME ResolveTypeOK, WalkInv
    PROVE  /\ needed \subseteq Needed /\ sources \subseteq Needed
           /\ \A m \in Needed \cap DOMAIN deps : deps[m] \subseteq Needed
  <1>1. needed \subseteq Needed
    BY DEF ResolveTypeOK, WalkInv, Needed
  <1>2. sources \subseteq Needed
    BY DEF ResolveTypeOK, Closed, Needed
  <1>3. ASSUME NEW m \in Needed \cap DOMAIN deps, NEW d \in deps[m]
        PROVE  d \in Needed
    BY <1>3 DEF ResolveTypeOK, Closed, Needed
  <1>. QED
    BY <1>1, <1>2, <1>3

\* A dependency of the module on top that is on the stack closes a cycle: every
\* module from it on depends on the next one, and the one on top on it.
LEMMA StackHasACycle ==
    ASSUME ResolveTypeOK, WalkInv, Chained, stack # <<>>,
           NEW d \in OnStack, d \in rest[Top]
    PROVE  \E ms \in SUBSET (Needed \cap DOMAIN deps) : ~Acyclic(ms)
  <1> DEFINE n == Len(stack)
  <1>1. PICK k \in 1 .. n : stack[k] = d
    BY DEF OnStack
  <1>2. n \in Nat \ {0} /\ Top = stack[n] /\ Top \in OnStack /\ stack \in Seq(Modules)
    BY TopOnStack DEF ResolveTypeOK
  <1> DEFINE ms == {stack[i] : i \in k .. n}
  <1>3. ms \subseteq OnStack /\ ms # {} /\ d \in ms
    BY <1>1, <1>2 DEF OnStack
  <1>4. ms \in SUBSET (Needed \cap DOMAIN deps)
    BY <1>3, VisitedIsNeeded DEF WalkInv, Defined
  <1>5. ASSUME NEW m \in ms PROVE deps[m] \cap ms # {}
    <2>1. PICK i \in k .. n : m = stack[i]
      OBVIOUS
    <2>2. CASE i = n
      <3>1. d \in deps[m]
        BY <1>2, <2>1, <2>2 DEF WalkInv
      <3>. QED
        BY <1>3, <3>1
    <2>3. CASE i # n
      <3>1. i \in 1 .. n - 1 /\ i + 1 \in k .. n
        BY <1>1, <1>2, <2>3
      <3>2. stack[i + 1] \in deps[m] /\ stack[i + 1] \in ms
        BY <2>1, <3>1 DEF Chained
      <3>. QED
        BY <3>2
    <2>. QED
      BY <2>2, <2>3
  <1>6. ~Acyclic(ms)
    <2> HIDE DEF ms
    <2>. QED
      BY <1>3, <1>5 DEF Acyclic
  <1>. QED
    BY <1>4, <1>6

\* The path a CycleError reports goes round such a cycle.
LEMMA PathIsACycle ==
    ASSUME ResolveTypeOK, WalkInv, Chained, stack # <<>>,
           NEW d \in OnStack, d \in rest[Top]
    PROVE  LET path == CyclePath(d) IN
           /\ Len(path) >= 2 /\ path[1] = path[Len(path)]
           /\ \A i \in 1 .. Len(path) - 1 : path[i + 1] \in deps[path[i]]
  <1> DEFINE n == Len(stack)
             k == CHOOSE i \in 1 .. n : stack[i] = d
             part == SubSeq(stack, k, n)
             len == n - k + 1
  <1>1. k \in 1 .. n /\ stack[k] = d
    BY DEF OnStack
  <1> HIDE DEF k
  <1>2. n \in Nat \ {0} /\ Top = stack[n] /\ Top \in OnStack /\ stack \in Seq(Modules)
    BY TopOnStack DEF ResolveTypeOK
  <1>3. d \in Modules /\ d \in deps[stack[n]]
    BY <1>1, <1>2 DEF WalkInv
  <1>4. /\ part \in Seq(Modules) /\ Len(part) = len
        /\ \A i \in 1 .. len : part[i] = stack[k + i - 1]
    <2>1. \A i \in k .. n : stack[i] \in Modules
      BY <1>1, <1>2
    <2>2. k \in Int /\ n \in Int /\ k <= n
      BY <1>1, <1>2
    <2> HIDE DEF n
    <2>. QED
      BY <2>1, <2>2, SubSeqProperties
  <1>5. len \in Nat \ {0} /\ k \in Nat
    BY <1>1, <1>2
  <1> HIDE DEF part
  <1>6. /\ CyclePath(d) = Append(part, d)
        /\ Len(CyclePath(d)) = len + 1
        /\ CyclePath(d)[len + 1] = d
        /\ \A i \in 1 .. len : CyclePath(d)[i] = stack[k + i - 1]
    <2>1. CyclePath(d) = Append(part, d)
      BY DEF CyclePath, part, k
    <2>2. /\ Len(Append(part, d)) = Len(part) + 1
          /\ Append(part, d)[Len(part) + 1] = d
          /\ \A i \in 1 .. Len(part) : Append(part, d)[i] = part[i]
      BY <1>3, <1>4, Pushed
    <2> HIDE DEF len
    <2>. QED
      BY <1>4, <2>1, <2>2
  <1>7. CyclePath(d)[1] = d
    <2>1. 1 \in 1 .. len /\ k + 1 - 1 = k
      BY <1>5
    <2>. QED
      BY <1>1, <1>6, <2>1
  <1>8. ASSUME NEW i \in 1 .. len
        PROVE  CyclePath(d)[i + 1] \in deps[CyclePath(d)[i]]
    <2>1. CASE i = len
      <3>1. k + i - 1 = n
        BY <1>1, <1>2, <2>1
      <3>2. CyclePath(d)[i] = stack[n] /\ CyclePath(d)[i + 1] = d
        BY <1>6, <2>1, <3>1
      <3>. QED
        BY <1>3, <3>2
    <2>2. CASE i # len
      <3>1. /\ i + 1 \in 1 .. len
            /\ k + i - 1 \in 1 .. n - 1
            /\ k + (i + 1) - 1 = (k + i - 1) + 1
        <4>1. k \in Nat \ {0} /\ k <= n /\ n \in Nat
          BY <1>1, <1>2
        <4> HIDE DEF n
        <4>2. i \in Nat \ {0} /\ i < len
          BY <1>5, <2>2
        <4>. QED
          BY <4>1, <4>2
      <3>2. stack[(k + i - 1) + 1] \in deps[stack[k + i - 1]]
        BY <3>1 DEF Chained
      <3>3. /\ CyclePath(d)[i] = stack[k + i - 1]
            /\ CyclePath(d)[i + 1] = stack[(k + i - 1) + 1]
        <4>1. CyclePath(d)[i + 1] = stack[k + (i + 1) - 1]
          BY <1>6, <3>1
        <4>. QED
          BY <1>6, <3>1, <4>1
      <3>. QED
        BY <3>2, <3>3
    <2>. QED
      BY <2>1, <2>2
  <1>9. Len(CyclePath(d)) - 1 = len /\ Len(CyclePath(d)) >= 2
    BY <1>5, <1>6
  <1>. QED
    BY <1>6, <1>7, <1>8, <1>9

\* Steps that end the resolution with another error, or do not walk yet.
LEMMA ErrorInvElsewhere ==
    ASSUME outcome' \notin {"walk", "ok", "undefined", "missing", "cycle", "collision"}
    PROVE  ErrorInv'
  BY DEF ErrorInv, FailsForAReason, ReportsTheCycle

\* Steps of the walk that go on.
LEMMA ErrorInvWalking ==
    ASSUME outcome' = "walk", Chained', SourcesFound'
    PROVE  ErrorInv'
  BY DEF ErrorInv, FailsForAReason, ReportsTheCycle

LEMMA SourcesStay ==
    ASSUME SourcesFound, UNCHANGED <<tasks, manager, catalog, sources>>
    PROVE  SourcesFound'
  <1>1. \A t : SourceOf(t)' = SourceOf(t)
    BY DEF SourceOf, Variants
  <1>. QED
    BY <1>1 DEF SourcesFound

\* The module that is entered depends on nothing, or on the one on top.
LEMMA EnteredChained ==
    ASSUME ResolveTypeOK, Chained, NEW m \in DOMAIN deps,
           stack # <<>> => m \in deps[Top],
           stack' = Append(stack, m), deps' = deps
    PROVE  Chained'
  <1> DEFINE n == Len(stack)
  <1>1. /\ stack \in Seq(Modules) /\ m \in Modules /\ n \in Nat
        /\ stack # <<>> => n # 0
    BY DEF ResolveTypeOK
  <1>2. /\ Len(stack') = n + 1 /\ stack'[n + 1] = m
        /\ \A i \in 1 .. n : stack'[i] = stack[i]
    BY <1>1, Pushed
  <1>3. ASSUME NEW i \in 1 .. Len(stack') - 1
        PROVE  stack'[i + 1] \in deps[stack'[i]]
    <2>1. i \in 1 .. n /\ stack # <<>>
      BY <1>1, <1>2
    <2>2. CASE i = n
      BY <1>2, <2>1, <2>2 DEF Top
    <2>3. CASE i # n
      <3>1. i \in 1 .. n - 1 /\ i + 1 \in 1 .. n
        BY <1>1, <2>1, <2>3
      <3>. QED
        BY <1>2, <2>1, <3>1 DEF Chained
    <2>. QED
      BY <2>2, <2>3
  <1>. QED
    BY <1>3 DEF Chained

LEMMA VisitRequestedExplains ==
    ASSUME ResolveTypeOK, CopyInv, ErrorInv, NEW m \in todo, VisitRequested(m)
    PROVE  ErrorInv'
  <1>1. /\ outcome = "walk" /\ WalkInv /\ Chained /\ SourcesFound /\ stack = <<>>
        /\ UNCHANGED <<deps, tasks, manager, catalog, sources>>
    BY DEF VisitRequested, CopyInv, ErrorInv, inputs
  <1>2. SourcesFound'
    BY <1>1, SourcesStay
  <1>3. CASE m \notin DOMAIN deps /\ Fails("undefined")
    <2>1. m \in Needed
      BY <1>1, VisitedIsNeeded DEF ResolveTypeOK
    <2>2. Needed' = Needed
      BY <1>1 DEF Needed, Closed
    <2>. QED
      BY <1>1, <1>3, <2>1, <2>2
         DEF Fails, ErrorInv, FailsForAReason, ReportsTheCycle, Defined
  <1>4. CASE UNCHANGED <<outcome, stack, rest, needed>>
    BY <1>1, <1>2, <1>4, ErrorInvWalking DEF Chained
  <1>5. CASE m \in DOMAIN deps /\ Enter(m, stack, rest)
    BY <1>1, <1>2, <1>5, ErrorInvWalking, EnteredChained DEF Enter
  <1>. QED
    BY <1>3, <1>4, <1>5 DEF VisitRequested

LEMMA VisitDependencyExplains ==
    ASSUME ResolveTypeOK, CopyInv, ErrorInv, NEW d \in Modules, VisitDependency(d)
    PROVE  ErrorInv'
  <1> DEFINE remaining == [rest EXCEPT ![Top] = @ \ {d}]
  <1>1. /\ outcome = "walk" /\ WalkInv /\ Chained /\ SourcesFound
        /\ stack # <<>> /\ d \in rest[Top]
        /\ UNCHANGED <<deps, tasks, manager, catalog, sources>>
    BY DEF VisitDependency, CopyInv, ErrorInv, inputs
  <1>2. SourcesFound'
    BY <1>1, SourcesStay
  <1>3. Top \in OnStack /\ Top \in needed /\ d \in deps[Top]
    BY <1>1, TopOnStack DEF WalkInv, ResolveTypeOK
  <1>4. Needed' = Needed
    BY <1>1 DEF Needed, Closed
  <1>5. CASE d \notin DOMAIN deps /\ Fails("missing")
    <2>1. d \in Needed
      BY <1>1, <1>3, VisitedIsNeeded DEF WalkInv, Defined
    <2>. QED
      BY <1>1, <1>4, <1>5, <2>1
         DEF Fails, ErrorInv, FailsForAReason, ReportsTheCycle, Defined
  <1>6. CASE d \in OnStack /\ Fails("cycle") /\ cycle' = CyclePath(d)
    <2>1. \E ms \in SUBSET (Needed' \cap DOMAIN deps') : ~Acyclic(ms)'
      BY <1>1, <1>4, <1>6, StackHasACycle DEF Acyclic
    <2>2. ReportsTheCycle'
      BY <1>1, <1>6, PathIsACycle DEF ReportsTheCycle
    <2>3. FailsForAReason'
      BY <1>6, <2>1 DEF Fails, FailsForAReason
    <2>. QED
      BY <1>6, <2>2, <2>3 DEF Fails, ErrorInv
  <1>7. CASE UNCHANGED <<outcome, stack>>
    BY <1>1, <1>2, <1>7, ErrorInvWalking DEF Chained
  <1>8. CASE d \in DOMAIN deps /\ Enter(d, stack, remaining)
    BY <1>1, <1>2, <1>3, <1>8, ErrorInvWalking, EnteredChained DEF Enter
  <1>. QED
    BY <1>5, <1>6, <1>7, <1>8 DEF VisitDependency

LEMMA StepExplains ==
    ASSUME ResolveTypeOK, CopyInv, ErrorInv, Next
    PROVE  ErrorInv'
  <1>1. CASE LoadSnapshot
    BY <1>1, ErrorInvElsewhere DEF LoadSnapshot
  <1>2. CASE ResolveTasks
    <2>1. CASE Unresolved
      BY <1>2, <2>1, ErrorInvElsewhere DEF ResolveTasks
    <2>2. CASE ~Unresolved
      <3>1. /\ outcome = "resolve" /\ outcome' = "walk" /\ stack' = <<>>
            /\ sources' = {SourceOf(t) : t \in tasks}
            /\ UNCHANGED <<tasks, manager, catalog>>
        BY <1>2, <2>2 DEF ResolveTasks, CopyInv, NothingVisited, inputs
      <3>2. \A t \in tasks : SourceOf(t)' = SourceOf(t) /\ SourceOf(t) \in catalog
        BY <2>2, <3>1 DEF Unresolved, SourceOf, Variants
      <3>3. SourcesFound'
        BY <3>1, <3>2 DEF SourcesFound
      <3>4. Chained'
        BY <3>1 DEF Chained
      <3>. QED
        BY <3>1, <3>3, <3>4, ErrorInvWalking
    <2>. QED
      BY <2>1, <2>2
  <1>3. ASSUME NEW m \in todo, VisitRequested(m) PROVE ErrorInv'
    BY <1>3, VisitRequestedExplains
  <1>4. ASSUME NEW d \in Modules, VisitDependency(d) PROVE ErrorInv'
    BY <1>4, VisitDependencyExplains
  <1>5. CASE Return
    <2>1. /\ outcome = "walk" /\ outcome' = "walk" /\ Chained /\ SourcesFound
          /\ stack # <<>> /\ stack' = SubSeq(stack, 1, Len(stack) - 1)
          /\ UNCHANGED <<deps, tasks, manager, catalog, sources>>
      BY <1>5 DEF Return, ErrorInv, inputs
    <2>2. /\ Len(stack) \in Nat \ {0} /\ Len(stack') = Len(stack) - 1
          /\ \A i \in 1 .. Len(stack) - 1 : stack'[i] = stack[i]
      BY <2>1, Popped DEF ResolveTypeOK
    <2>3. Chained'
      BY <2>1, <2>2 DEF Chained
    <2>. QED
      BY <2>1, <2>3, SourcesStay, ErrorInvWalking
  <1>6. CASE Finish
    <2>1. /\ WalkInv /\ SourcesFound /\ outcome' \in {"collision", "ok"}
          /\ outcome' = "collision" => Collision(needed)
          /\ UNCHANGED <<deps, tasks, manager, catalog, sources, needed>>
      BY <1>6 DEF Finish, CopyInv, ErrorInv, inputs, walk
    <2>2. Collision(needed) => Collision(Needed)
      BY <2>1, VisitedIsNeeded DEF Collision
    <2>3. Needed' = Needed
      BY <2>1 DEF Needed, Closed
    <2>. QED
      BY <2>1, <2>2, <2>3, SourcesStay
         DEF ErrorInv, FailsForAReason, ReportsTheCycle, Collision
  <1>. QED
    BY <1>1, <1>2, <1>3, <1>4, <1>5, <1>6 DEF Next

\* The inductive invariant of a resolution: what its success and what its errors
\* rest on.
THEOREM ResolutionInvariant == Spec => [](ResolveTypeOK /\ ResolveInv)
  <1>1. Init => ErrorInv
    BY DEF Init, ErrorInv, FailsForAReason, ReportsTheCycle
  <1>2. ResolveTypeOK /\ CopyInv /\ ErrorInv /\ [Next]_vars => ErrorInv'
    <2>1. ErrorInv /\ UNCHANGED vars => ErrorInv'
      <3>. SUFFICES ASSUME ErrorInv, UNCHANGED vars PROVE ErrorInv'
        OBVIOUS
      <3>1. /\ UNCHANGED <<deps, tasks, manager, catalog, sources>>
            /\ UNCHANGED <<stack, cycle, outcome>>
        BY DEF vars, inputs, walk
      <3>2. Needed' = Needed
        BY <3>1 DEF Needed, Closed
      <3>3. FailsForAReason'
        BY <3>1, <3>2 DEF ErrorInv, FailsForAReason, Defined, Acyclic, Collision
      <3>4. ReportsTheCycle' /\ (outcome' = "walk" => Chained')
        BY <3>1 DEF ErrorInv, ReportsTheCycle, Chained
      <3>. QED
        BY <3>1, <3>3, <3>4, SourcesStay DEF ErrorInv
    <2>. QED
      BY <2>1, StepExplains
  <1>. QED
    BY <1>1, <1>2, WalkInvariant, PTL DEF Spec, ResolveInv

\* A resolution that fails does so because of what the sources need: a module
\* without an entry, a cycle or two modules with one destination among those.
THEOREM AlwaysFailsForAReason == Spec => []FailsForAReason
  <1>1. ResolveInv => FailsForAReason
    BY DEF ResolveInv, ErrorInv
  <1>. QED
    BY <1>1, ResolutionInvariant, PTL

\* The chain of a CycleError is a cycle of the store, however deep the walk was
\* when it met it (detectCycle).
THEOREM AlwaysReportsTheCycle == Spec => []ReportsTheCycle
  <1>1. ResolveInv => ReportsTheCycle
    BY DEF ResolveInv, ErrorInv
  <1>. QED
    BY <1>1, ResolutionInvariant, PTL

\* A task with variants is copied in that of the package manager the run was
\* given, or the resolution fails (pickTaskResolver).
THEOREM AlwaysAsksForItsVariant == Spec => []AsksForItsVariant
  <1>1. ResolveTypeOK /\ ResolveInv => AsksForItsVariant
    <2>. SUFFICES ASSUME ResolveTypeOK, ResolveInv, outcome = "ok", NEW t \in tasks,
                         NEW p \in Managers, Variant[t][p] \in catalog
                  PROVE  manager # None /\ Variant[t][manager] \in sources
      BY DEF AsksForItsVariant
    <2>1. Variants(t) # {}
      BY DEF Variants
    <2>2. SourceOf(t) \in sources /\ sources \subseteq Modules
      BY DEF ResolveInv, ErrorInv, SourcesFound, ResolveTypeOK
    <2>. QED
      BY <2>1, <2>2 DEF SourceOf
  <1>. QED
    BY <1>1, ResolutionInvariant, PTL
=============================================================================
