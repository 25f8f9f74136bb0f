-------------------------- MODULE SyncEngineProofs --------------------------
(***************************************************************************)
(* Proofs about SyncEngine for every number of targets, modules, files,    *)
(* contents and configurations.                                            *)
(***************************************************************************)
EXTENDS SyncEngineProps, TLAPS

-----------------------------------------------------------------------------
(* The operators of the plan. *)

\* What a configuration wants is a manifest: it lists only store contents.
LEMMA WantedIsManifest ==
    ASSUME NEW c \in Configs, NEW s \in [Files -> Contents \cup {Absent}]
    PROVE  Wanted(c, s) \in Manifest
  BY ConstantsAssumption DEF Wanted, Manifest, Path

\* The lock of a plan is a lock, and is not mistaken for the absence of one.
LEMMA NewLockIsLock ==
    ASSUME TypeOK
    PROVE  want \in Manifest /\ NewLock \in Lock /\ NewLock # None
  <1>1. want \in Manifest
    BY WantedIsManifest DEF TypeOK, want
  <1>2. NewLock \in Lock
    BY <1>1 DEF TypeOK, NewLock, Lock
  <1>. QED
    BY <1>1, <1>2, SentinelsAssumption

\* The previous lock and target folder are of their types.
LEMMA PreviousStateTyped ==
    ASSUME TypeOK, NEW t \in Targets \cup {None}
    PROVE  /\ LockAt(t) \in Lock \cup {None}
           /\ TargetAt(t) \in Targets \cup {None}
  <1>1. config.target \in Targets
    BY ConstantsAssumption DEF TypeOK
  <1>2. LockAt(t) \in Lock \cup {None}
    BY <1>1, SentinelsAssumption DEF TypeOK, LockAt
  <1>3. LockAt(t) # None => LockAt(t).cfg.target \in Targets
    BY <1>2, ConstantsAssumption DEF Lock
  <1>. QED
    BY <1>2, <1>3 DEF TargetAt

-----------------------------------------------------------------------------
(* Type correctness. *)

LEMMA InitTyped == Init => TypeOK
  <1> SUFFICES ASSUME Init PROVE TypeOK
    OBVIOUS
  <1>1. /\ store \in [Files -> Contents \cup {Absent}]
        /\ config \in Configs
        /\ meta \in [Targets -> Configs \cup {None}]
    BY DEF Init
  <1>2. /\ tree \in [Path -> Contents \cup {Absent, Hand}]
        /\ dirs \subseteq Dir
        /\ lock \in [Targets -> Lock \cup {None}]
        /\ legacy \in Targets \cup {None}
    <2>1. CASE NothingSynced
      BY <2>1 DEF NothingSynced, EmptyManifest
    <2>2. ASSUME NEW c \in LegacyConfigs, LegacySynced(c)
          PROVE  /\ tree \in [Path -> Contents \cup {Absent, Hand}]
                 /\ dirs \subseteq Dir
                 /\ lock \in [Targets -> Lock \cup {None}]
                 /\ legacy \in Targets \cup {None}
      <3>1. c \in Configs /\ c.target \in Targets
        BY ConstantsAssumption
      <3>2. Wanted(c, store) \in Manifest
        BY <1>1, <3>1, WantedIsManifest
      <3>3. tree \in [Path -> Contents \cup {Absent, Hand}]
        BY <2>2, <3>2 DEF LegacySynced, Manifest
      <3>4. dirs \subseteq Dir
        BY <2>2, ConstantsAssumption DEF LegacySynced, Occupied, Dir, DirOf, Path
      <3>5. lock \in [Targets -> Lock \cup {None}]
        BY <2>2, <3>1, <3>2 DEF LegacySynced, Lock
      <3>. QED
        BY <2>2, <3>1, <3>3, <3>4, <3>5 DEF LegacySynced
    <2>. QED
      BY <2>1, <2>2 DEF Init
  <1>. QED
    BY <1>1, <1>2, ConstantsAssumption DEF Init, TypeOK

LEMMA BuildPlanTyped == TypeOK /\ BuildPlan => TypeOK'
  <1> SUFFICES ASSUME TypeOK, BuildPlan PROVE TypeOK'
    OBVIOUS
  <1>1. PICK t \in Targets \cup {None} :
           PreviousTarget(t) /\ BuildPlanFrom(LockAt(t), TargetAt(t))
    BY DEF BuildPlan
  <1>2. LockAt(t) \in Lock \cup {None} /\ TargetAt(t) \in Targets \cup {None}
    BY PreviousStateTyped
  <1>3. VisibleDirs \subseteq Dir
    BY ConstantsAssumption DEF TypeOK, VisibleDirs, Occupied, Dir, DirOf, Path
  <1>4. Listed(want) \subseteq Path
    BY DEF Listed
  <1>5. ASSUME NEW r \in {"failed", "refused", "unchanged"}, EndPlanning(r)
        PROVE  TypeOK'
    BY <1>3, <1>5 DEF TypeOK, BuildPlan, EndPlanning, plan
  <1>6. CASE StartApply(LockAt(t), TargetAt(t))
    BY <1>2, <1>3, <1>4, <1>6 DEF TypeOK, BuildPlan, StartApply, Base
  <1>. QED
    BY <1>1, <1>5, <1>6 DEF BuildPlanFrom

LEMMA RunStepTyped == TypeOK /\ RunStep => TypeOK'
  <1> SUFFICES ASSUME TypeOK, RunStep PROVE TypeOK'
    OBVIOUS
  <1> USE DEF Apply
  <1>0. config.target \in Targets
    BY ConstantsAssumption DEF TypeOK
  <1>1. CASE StageFiles
    BY <1>1 DEF TypeOK, StageFiles
  <1>2. ASSUME NEW p \in todo, PromoteFile(p) PROVE TypeOK'
    <2>1. p \in Path /\ want[p] \in Contents \cup {Absent}
      BY NewLockIsLock DEF TypeOK, Manifest
    <2>2. DirOf(p) \in Dir
      BY <2>1, ConstantsAssumption DEF Path, DirOf, Dir
    <2>. QED
      BY <1>2, <2>1, <2>2 DEF TypeOK, PromoteFile
  <1>3. CASE WriteLock
    BY <1>0, <1>3, NewLockIsLock DEF TypeOK, WriteLock
  <1>4. CASE WriteMetadata
    <2>1. Stale(old) \subseteq Path
      BY DEF Stale, Listed
    <2>. QED
      BY <1>0, <1>4, <2>1 DEF TypeOK, WriteMetadata
  <1>5. ASSUME NEW p \in todo, RemoveStale(p) PROVE TypeOK'
    BY <1>5 DEF TypeOK, RemoveStale
  <1>6. CASE RemoveOldFiles
    BY <1>6 DEF TypeOK, RemoveOldFiles
  <1>7. CASE RemoveOldLock
    BY <1>7, SentinelsAssumption DEF TypeOK, RemoveOldLock
  <1>8. CASE RemoveOldMetadata
    BY <1>8, SentinelsAssumption DEF TypeOK, RemoveOldMetadata
  <1>9. CASE CleanupLegacyMetadata
    BY <1>9 DEF TypeOK, CleanupLegacyMetadata
  <1>10. CASE CleanupStaging
    BY <1>10 DEF TypeOK, CleanupStaging
  <1>. QED
    BY <1>1, <1>2, <1>3, <1>4, <1>5, <1>6, <1>7, <1>8, <1>9, <1>10 DEF RunStep

LEMMA WorldTyped == TypeOK /\ World => TypeOK'
  <1> SUFFICES ASSUME TypeOK, World PROVE TypeOK'
    OBVIOUS
  <1> USE DEF Environment, plan
  <1>0. edits < MaxEdits => edits + 1 \in 0 .. MaxEdits
    BY ConstantsAssumption DEF TypeOK
  <1>1. ASSUME NEW p \in Path, WriteByHand(p) \/ DeleteByHand(p) PROVE TypeOK'
    <2>1. DirOf(p) \in Dir
      BY ConstantsAssumption DEF Path, DirOf, Dir
    <2>2. CASE WriteByHand(p)
      BY <1>0, <2>1, <2>2 DEF TypeOK, WriteByHand
    <2>3. CASE DeleteByHand(p)
      BY <1>0, <2>1, <2>3 DEF TypeOK, DeleteByHand
    <2>. QED
      BY <1>1, <2>2, <2>3
  <1>2. ASSUME NEW d \in Dir, RemoveDirectory(d) PROVE TypeOK'
    BY <1>0, <1>2 DEF TypeOK, RemoveDirectory
  <1>3. ASSUME NEW f \in Files, NEW c \in Contents \cup {Absent}, Publish(f, c)
        PROVE TypeOK'
    BY <1>0, <1>3 DEF TypeOK, Publish
  <1>4. ASSUME NEW c \in Configs, Reconfigure(c) PROVE TypeOK'
    BY <1>0, <1>4 DEF TypeOK, Reconfigure
  <1>. QED
    BY <1>1, <1>2, <1>3, <1>4 DEF World

LEMMA AbandonTyped ==
    ASSUME TypeOK, NEW crashed \in BOOLEAN, Abandon(crashed)
    PROVE  TypeOK'
  <1>1. faults + 1 \in 0 .. MaxFaults
    BY ConstantsAssumption DEF TypeOK, Abandon
  <1>2. config.target \in Targets
    BY ConstantsAssumption DEF TypeOK
  <1>3. CASE FreshCheckout
    BY <1>1, <1>3 DEF TypeOK, Abandon, Base
  <1>4. CASE ~FreshCheckout
    BY <1>1, <1>2, <1>4 DEF TypeOK, Abandon
  <1>. QED
    BY <1>3, <1>4

\* Every step of the engine, of the world and of a fault keeps the types.
THEOREM TypeCorrect == Spec => []TypeOK
  <1>1. TypeOK /\ [Next]_vars => TypeOK'
    <2> SUFFICES ASSUME TypeOK, [Next]_vars PROVE TypeOK'
      OBVIOUS
    <2>1. CASE UNCHANGED vars
      BY <2>1 DEF TypeOK, vars, workspace, plan
    <2>. QED
      BY <2>1, BuildPlanTyped, RunStepTyped, WorldTyped, AbandonTyped
      DEF Next, EngineStep, ApplyError, Crash
  <1>. QED
    BY <1>1, InitTyped, PTL DEF Spec

-----------------------------------------------------------------------------
(* The inductive invariant. *)

\* In a settled workspace loadPreviousState finds the one target that has
\* state, whichever of its three sources names it, or finds nothing at all.
LEMMA PreviousStateFound ==
    ASSUME TypeOK, leftovers = {}, Settled(tree, lock, meta, legacy),
           NEW t \in Targets \cup {None}, PreviousTarget(t)
    PROVE  /\ TargetAt(t) = t
           /\ LockAt(t) = None <=> t = None
           /\ \A u \in Targets : lock[u] = IF u = t THEN LockAt(t) ELSE None
           /\ \A u \in Targets : meta[u] # None => u = t
           /\ legacy # None => legacy = t
           /\ LockAt(t) # None =>
                 /\ LockAt(t).cfg.target = t
                 /\ \A p \in Listed(LockAt(t).files) : p[1] = t
           /\ \A p \in Path : tree[p] \in Contents =>
                 LockAt(t) # None /\ tree[p] = LockAt(t).files[p]
  <1>0. config.target \in Targets
    BY ConstantsAssumption DEF TypeOK
  <1>1. CASE t = None
    <2>1. legacy = None /\ \A u \in Targets : meta[u] = None
      BY <1>0, <1>1, SentinelsAssumption DEF PreviousTarget, Candidates, TypeOK
    <2>2. \A u \in Targets : lock[u] = None
      BY <2>1, SentinelsAssumption DEF Settled
    <2>. QED
      BY <1>0, <1>1, <2>1, <2>2, SentinelsAssumption
      DEF Settled, LockAt, TargetAt
  <1>2. CASE t # None
    <2>1. t \in Targets /\ LockAt(t) = lock[t] /\ TargetAt(t) = t
      BY <1>2 DEF LockAt, TargetAt
    <2>2. meta[t] # None \/ legacy = t
      BY <1>2 DEF PreviousTarget, Candidates
    <2>3. lock[t] # None
      BY <2>1, <2>2 DEF Settled
    <2>4. \A u \in Targets : u # t => lock[u] = None /\ meta[u] = None /\ legacy # u
      BY <2>1, <2>3 DEF Settled
    <2>5. legacy # None => legacy = t
      BY <2>4 DEF TypeOK
    <2>6. \A p \in Path : tree[p] \in Contents => tree[p] = lock[t].files[p]
      BY <2>1, <2>4 DEF Settled
    <2>7. lock[t].cfg.target = t /\ \A p \in Listed(lock[t].files) : p[1] = t
      BY <2>1, <2>3 DEF Settled
    <2>. QED
      BY <1>2, <2>1, <2>3, <2>4, <2>5, <2>6, <2>7
  <1>. QED
    BY <1>1, <1>2

\* The plan only depends on the store and the configuration.
LEMMA WantUnchanged ==
    ASSUME UNCHANGED <<store, config>>
    PROVE  want' = want /\ NewLock' = NewLock
  BY DEF want, NewLock

LEMMA InitInv == Init => IInv
  <1> SUFFICES ASSUME Init PROVE IInv
    OBVIOUS
  <1>1. TypeOK
    BY InitTyped
  <1>2. Settled(tree, lock, meta, legacy)
    <2>1. CASE NothingSynced
      BY <2>1, SentinelsAssumption DEF Init, NothingSynced, EmptyManifest, Settled
    <2>2. ASSUME NEW c \in LegacyConfigs, LegacySynced(c)
          PROVE  Settled(tree, lock, meta, legacy)
      <3>1. c \in Configs /\ c.target \in Targets
        BY ConstantsAssumption
      <3>2. Wanted(c, store) \in Manifest
        BY <1>1, <3>1, WantedIsManifest DEF TypeOK
      <3>3. [cfg |-> c, files |-> Wanted(c, store)] # None
        BY <3>1, <3>2, SentinelsAssumption DEF Lock
      <3>4. \A p \in Listed(Wanted(c, store)) : p[1] = c.target
        BY DEF Listed, Wanted
      <3>5. /\ tree = Wanted(c, store) /\ legacy = c.target
            /\ \A t \in Targets : meta[t] = None
            /\ lock[c.target] = [cfg |-> c, files |-> Wanted(c, store)]
            /\ \A t \in Targets : t # c.target => lock[t] = None
        BY <2>2, <3>1 DEF Init, LegacySynced
      <3>. QED
        BY <3>1, <3>3, <3>4, <3>5 DEF Settled
    <2>. QED
      BY <2>1, <2>2 DEF Init
  <1>. QED
    BY <1>1, <1>2 DEF Init, IInv, SuccessMeansInSync

LEMMA BuildPlanInv == IInv /\ BuildPlan => IInv'
  <1> SUFFICES ASSUME IInv, BuildPlan PROVE IInv'
    OBVIOUS
  <1>0. /\ TypeOK /\ leftovers = {} /\ pc = "idle" /\ TypeOK'
        /\ Settled(tree, lock, meta, legacy)
        /\ config.target \in Targets
    BY BuildPlanTyped, ConstantsAssumption DEF IInv, TypeOK, BuildPlan
  <1>1. PICK t \in Targets \cup {None} :
           PreviousTarget(t) /\ BuildPlanFrom(LockAt(t), TargetAt(t))
    BY DEF BuildPlan
  <1> DEFINE l == LockAt(t)
  <1>2. /\ TargetAt(t) = t
        /\ l = None <=> t = None
        /\ \A u \in Targets : lock[u] = IF u = t THEN l ELSE None
        /\ \A u \in Targets : meta[u] # None => u = t
        /\ legacy # None => legacy = t
        /\ l # None => l.cfg.target = t /\ \A p \in Listed(l.files) : p[1] = t
        /\ \A p \in Path : tree[p] \in Contents => l # None /\ tree[p] = l.files[p]
    BY <1>0, <1>1, PreviousStateFound
  <1>3. UNCHANGED <<tree, lock, meta, legacy, leftovers, store, config>>
    BY DEF BuildPlan
  <1>4. want' = want /\ NewLock' = NewLock /\ want \in Manifest
    BY <1>0, <1>3, WantUnchanged, NewLockIsLock
  <1>5. ASSUME NEW r \in {"failed", "refused"}, EndPlanning(r) PROVE IInv'
    BY <1>0, <1>3, <1>5 DEF IInv, EndPlanning, SuccessMeansInSync, Settled, Listed
  <1>6. CASE ~Changed(l) /\ EndPlanning("unchanged")
    <2>1. /\ \A p \in Listed(want) : tree[p] = want[p]
          /\ l = NewLock
          /\ meta[config.target] = config
      BY <1>6 DEF Changed
    <2>2. NewLock # None /\ NewLock.cfg = config /\ NewLock.files = want
      BY <1>0, NewLockIsLock DEF NewLock
    <2>3. t = config.target
      BY <1>2, <2>1, <2>2
    <2>4. legacy = None
      <3>1. meta[config.target] # None
        BY <1>0, <2>1, SentinelsAssumption DEF TypeOK
      <3>. QED
        BY <1>0, <3>1 DEF Settled
    <2>5. lock = [u \in Targets |-> IF u = config.target THEN NewLock ELSE None]
      BY <1>0, <1>2, <2>1, <2>3 DEF TypeOK
    <2>6. meta = [u \in Targets |-> IF u = config.target THEN config ELSE None]
      BY <1>0, <1>2, <2>1, <2>3 DEF TypeOK
    <2>7. /\ \A p \in Path : want[p] # Absent => tree[p] = want[p]
          /\ \A p \in Path : tree[p] \in Contents => tree[p] = want[p]
      BY <1>2, <2>1, <2>2 DEF Listed
    <2>8. InSync'
      BY <1>3, <1>4, <2>4, <2>5, <2>6, <2>7 DEF InSync
    <2>. QED
      BY <1>0, <1>3, <1>6, <2>8
      DEF IInv, EndPlanning, SuccessMeansInSync, Settled, Listed
  <1>7. CASE StartApply(l, TargetAt(t))
    <2>1. /\ pc' = "stage" /\ old' = l /\ oldTarget' = t /\ todo' = Listed(want)
          /\ FreshCheckout => base' = [tree |-> tree, lock |-> lock,
                                       meta |-> meta, legacy |-> legacy]
      BY <1>2, <1>7 DEF StartApply
    <2>2. OldStateConsistent'
      BY <1>2, <2>1 DEF OldStateConsistent, Listed
    <2>3. StateFilesByPhase'
      BY <1>2, <1>3, <2>1 DEF StateFilesByPhase, Unwritten, Locked
    <2>4. FilesByPhase'
      BY <1>2, <1>3, <1>4, <2>1 DEF FilesByPhase, Unwritten, Swept, Listed
    <2>5. FreshCheckout => Settled(base.tree, base.lock, base.meta, base.legacy)'
      BY <1>0, <2>1 DEF Settled, Listed
    <2>. QED
      BY <1>0, <1>3, <2>1, <2>2, <2>3, <2>4, <2>5 DEF IInv, SuccessMeansInSync
  <1>. QED
    BY <1>1, <1>5, <1>6, <1>7 DEF BuildPlanFrom

\* What every step of ApplyPlan leaves alone.
LEMMA ApplyFrame ==
    ASSUME IInv, RunStep
    PROVE  /\ TypeOK /\ TypeOK' /\ pc # "idle" /\ leftovers' = {}
           /\ OldStateConsistent /\ OldStateConsistent'
           /\ StateFilesByPhase /\ FilesByPhase
           /\ UNCHANGED <<config, old, oldTarget>>
           /\ want' = want /\ NewLock' = NewLock /\ want \in Manifest
           /\ Stale(old)' = Stale(old)
           /\ OldTargetUnchanged' = OldTargetUnchanged
           /\ config.target \in Targets
           /\ FreshCheckout => Settled(base.tree, base.lock, base.meta, base.legacy)'
  <1>1. /\ UNCHANGED <<store, config, old, oldTarget, base, leftovers>>
        /\ pc # "idle"
    BY DEF RunStep, Apply, StageFiles, PromoteFile, WriteLock, WriteMetadata,
           RemoveStale, RemoveOldFiles, RemoveOldLock, RemoveOldMetadata,
           CleanupLegacyMetadata, CleanupStaging
  <1>2. TypeOK /\ TypeOK' /\ config.target \in Targets
    BY RunStepTyped, ConstantsAssumption DEF IInv, TypeOK
  <1>3. want' = want /\ NewLock' = NewLock /\ want \in Manifest
    BY <1>1, <1>2, WantUnchanged, NewLockIsLock
  <1>. QED
    BY <1>1, <1>2, <1>3
    DEF IInv, OldStateConsistent, OldTargetUnchanged, Stale, Listed, Settled

\* Promotion: the tree moves from the old content to the wanted one.
LEMMA PromotionInv ==
    ASSUME IInv, RunStep,
           StageFiles \/ (\E p \in todo : PromoteFile(p)) \/ WriteLock
    PROVE  IInv'
  <1> USE ApplyFrame DEF Apply
  <1>1. CASE StageFiles
    <2>1. StateFilesByPhase'
      BY <1>1 DEF StageFiles, StateFilesByPhase, Unwritten, Locked
    <2>2. FilesByPhase'
      BY <1>1 DEF StageFiles, FilesByPhase, Unwritten, Swept, Listed
    <2>. QED
      BY <1>1, <2>1, <2>2 DEF StageFiles, IInv, SuccessMeansInSync
  <1>2. ASSUME NEW p \in todo, PromoteFile(p) PROVE IInv'
    <2>1. StateFilesByPhase'
      BY <1>2 DEF PromoteFile, StateFilesByPhase, Unwritten, Locked
    <2>2. /\ p \in Path
          /\ \A q \in Path : tree'[q] = IF q = p THEN want[q] ELSE tree[q]
      BY <1>2 DEF PromoteFile, TypeOK
    <2>3. FilesByPhase'
      BY <1>2, <2>2 DEF PromoteFile, FilesByPhase, Unwritten, Swept, Listed
    <2>. QED
      BY <1>2, <2>1, <2>3 DEF PromoteFile, IInv, SuccessMeansInSync
  <1>3. CASE WriteLock
    <2>1. \A t \in Targets :
             lock'[t] = IF t = config.target THEN NewLock ELSE lock[t]
      BY <1>3 DEF WriteLock, TypeOK
    <2>2. StateFilesByPhase'
      BY <1>3, <2>1 DEF WriteLock, StateFilesByPhase, Unwritten, Locked
    <2>3. FilesByPhase'
      BY <1>3 DEF WriteLock, FilesByPhase, Unwritten, Swept, Listed
    <2>. QED
      BY <1>3, <2>2, <2>3 DEF WriteLock, IInv, SuccessMeansInSync
  <1>. QED
    BY <1>1, <1>2, <1>3

\* Removal: what the old lock lists and the plan does not is gone before the
\* old lock goes.
LEMMA RemovalInv ==
    ASSUME IInv, RunStep,
           WriteMetadata \/ (\E p \in todo : RemoveStale(p)) \/ RemoveOldFiles
    PROVE  IInv'
  <1> USE ApplyFrame DEF Apply
  <1>1. CASE WriteMetadata
    <2>1. \A t \in Targets :
             meta'[t] = IF t = config.target THEN config ELSE meta[t]
      BY <1>1 DEF WriteMetadata, TypeOK
    <2>2. StateFilesByPhase'
      BY <1>1, <2>1 DEF WriteMetadata, StateFilesByPhase, Unwritten, Locked
    <2>3. FilesByPhase'
      BY <1>1 DEF WriteMetadata, FilesByPhase, Unwritten, Swept, Listed
    <2>. QED
      BY <1>1, <2>2, <2>3 DEF WriteMetadata, IInv, SuccessMeansInSync
  <1>2. ASSUME NEW p \in todo, RemoveStale(p) PROVE IInv'
    <2>1. StateFilesByPhase'
      BY <1>2 DEF RemoveStale, StateFilesByPhase, Unwritten, Locked
    <2>2. /\ p \in Path /\ p \in Stale(old)
          /\ \A q \in Path : tree'[q] = IF q = p THEN Absent ELSE tree[q]
      BY <1>2 DEF RemoveStale, FilesByPhase, TypeOK
    <2>3. p \notin Listed(want)
      BY <2>2 DEF Stale
    <2>4. FilesByPhase'
      BY <1>2, <2>2, <2>3, SentinelsAssumption
      DEF RemoveStale, FilesByPhase, Unwritten, Swept, Listed
    <2>. QED
      BY <1>2, <2>1, <2>4 DEF RemoveStale, IInv, SuccessMeansInSync
  <1>3. CASE RemoveOldFiles
    <2>1. StateFilesByPhase'
      <3>1. CASE OldTargetUnchanged
        <4>1. pc = "stale" /\ pc' = "legacy" /\ UNCHANGED <<lock, meta, legacy>>
          BY <1>3, <3>1 DEF RemoveOldFiles
        <4>2. \A t \in Targets : t = oldTarget => t = config.target
          BY <3>1, SentinelsAssumption DEF OldTargetUnchanged, OldStateConsistent
        <4>3. \A t \in Targets :
                 lock[t] = IF t = config.target THEN NewLock ELSE None
          BY <4>1, <4>2 DEF StateFilesByPhase, Unwritten, Locked
        <4>4. \A t \in Targets :
                 meta[t] = IF t = config.target THEN config ELSE None
          BY <4>1, <4>2 DEF StateFilesByPhase, Unwritten
        <4>. QED
          BY <4>1, <4>3, <4>4 DEF StateFilesByPhase, Unwritten, Locked
      <3>2. CASE ~OldTargetUnchanged
        BY <1>3, <3>2 DEF RemoveOldFiles, StateFilesByPhase, Unwritten, Locked
      <3>. QED
        BY <3>1, <3>2
    <2>2. /\ \A p \in Path : tree'[p] \in {tree[p], Absent}
          /\ \A p \in Listed(want) : tree'[p] = tree[p]
      <3>1. CASE OldTargetUnchanged
        BY <1>3, <3>1 DEF RemoveOldFiles, Listed
      <3>2. CASE ~OldTargetUnchanged
        <4>1. \A p \in Listed(want) : p \in Path /\ p[1] = config.target
          BY DEF Listed, want, Wanted
        <4>. QED
          BY <1>3, <3>2, <4>1 DEF RemoveOldFiles, OldTargetUnchanged
      <3>. QED
        BY <3>1, <3>2
    <2>3. \A p \in Stale(old) : p \in Path
      BY DEF Stale, Listed
    <2>4. FilesByPhase'
      BY <1>3, <2>2, <2>3, SentinelsAssumption
      DEF RemoveOldFiles, FilesByPhase, Unwritten, Swept, Listed
    <2>. QED
      BY <1>3, <2>1, <2>4 DEF RemoveOldFiles, IInv, SuccessMeansInSync
  <1>. QED
    BY <1>1, <1>2, <1>3

\* The old target's lock and metadata, and the legacy metadata, go last.
LEMMA SweepInv ==
    ASSUME IInv, RunStep,
           RemoveOldLock \/ RemoveOldMetadata \/ CleanupLegacyMetadata
    PROVE  IInv'
  <1> USE ApplyFrame DEF Apply
  <1>1. CASE RemoveOldLock
    <2>1. \A t \in Targets : lock'[t] = IF t = oldTarget THEN None ELSE lock[t]
      BY <1>1 DEF RemoveOldLock, TypeOK
    <2>2. StateFilesByPhase'
      BY <1>1, <2>1 DEF RemoveOldLock, StateFilesByPhase, Unwritten, Locked,
                        OldTargetUnchanged
    <2>3. FilesByPhase'
      BY <1>1 DEF RemoveOldLock, FilesByPhase, Unwritten, Swept, Listed
    <2>. QED
      BY <1>1, <2>2, <2>3 DEF RemoveOldLock, IInv, SuccessMeansInSync
  <1>2. CASE RemoveOldMetadata
    <2>1. \A t \in Targets : meta'[t] = IF t = oldTarget THEN None ELSE meta[t]
      BY <1>2 DEF RemoveOldMetadata, TypeOK
    <2>2. StateFilesByPhase'
      BY <1>2, <2>1 DEF RemoveOldMetadata, StateFilesByPhase, Unwritten, Locked,
                        OldTargetUnchanged
    <2>3. FilesByPhase'
      BY <1>2 DEF RemoveOldMetadata, FilesByPhase, Unwritten, Swept, Listed
    <2>. QED
      BY <1>2, <2>2, <2>3 DEF RemoveOldMetadata, IInv, SuccessMeansInSync
  <1>3. CASE CleanupLegacyMetadata
    <2>1. StateFilesByPhase'
      BY <1>3 DEF CleanupLegacyMetadata, StateFilesByPhase, Unwritten, Locked
    <2>2. FilesByPhase'
      BY <1>3 DEF CleanupLegacyMetadata, FilesByPhase, Unwritten, Swept, Listed
    <2>. QED
      BY <1>3, <2>1, <2>2 DEF CleanupLegacyMetadata, IInv, SuccessMeansInSync
  <1>. QED
    BY <1>1, <1>2, <1>3

\* The last step: what the phases have built up is a workspace in sync.
LEMMA FinishInv ==
    ASSUME IInv, RunStep, CleanupStaging
    PROVE  IInv'
  <1> USE ApplyFrame
  <1>1. /\ pc = "unstage" /\ pc' = "idle"
        /\ UNCHANGED <<tree, dirs, lock, meta, legacy>>
    BY DEF CleanupStaging, Apply
  <1>2. /\ \A t \in Targets :
              lock[t] = IF t = config.target THEN NewLock ELSE None
        /\ \A t \in Targets :
              meta[t] = IF t = config.target THEN config ELSE None
        /\ legacy = None
    BY <1>1 DEF StateFilesByPhase, Unwritten, Locked
  <1>3. \A p \in Path : want[p] # Absent => tree[p] = want[p]
    BY <1>1 DEF FilesByPhase, Unwritten, Listed
  <1>4. \A p \in Path : tree[p] \in Contents => tree[p] = want[p]
    <2> SUFFICES ASSUME NEW p \in Path, tree[p] \in Contents, tree[p] # want[p]
                 PROVE  FALSE
      OBVIOUS
    <2>1. p \notin Listed(want)
      BY <1>3 DEF Listed
    <2>2. old # None /\ tree[p] = old.files[p]
      BY DEF FilesByPhase
    <2>3. p \in Stale(old)
      BY <2>1, <2>2, SentinelsAssumption DEF Stale, Listed
    <2>4. tree[p] = Absent
      BY <1>1, <2>3 DEF FilesByPhase, Swept
    <2>. QED
      BY <2>4, SentinelsAssumption
  <1>5. InSync
    BY <1>2, <1>3, <1>4 DEF InSync, TypeOK
  <1>6. Settled(tree, lock, meta, legacy)
    <2>1. NewLock # None /\ NewLock.cfg = config /\ NewLock.files = want
      BY NewLockIsLock DEF NewLock
    <2>2. config # None
      BY SentinelsAssumption DEF TypeOK
    <2>3. \A p \in Listed(want) : p[1] = config.target
      BY DEF Listed, want, Wanted
    <2>4. None \notin Targets
      BY SentinelsAssumption
    <2>. QED
      BY <1>2, <1>4, <2>1, <2>2, <2>3, <2>4 DEF Settled
  <1>7. InSync'
    BY <1>1, <1>5 DEF InSync
  <1>8. Settled(tree, lock, meta, legacy)'
    BY <1>1, <1>6 DEF Settled, Listed
  <1>. QED
    BY <1>1, <1>7, <1>8 DEF IInv, SuccessMeansInSync

LEMMA WorldInv == IInv /\ World => IInv'
  <1> SUFFICES ASSUME IInv, World PROVE IInv'
    OBVIOUS
  <1> USE DEF Environment
  <1>1. /\ Environment
        /\ \A p \in Path : tree'[p] \in Contents => tree'[p] = tree[p]
    <2>1. ASSUME NEW p \in Path, WriteByHand(p) \/ DeleteByHand(p)
          PROVE  /\ Environment
                 /\ \A q \in Path : tree'[q] \in Contents => tree'[q] = tree[q]
      <3>1. Environment /\ (tree' = [tree EXCEPT ![p] = Hand]
                            \/ tree' = [tree EXCEPT ![p] = Absent])
        BY <2>1 DEF WriteByHand, DeleteByHand
      <3>. QED
        BY <3>1, SentinelsAssumption DEF IInv, TypeOK
    <2>2. ASSUME NEW d \in Dir, RemoveDirectory(d)
          PROVE  /\ Environment
                 /\ \A q \in Path : tree'[q] \in Contents => tree'[q] = tree[q]
      BY <2>2, SentinelsAssumption DEF RemoveDirectory
    <2>3. ASSUME NEW f \in Files, NEW c \in Contents \cup {Absent}, Publish(f, c)
          PROVE  /\ Environment
                 /\ \A q \in Path : tree'[q] \in Contents => tree'[q] = tree[q]
      BY <2>3 DEF Publish
    <2>4. ASSUME NEW c \in Configs, Reconfigure(c)
          PROVE  /\ Environment
                 /\ \A q \in Path : tree'[q] \in Contents => tree'[q] = tree[q]
      BY <2>4 DEF Reconfigure
    <2>. QED
      BY <2>1, <2>2, <2>3, <2>4 DEF World
  <1>2. TypeOK'
    BY WorldTyped DEF IInv
  <1>3. Settled(tree, lock, meta, legacy)'
    BY <1>1 DEF IInv, Settled, Listed
  <1>. QED
    BY <1>1, <1>2, <1>3 DEF IInv, SuccessMeansInSync

LEMMA AbandonInv ==
    ASSUME Undisturbed, IInv, NEW crashed \in BOOLEAN, Abandon(crashed)
    PROVE  IInv'
  <1>1. TypeOK'
    BY AbandonTyped DEF IInv
  <1>2. FreshCheckout
    BY DEF Undisturbed, Abandon, IInv, TypeOK
  <1>3. Settled(tree, lock, meta, legacy)'
    BY <1>2 DEF IInv, Abandon, Settled, Listed
  <1>. QED
    BY <1>1, <1>2, <1>3 DEF IInv, Abandon, SuccessMeansInSync

\* The invariant holds in every state, of runs that are never interrupted and of
\* interrupted runs on fresh checkouts.
THEOREM InductiveInvariant ==
    ASSUME Undisturbed
    PROVE  Spec => []IInv
  <1>1. IInv /\ [Next]_vars => IInv'
    <2> SUFFICES ASSUME IInv, [Next]_vars PROVE IInv'
      OBVIOUS
    <2>1. CASE UNCHANGED vars
      <3>1. UNCHANGED <<tree, dirs, lock, meta, legacy, leftovers, store, config, pc,
                        old, oldTarget, todo, base, outcome, edits, faults>>
        BY <2>1 DEF vars, workspace, plan
      <3>2. want' = want /\ NewLock' = NewLock
        BY <3>1, WantUnchanged
      <3>. QED
        BY <3>1, <3>2
        DEF IInv, TypeOK, Settled, OldStateConsistent, StateFilesByPhase,
            FilesByPhase, SuccessMeansInSync, InSync, Listed, Stale,
            OldTargetUnchanged
    <2>2. CASE RunStep
      BY <2>2, PromotionInv, RemovalInv, SweepInv, FinishInv DEF RunStep
    <2>. QED
      BY <2>1, <2>2, BuildPlanInv, WorldInv, AbandonInv
      DEF Next, EngineStep, ApplyError, Crash
  <1>. QED
    BY <1>1, InitInv, PTL DEF Spec

-----------------------------------------------------------------------------
(* What follows for the workspace between two runs. *)

\* Nothing TaskOtter wrote is lost track of, at rest.
THEOREM TrackedAlways ==
    ASSUME Undisturbed
    PROVE  Spec => []Tracked
  <1>1. IInv => Tracked
    BY DEF IInv, Settled, Tracked, Recorded
  <1>. QED
    BY <1>1, InductiveInvariant, PTL

\* Two target folders never have state at the same time, at rest.
THEOREM OneHomeAlways ==
    ASSUME Undisturbed
    PROVE  Spec => []OneHome
  <1>1. IInv => OneHome
    BY DEF IInv, Settled, OneHome, Inhabited
  <1>. QED
    BY <1>1, InductiveInvariant, PTL

\* A run that ends well leaves exactly what the configuration wants.
THEOREM SuccessAlwaysInSync ==
    ASSUME Undisturbed
    PROVE  Spec => []SuccessMeansInSync
  <1>1. IInv => SuccessMeansInSync
    BY DEF IInv
  <1>. QED
    BY <1>1, InductiveInvariant, PTL

-----------------------------------------------------------------------------
(* What a step of a run may do. *)

\* Directories that hold a file were there, or are of the file just written.
LEMMA OccupiedKept ==
    ASSUME TypeOK, Occupied \subseteq dirs, dirs \subseteq dirs',
           NEW p \in Path, DirOf(p) \in dirs' \/ tree'[p] = Absent,
           \A q \in Path \ {p} : tree'[q] \in {tree[q], Absent}
    PROVE  Occupied' \subseteq dirs'
  <1> SUFFICES ASSUME NEW q \in Path, tree'[q] # Absent PROVE DirOf(q) \in dirs'
    BY DEF Occupied
  <1>1. CASE q = p
    BY <1>1
  <1>2. CASE q # p
    BY <1>2 DEF Occupied
  <1>. QED
    BY <1>1, <1>2

\* A plan that is handed over has found its destinations managed.
LEMMA BuildPlanGuards == TypeOK /\ StepInv /\ BuildPlan => StepInv'
  <1> SUFFICES ASSUME TypeOK, StepInv, BuildPlan PROVE StepInv'
    OBVIOUS
  <1>1. PICK t \in Targets \cup {None} :
           PreviousTarget(t) /\ BuildPlanFrom(LockAt(t), TargetAt(t))
    BY DEF BuildPlan
  <1>2. /\ UNCHANGED <<tree, store, config>> /\ dirs' = VisibleDirs /\ pc = "idle"
        /\ want' = want /\ Listed(want)' = Listed(want) /\ Occupied' = Occupied
    BY DEF BuildPlan, want, Occupied, Listed
  <1>3. ~FreshCheckout => Occupied' \subseteq dirs'
    BY <1>2 DEF StepInv, VisibleDirs
  <1>4. SourceMissing' = SourceMissing
    BY <1>2 DEF SourceMissing
  <1>5. ASSUME NEW r \in {"failed", "refused", "unchanged"}, EndPlanning(r)
        PROVE  StepInv'
    BY <1>3, <1>5 DEF EndPlanning, StepInv, Unwritten
  <1>6. CASE /\ ~SourceMissing /\ ~UnmanagedDestination(LockAt(t))
             /\ StartApply(LockAt(t), TargetAt(t))
    <2>1. pc' = "stage" /\ todo' = Listed(want) /\ old' = LockAt(t)
      BY <1>6 DEF StartApply
    <2>2. ASSUME NEW p \in Listed(want), tree[p] = Hand
          PROVE  IsDestinationManaged(LockAt(t), ModuleOf[p[2]])
      <3>1. /\ p \in Path /\ p[1] = config.target /\ ModuleOf[p[2]] \in config.mods
        BY DEF Listed, want, Wanted
      <3>2. DirOf(p) \in Occupied
        BY <2>2, <3>1, SentinelsAssumption DEF Occupied
      <3>3. <<config.target, ModuleOf[p[2]]>> \in VisibleDirs
        BY <3>1, <3>2 DEF StepInv, VisibleDirs, DirOf
      <3>. QED
        BY <1>6, <3>1, <3>3 DEF UnmanagedDestination
    <2>3. \A m : IsDestinationManaged(old, m)' = IsDestinationManaged(LockAt(t), m)
      BY <2>1 DEF IsDestinationManaged, Listed
    <2>. QED
      BY <1>2, <1>3, <1>4, <1>6, <2>1, <2>2, <2>3 DEF StepInv
  <1>. QED
    BY <1>1, <1>5, <1>6 DEF BuildPlanFrom

\* A step of ApplyPlan keeps to the plan.
LEMMA RunStepGuards == TypeOK /\ StepInv /\ RunStep => StepInv'
  <1> SUFFICES ASSUME TypeOK, StepInv, RunStep PROVE StepInv'
    OBVIOUS
  <1>1. UNCHANGED <<store, config, old>> /\ pc # "idle"
    BY DEF RunStep, Apply, StageFiles, PromoteFile, WriteLock, WriteMetadata,
           RemoveStale, RemoveOldFiles, RemoveOldLock, RemoveOldMetadata,
           CleanupLegacyMetadata, CleanupStaging
  <1>2. /\ Listed(want)' = Listed(want) /\ Stale(old)' = Stale(old)
        /\ ~SourceMissing'
        /\ \A m : IsDestinationManaged(old, m)' = IsDestinationManaged(old, m)
    BY <1>1 DEF StepInv, SourceMissing, want, Listed, Stale, IsDestinationManaged
  <1>3. ASSUME UNCHANGED <<tree, dirs>>
        PROVE  ~FreshCheckout => Occupied' \subseteq dirs'
    BY <1>3 DEF StepInv, Occupied
  <1> USE DEF Apply
  <1>4. CASE StageFiles
    BY <1>2, <1>3, <1>4 DEF StageFiles, StepInv, Unwritten
  <1>5. ASSUME NEW p \in todo, PromoteFile(p) PROVE StepInv'
    <2>1. /\ p \in Path /\ p \in Listed(want) /\ todo' \subseteq todo
          /\ pc = "promote" /\ pc' = "promote"
          /\ dirs' = dirs \cup {DirOf(p)}
          /\ \A q \in Path : tree'[q] = IF q = p THEN want[q] ELSE tree[q]
      BY <1>5 DEF PromoteFile, StepInv, TypeOK, Unwritten
    <2>2. ~FreshCheckout => Occupied' \subseteq dirs'
      BY <2>1, OccupiedKept DEF StepInv
    <2>3. want[p] \in Contents \cup {Absent}
      BY <2>1, NewLockIsLock DEF Manifest
    <2>4. \A q \in Listed(want) : tree'[q] = Hand => tree[q] = Hand
      BY <2>1, <2>3, SentinelsAssumption DEF Listed
    <2>. QED
      BY <1>2, <2>1, <2>2, <2>4 DEF StepInv, Unwritten
  <1>6. CASE WriteLock
    BY <1>2, <1>3, <1>6 DEF WriteLock, StepInv, Unwritten
  <1>7. CASE WriteMetadata
    BY <1>2, <1>3, <1>7 DEF WriteMetadata, StepInv, Unwritten
  <1>8. ASSUME NEW p \in todo, RemoveStale(p) PROVE StepInv'
    <2>1. /\ p \in Path /\ todo' \subseteq todo /\ pc = "stale" /\ pc' = "stale"
          /\ dirs' = dirs
          /\ \A q \in Path : tree'[q] = IF q = p THEN Absent ELSE tree[q]
      BY <1>8 DEF RemoveStale, TypeOK
    <2>2. ~FreshCheckout => Occupied' \subseteq dirs'
      BY <2>1, OccupiedKept DEF StepInv
    <2>. QED
      BY <1>2, <2>1, <2>2 DEF StepInv, Unwritten
  <1>9. CASE RemoveOldFiles
    <2>1. /\ pc' \in {"legacy", "oldlock"} /\ dirs' = dirs
          /\ \A q \in Path : tree'[q] \in {tree[q], Absent}
      BY <1>9 DEF RemoveOldFiles
    <2>2. ~FreshCheckout => Occupied' \subseteq dirs'
      BY <2>1 DEF StepInv, Occupied
    <2>. QED
      BY <1>2, <2>1, <2>2 DEF StepInv, Unwritten
  <1>10. CASE RemoveOldLock \/ RemoveOldMetadata \/ CleanupLegacyMetadata \/ CleanupStaging
    BY <1>2, <1>3, <1>10
    DEF RemoveOldLock, RemoveOldMetadata, CleanupLegacyMetadata, CleanupStaging,
        StepInv, Unwritten
  <1>. QED
    BY <1>4, <1>5, <1>6, <1>7, <1>8, <1>9, <1>10 DEF RunStep

\* Whatever the user removes goes with the directory it leaves empty.
LEMMA WorldGuards == TypeOK /\ StepInv /\ World => StepInv'
  <1> SUFFICES ASSUME TypeOK, StepInv, World PROVE StepInv'
    OBVIOUS
  <1> USE DEF Environment
  <1>1. ASSUME Environment, ~FreshCheckout => Occupied' \subseteq dirs'
        PROVE  StepInv'
    BY <1>1 DEF StepInv, Unwritten
  <1>2. ASSUME NEW p \in Path, WriteByHand(p) PROVE StepInv'
    <2>1. \A q \in Path \ {p} : tree'[q] = tree[q]
      BY <1>2 DEF WriteByHand, TypeOK
    <2>. QED
      BY <1>1, <1>2, <2>1, OccupiedKept DEF WriteByHand, StepInv
  <1>3. ASSUME NEW p \in Path, DeleteByHand(p) PROVE StepInv'
    <2>1. \A q \in Path : tree'[q] = IF q = p THEN Absent ELSE tree[q]
      BY <1>3 DEF DeleteByHand, TypeOK
    <2>2. ASSUME NEW q \in Path, tree'[q] # Absent, DirOf(q) \in dirs
          PROVE  DirOf(q) \in dirs'
      BY <1>3, <2>1, <2>2 DEF DeleteByHand
    <2>3. Occupied \subseteq dirs => Occupied' \subseteq dirs'
      BY <2>1, <2>2 DEF Occupied
    <2>. QED
      BY <1>1, <1>3, <2>3 DEF DeleteByHand, StepInv
  <1>4. ASSUME NEW d \in Dir, RemoveDirectory(d) PROVE StepInv'
    <2>1. Occupied \subseteq dirs => Occupied' \subseteq dirs'
      BY <1>4 DEF RemoveDirectory, Occupied
    <2>. QED
      BY <1>1, <1>4, <2>1 DEF RemoveDirectory, StepInv
  <1>5. ASSUME UNCHANGED <<tree, dirs>>, Environment PROVE StepInv'
    BY <1>1, <1>5 DEF StepInv, Occupied
  <1>. QED
    BY <1>2, <1>3, <1>4, <1>5 DEF World, Publish, Reconfigure

LEMMA AbandonGuards ==
    ASSUME TypeOK, StepInv, NEW crashed \in BOOLEAN, Abandon(crashed)
    PROVE  StepInv'
  BY DEF Abandon, StepInv, Unwritten, Occupied

\* What a step relies on holds of every run, interrupted or not, on fresh and on
\* kept workspaces.
THEOREM StepInvariant == Spec => []StepInv
  <1>1. Init => StepInv
    <2> SUFFICES ASSUME Init PROVE StepInv
      OBVIOUS
    <2>1. Occupied \subseteq dirs
      BY DEF Init, NothingSynced, LegacySynced, EmptyManifest, Occupied
    <2>. QED
      BY <2>1 DEF Init, StepInv, Unwritten
  <1>2. TypeOK /\ StepInv /\ [Next]_vars => StepInv'
    <2>1. StepInv /\ UNCHANGED vars => StepInv'
      BY DEF vars, workspace, plan, StepInv, Occupied, Listed, want, Stale,
             IsDestinationManaged, SourceMissing
    <2>. QED
      BY <2>1, BuildPlanGuards, RunStepGuards, WorldGuards, AbandonGuards
      DEF Next, EngineStep, ApplyError, Crash
  <1>. QED
    BY <1>1, <1>2, TypeCorrect, PTL DEF Spec

\* Both invariants, for undisturbed runs.
THEOREM EngineInvariant ==
    ASSUME Undisturbed
    PROVE  Spec => []EngineInv
  BY InductiveInvariant, StepInvariant, PTL DEF EngineInv

\* No run, interrupted or not, on a fresh or on a kept workspace, replaces or
\* deletes a file of the user outside the modules the old lock manages, or one
\* that neither the old lock lists nor the plan wants.
THEOREM AlwaysKeepsHandWrittenModules == Spec => HandWrittenModulesKept
  <1> DEFINE Kept ==
        EngineStep => \A p \in Path : Destroys(p) =>
            /\ IsDestinationManaged(old, ModuleOf[p[2]])
            /\ p \in Listed(old.files) \cup Listed(want)
  <1>1. TypeOK /\ StepInv /\ [Next]_vars => [Kept]_vars
    <2> SUFFICES ASSUME TypeOK, StepInv, EngineStep, NEW p \in Path, Destroys(p)
                 PROVE  /\ IsDestinationManaged(old, ModuleOf[p[2]])
                        /\ p \in Listed(old.files) \cup Listed(want)
      OBVIOUS
    <2>1. tree[p] = Hand /\ tree'[p] # tree[p]
      BY DEF Destroys
    <2>2. ASSUME NEW q \in todo, PromoteFile(q)
          PROVE  q = p /\ pc \in Unwritten /\ p \in Listed(want)
      BY <2>1, <2>2 DEF PromoteFile, Apply, TypeOK, StepInv, Unwritten
    <2>3. ASSUME NEW q \in todo, RemoveStale(q)
          PROVE  old # None /\ p \in Listed(old.files)
      BY <2>1, <2>3 DEF RemoveStale, Apply, TypeOK, StepInv, Stale
    <2>4. \/ \E q \in todo : PromoteFile(q) \/ RemoveStale(q)
          \/ RemoveOldFiles
      BY <2>1 DEF EngineStep, BuildPlan, RunStep, StageFiles, WriteLock,
                  WriteMetadata, RemoveOldLock, RemoveOldMetadata,
                  CleanupLegacyMetadata, CleanupStaging
    <2>5. CASE p \in Listed(want) /\ pc \in Unwritten
      BY <2>1, <2>5 DEF StepInv
    <2>6. CASE old # None /\ p \in Listed(old.files)
      BY <2>6 DEF IsDestinationManaged
    <2>7. CASE RemoveOldFiles
      <3>1. old # None /\ p \in Listed(old.files)
        BY <2>1, <2>7 DEF RemoveOldFiles, OldTargetUnchanged
      <3>. QED
        BY <2>6, <3>1
    <2>. QED
      BY <2>2, <2>3, <2>4, <2>5, <2>6, <2>7
  <1>. QED
    BY <1>1, TypeCorrect, StepInvariant, PTL DEF Spec, HandWrittenModulesKept

\* After a run that ends well the next one finds nothing to do, in every
\* undisturbed workspace: no pull request is opened twice for the same content.
THEOREM SecondRunAlwaysUnchanged ==
    ASSUME Undisturbed
    PROVE  Spec => SecondRunIsUnchanged
  <1> DEFINE Quiet == BuildPlan /\ outcome = "synced" => outcome' = "unchanged"
  <1>1. EngineInv /\ [Next]_vars => [Quiet]_vars
    <2> SUFFICES ASSUME EngineInv, BuildPlan, outcome = "synced"
                 PROVE  outcome' = "unchanged"
      OBVIOUS
    <2>1. /\ TypeOK /\ InSync /\ ~SourceMissing /\ config.target \in Targets
      BY ConstantsAssumption
      DEF EngineInv, IInv, StepInv, SuccessMeansInSync, TypeOK, BuildPlan
    <2>2. meta[config.target] = config /\ config # None /\ config.target # None
      BY <2>1, SentinelsAssumption DEF InSync, TypeOK
    <2>3. lock[config.target] = NewLock /\ NewLock # None /\ NewLock.files = want
      BY <2>1, NewLockIsLock DEF InSync, NewLock
    <2>4. PICK t \in Targets \cup {None} :
             PreviousTarget(t) /\ BuildPlanFrom(LockAt(t), TargetAt(t))
      BY DEF BuildPlan
    <2>5. t = config.target
      BY <2>2, <2>4 DEF PreviousTarget
    <2>6. LockAt(t) = NewLock
      BY <2>2, <2>3, <2>5 DEF LockAt
    <2>7. ~UnmanagedDestination(NewLock)
      <3> SUFFICES ASSUME NEW m \in config.mods PROVE IsDestinationManaged(NewLock, m)
        BY DEF UnmanagedDestination
      <3>1. PICK f \in Files : ModuleOf[f] = m /\ store[f] # Absent
        BY <2>1 DEF SourceMissing
      <3>2. /\ <<config.target, f>> \in Path
            /\ want[<<config.target, f>>] = store[f]
        BY <2>1, <3>1 DEF Path, want, Wanted
      <3>. QED
        BY <2>3, <3>1, <3>2 DEF IsDestinationManaged, Listed
    <2>8. ~Changed(NewLock)
      <3>1. Stale(NewLock) = {}
        BY <2>3 DEF Stale
      <3>. QED
        BY <2>1, <2>2, <3>1 DEF Changed, InSync, Listed
    <2>. QED
      BY <2>1, <2>4, <2>6, <2>7, <2>8 DEF BuildPlanFrom, EndPlanning
  <1>. QED
    BY <1>1, EngineInvariant, PTL DEF Spec, SecondRunIsUnchanged
=============================================================================
