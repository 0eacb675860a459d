-------------------------- MODULE ReconcileProofs --------------------------
(***************************************************************************)
(* What holds of the Agent's reconciliation for every Fleet, every set of  *)
(* paths, hooks and faults, and any number of commits and crashes.         *)
(***************************************************************************)
EXTENDS Reconcile, TLAPS

USE DEF Files, Paths, Tree, PCs

LEMMA BoundsType ==
  /\ MaxFailures \in Nat /\ MaxFaults \in Nat /\ MaxPushes \in Nat
  /\ 0 \in 0..MaxFailures + 1 /\ 1 \in 0..MaxFailures + 1
  /\ 0 \in 0..MaxFaults /\ 0 \in 0..MaxPushes
BY BoundsAssumption

LEMMA EmptyType == Empty \in Tree
BY DEF Empty

LEMMA NoTargetType == NoTarget \in Target
BY EmptyType DEF NoTarget, Target

LEMMA FleetType ==
  ASSUME NEW sha \in Shas, NEW v \in Vaults
  PROVE  Fleet[sha][v] \in Tree
<1>1. Fleet \in [Shas -> [Vaults -> Tree]]
  BY FleetAssumption
<1> QED
  BY <1>1

LEMMA MarkAppliedType ==
  ASSUME NEW s \in State, NEW sha \in Shas \cup {NoSha}
  PROVE  MarkApplied(s, sha) \in State
BY BoundsType DEF MarkApplied, State

LEMMA ClearFailureGateType ==
  ASSUME NEW s \in State
  PROVE  ClearFailureGate(s) \in State
BY BoundsType DEF ClearFailureGate, State

LEMMA RecordedFailureType ==
  ASSUME NEW s \in State, NEW sha \in Shas \cup {NoSha}
  PROVE  RecordedFailure(s, sha) \in State
<1> DEFINE count == IF s.failedSHA # sha THEN 1
                    ELSE IF s.failedCount > MaxFailures THEN s.failedCount
                    ELSE s.failedCount + 1
<1>1. s.failedCount \in 0..MaxFailures + 1
  BY DEF State
<1>2. count \in 0..MaxFailures + 1
  BY <1>1, BoundsType
<1>3. RecordedFailure(s, sha) =
        [s EXCEPT !.failedSHA = sha, !.hot = TRUE, !.failedCount = count]
  BY DEF RecordedFailure, State
<1> HIDE DEF count
<1> QED
  BY <1>2, <1>3 DEF State

LEMMA MergeHooksType ==
  ASSUME NEW old \in [Hooks -> Nat], NEW attempted, NEW failed, NEW sha
  PROVE  MergeHooks(old, attempted, failed, sha) \in [Hooks -> Nat]
BY DEF MergeHooks

\* What a fault does to the count, and a tick's end to the Agent's memory.
LEMMA FaultType ==
  ASSUME NEW k, faults \in 0..MaxFaults, Fault(k)
  PROVE  faults' \in 0..MaxFaults
BY BoundsType DEF Fault

LEMMA IdleType ==
  ASSUME saved' \in State, Idle
  PROVE  /\ st' \in State /\ pc' \in PCs /\ target' \in Target
         /\ todo' \in SUBSET Paths /\ snap' \in Tree
BY EmptyType, NoTargetType DEF Idle

LEMMA TickDoneType ==
  ASSUME TypeOK, TickDone
  PROVE  refreshDue' \in BOOLEAN /\ reported' \in Shas \cup {NoSha}
BY DEF TickDone, TypeOK, Target

----------------------------------------------------------------------------
LEMMA TypeInit == Init => TypeOK
<1> SUFFICES ASSUME Init PROVE TypeOK
  OBVIOUS
<1>1. saved \in State
  <2> PICK seed \in Seeds :
        saved = [applied |-> NoSha, managed |-> seed, failedSHA |-> NoSha,
                 failedCount |-> 0, hot |-> FALSE,
                 hooks |-> [h \in Hooks |-> 0], units |-> {}]
    BY DEF Init
  <2>1. seed \in Tree /\ [h \in Hooks |-> 0] \in [Hooks -> Nat]
    BY FleetAssumption
  <2> QED
    BY <2>1, BoundsType DEF State
<1> QED
  BY <1>1, EmptyType, NoTargetType, FleetAssumption, BoundsType
  DEF Init, TypeOK

LEMMA TypeStep == TypeOK /\ [Next]_vars => TypeOK'
<1> SUFFICES ASSUME TypeOK, [Next]_vars PROVE TypeOK'
  OBVIOUS
<1> USE DEF TypeOK, world
<1>1. CASE UNCHANGED vars
  BY <1>1 DEF vars
<1>2. CASE Push
  <2>1. pushes' \in 0..MaxPushes /\ head' \in Shas
    BY <1>2, FleetAssumption, BoundsType DEF Push
  <2> QED
    BY <1>2, <2>1 DEF Push
<1>3. CASE Rotate
  <2>1. pushes' \in 0..MaxPushes
    BY <1>3, BoundsType DEF Rotate
  <2> QED
    BY <1>3, <2>1 DEF Rotate
<1>4. CASE RefreshTimer
  BY <1>4 DEF RefreshTimer
<1>5. CASE GateExpires
  BY <1>5 DEF GateExpires, State
<1>6. CASE Crash
  BY <1>6, FaultType, EmptyType, NoTargetType DEF Crash
<1>7. CASE Start
  <2>1. saved' \in State
    BY <1>7, ClearFailureGateType DEF Start, SaveOK, SaveFails
  <2>2. disk' \in Tree
    BY <1>7 DEF Start
  <2>3. faults' \in 0..MaxFaults
    BY <1>7, FaultType DEF Start, SaveOK, SaveFails, NoFault
  <2> QED
    BY <1>7, <2>1, <2>2, <2>3, IdleType, FleetAssumption DEF Start
<1>8. CASE Health
  <2>1. st' \in State
    BY <1>8 DEF Health, State, ManagedUnits
  <2>2. faults' \in 0..MaxFaults
    BY <1>8, FaultType DEF Health, SaveOK, SaveFails, NoFault
  <2> QED
    BY <1>8, <2>1, <2>2 DEF Health, SaveOK, SaveFails
<1>9. CASE SkipTick
  BY <1>9, FaultType, IdleType DEF SkipTick, IdleUnsaved
<1>10. CASE Noop
  BY <1>10, IdleType DEF Noop, IdleUnsaved
<1>11. CASE PendingUnitTick
  BY <1>11, IdleType DEF PendingUnitTick, IdleUnsaved
<1>12. CASE GatedTick
  BY <1>12, IdleType DEF GatedTick, IdleUnsaved
<1>13. CASE Resolve
  BY <1>13, FleetType DEF Resolve, Target, Changed
<1>14. CASE ReconcileFails
  BY <1>14, FaultType DEF ReconcileFails
<1>15. CASE NoChanges
  <2>1. saved' \in State /\ faults' \in 0..MaxFaults
    BY <1>15, FaultType, MarkAppliedType
    DEF NoChanges, IdleUnsaved, NoFault, SaveOK, SaveFails, Target
  <2>2. CASE TickDone /\ Idle
    BY <1>15, <2>1, <2>2, IdleType, TickDoneType DEF NoChanges
  <2>3. CASE /\ st' \in {st, MarkApplied(st, target.sha)}
             /\ pc' = "failed"
             /\ UNCHANGED <<target, todo, snap, refreshDue, reported>>
    BY <1>15, <2>1, <2>3, MarkAppliedType DEF NoChanges, Target
  <2> QED
    BY <1>15, <2>2, <2>3 DEF NoChanges, IdleUnsaved
<1>16. CASE RetryPendingHooks
  <2> PICK failed \in SUBSET (PendingHooks(st) \cap HooksOf[target.sha]) :
        LET retried == [st EXCEPT !.hooks =
              MergeHooks(st.hooks, PendingHooks(st), failed, target.sha)]
        IN \/ SaveOK(retried) /\ TickDone /\ Idle
           \/ /\ st' = retried /\ SaveFails(retried)
              /\ pc' = "failed"
              /\ UNCHANGED <<target, todo, snap, refreshDue, reported>>
    BY <1>16 DEF RetryPendingHooks
  <2> DEFINE retried == [st EXCEPT !.hooks =
        MergeHooks(st.hooks, PendingHooks(st), failed, target.sha)]
  <2>1. retried \in State
    BY MergeHooksType DEF State
  <2>2. saved' \in State /\ faults' \in 0..MaxFaults
    BY <2>1, FaultType DEF NoFault, SaveOK, SaveFails
  <2> HIDE DEF retried
  <2>3. CASE SaveOK(retried) /\ TickDone /\ Idle
    BY <1>16, <2>2, <2>3, IdleType, TickDoneType DEF RetryPendingHooks
  <2>4. CASE /\ st' = retried /\ SaveFails(retried) /\ pc' = "failed"
             /\ UNCHANGED <<target, todo, snap, refreshDue, reported>>
    BY <1>16, <2>1, <2>2, <2>4 DEF RetryPendingHooks
  <2> QED
    BY <2>3, <2>4 DEF retried
<1>17. CASE BeginApply
  <2>1. snap' \in Tree /\ faults' \in 0..MaxFaults
    BY <1>17, FaultType DEF BeginApply, NoFault
  <2> QED
    BY <1>17, <2>1 DEF BeginApply, Changes
<1>18. CASE ApplyChange
  BY <1>18 DEF ApplyChange, Target
<1>19. CASE ApplyFails
  BY <1>19, FaultType DEF ApplyFails, RollBack, Target, Changes
<1>20. CASE ActivateFails
  BY <1>20, FaultType DEF ActivateFails, RollBack, Changes
<1>21. CASE RestoreFile
  BY <1>21, FaultType DEF RestoreFile, NoFault
<1>22. CASE RollbackDone
  BY <1>22 DEF RollbackDone
<1>23. CASE Activate
  <2> PICK hooks, failed, restarted, broken, units :
        /\ st' = [MarkApplied(st, target.sha) EXCEPT
                    !.managed = target.want,
                    !.hooks = MergeHooks(st.hooks, hooks, failed, target.sha),
                    !.units = MergeUnits(st.units, restarted, broken, units)]
        /\ units \subseteq Units
        /\ target' = [target EXCEPT
                        !.incomplete = Incomplete(failed, broken, units)]
    BY <1>23 DEF Activate
  <2>1. MergeUnits(st.units, restarted, broken, units) \subseteq Units
    BY DEF MergeUnits
  <2>2. MergeHooks(st.hooks, hooks, failed, target.sha) \in [Hooks -> Nat]
    BY MergeHooksType DEF State
  <2>3. MarkApplied(st, target.sha) \in State /\ target.want \in Tree
    BY MarkAppliedType DEF Target
  <2>4. st' \in State
    BY <2>1, <2>2, <2>3 DEF State
  <2>5. target' \in Target
    BY DEF Target, Incomplete
  <2> QED
    BY <1>23, <2>4, <2>5 DEF Activate
<1>24. CASE FinalizeApply
  <2>1. saved' \in State /\ faults' \in 0..MaxFaults
    BY <1>24, FaultType DEF FinalizeApply, SaveOK, SaveFails, NoFault
  <2> QED
    BY <1>24, <2>1, IdleType, TickDoneType DEF FinalizeApply
<1>25. CASE SavePartialState
  <2>1. saved' \in State /\ faults' \in 0..MaxFaults
    BY <1>25, FaultType DEF SavePartialState, SaveOK, SaveFails, NoFault
  <2> QED
    BY <1>25, <2>1, IdleType, TickDoneType DEF SavePartialState
<1>26. CASE RecordFailure
  <2>1. saved' \in State /\ faults' \in 0..MaxFaults
    BY <1>26, FaultType, RecordedFailureType
    DEF RecordFailure, SaveOK, SaveFails, NoFault, Target
  <2> QED
    BY <1>26, <2>1, IdleType DEF RecordFailure
<1> QED
  BY <1>1, <1>2, <1>3, <1>4, <1>5, <1>6, <1>7, <1>8, <1>9, <1>10, <1>11,
     <1>12, <1>13, <1>14, <1>15, <1>16, <1>17, <1>18, <1>19, <1>20, <1>21,
     <1>22, <1>23, <1>24, <1>25, <1>26
  DEF Next, Agent

\* Every variable keeps its type.
THEOREM TypeCorrect == Spec => []TypeOK
BY TypeInit, TypeStep, PTL DEF Spec

----------------------------------------------------------------------------
(* The state file: what is saved is one coherent record. *)

\* A state record names one commit's files, its pending units are managed,
\* and its pending hooks are within budget.
Coherent(s) ==
  /\ s.applied # NoSha => \E v \in Vaults : s.managed = Fleet[s.applied][v]
  /\ s.units \subseteq ManagedUnits(s)
  /\ \A h \in Hooks : s.hooks[h] < MaxRetries[h]

\* The inductive invariant: the Agent's memory is coherent too, and between
\* the resolve and the end of the apply the target is what a commit resolves
\* to.
StateInv ==
  /\ Coherent(saved) /\ Coherent(st)
  /\ pc \in {"resolved", "apply"} =>
       /\ target.sha \in Shas
       /\ \E v \in Vaults : target.want = Fleet[target.sha][v]

\* A record that keeps what Coherent reads stays coherent.
LEMMA CoherentKept ==
  ASSUME NEW s, NEW t, Coherent(s), t.applied = s.applied,
         t.managed = s.managed, t.units = s.units, t.hooks = s.hooks
  PROVE  Coherent(t)
BY DEF Coherent, ManagedUnits

LEMMA CoherentCleared ==
  ASSUME NEW s \in State, Coherent(s)
  PROVE  Coherent(ClearFailureGate(s))
BY CoherentKept DEF ClearFailureGate, State

LEMMA CoherentFailed ==
  ASSUME NEW s \in State, NEW sha, Coherent(s)
  PROVE  Coherent(RecordedFailure(s, sha))
BY CoherentKept DEF RecordedFailure, State

\* A commit that changes no file is recorded with the files it stands for.
LEMMA CoherentMarked ==
  ASSUME NEW s \in State, NEW sha \in Shas, Coherent(s),
         NEW v \in Vaults, s.managed = Fleet[sha][v]
  PROVE  Coherent(MarkApplied(s, sha))
BY DEF Coherent, MarkApplied, ManagedUnits, State

\* The retry budget is enforced for the hooks of the Fleet, and only those
\* can have failed.
LEMMA BudgetKept ==
  ASSUME NEW old \in [Hooks -> Nat], NEW attempted, NEW sha,
         NEW failed \in SUBSET HooksOf[sha],
         \A h \in Hooks : old[h] < MaxRetries[h]
  PROVE  \A h \in Hooks :
           MergeHooks(old, attempted, failed, sha)[h] < MaxRetries[h]
<1> TAKE h \in Hooks
<1>1. /\ old[h] \in Nat /\ old[h] < MaxRetries[h]
      /\ MaxRetries[h] \in Nat /\ 0 < MaxRetries[h]
  BY HooksAssumption
<1>2. CASE h \in failed
  BY <1>1, <1>2 DEF MergeHooks
<1>3. CASE h \notin failed
  BY <1>1, <1>3 DEF MergeHooks
<1> QED
  BY <1>2, <1>3

LEMMA WantIsManaged ==
  ASSUME TypeOK, Changes = {}
  PROVE  target.want = st.managed
<1>1. target.want \in Tree /\ st.managed \in Tree
  BY DEF TypeOK, Target, State
<1>2. \A p \in Paths : target.want[p] = st.managed[p]
  BY DEF Changes
<1> QED
  BY <1>1, <1>2

LEMMA StateInit == Init => StateInv
<1> SUFFICES ASSUME Init PROVE StateInv
  OBVIOUS
<1>1. Coherent(saved)
  BY HooksAssumption DEF Init, Coherent
<1> QED
  BY <1>1 DEF Init, StateInv

LEMMA StateStep == TypeOK /\ StateInv /\ [Next]_vars => StateInv'
<1> SUFFICES ASSUME TypeOK, StateInv, [Next]_vars PROVE StateInv'
  OBVIOUS
<1>0. saved \in State /\ st \in State /\ Coherent(saved) /\ Coherent(st)
  BY DEF TypeOK, StateInv
<1>a. ASSUME Coherent(saved'), Idle PROVE StateInv'
  <2>1. Coherent(st)'
    BY <1>a DEF Idle, Coherent, ManagedUnits
  <2> QED
    BY <1>a, <2>1 DEF Idle, StateInv, Coherent, ManagedUnits
<1>b. ASSUME Coherent(saved'), Coherent(st'),
             pc' \notin {"resolved", "apply"}
      PROVE  StateInv'
  BY <1>b DEF StateInv, Coherent, ManagedUnits
<1>c. ASSUME saved' = saved, st' = st, target' = target, pc' = pc
      PROVE  StateInv'
  BY <1>c DEF StateInv, Coherent, ManagedUnits
<1>1. CASE UNCHANGED vars
  BY <1>1, <1>c DEF vars
<1>2. CASE Push \/ Rotate \/ RefreshTimer
  BY <1>2, <1>c DEF Push, Rotate, RefreshTimer
<1>3. CASE GateExpires
  <2>1. Coherent(saved') /\ Coherent(st')
    BY <1>3, <1>0, CoherentKept DEF GateExpires, State
  <2> QED
    BY <1>3, <2>1 DEF GateExpires, StateInv, Coherent, ManagedUnits
<1>4. CASE Crash
  BY <1>4, <1>0, <1>b DEF Crash
<1>5. CASE Start
  BY <1>5, <1>0, <1>a, CoherentCleared DEF Start, SaveOK, SaveFails
<1>6. CASE Health
  <2>1. Coherent(st')
    BY <1>6, <1>0 DEF Health, Coherent, ManagedUnits, State
  <2> QED
    BY <1>6, <1>0, <2>1, <1>b DEF Health, SaveOK, SaveFails
<1>7. CASE SkipTick \/ Noop \/ PendingUnitTick \/ GatedTick
  BY <1>7, <1>0, <1>a
  DEF SkipTick, Noop, PendingUnitTick, GatedTick, IdleUnsaved
<1>8. CASE Resolve
  BY <1>8, <1>0 DEF Resolve, StateInv, Coherent, ManagedUnits, TypeOK
<1>9. CASE ReconcileFails \/ RollbackDone
  BY <1>9, <1>0, <1>b DEF ReconcileFails, RollbackDone
<1>10. CASE NoChanges
  <2>1. Coherent(MarkApplied(st, target.sha))
    BY <1>10, <1>0, WantIsManaged, CoherentMarked DEF NoChanges, StateInv
  <2> QED
    BY <1>10, <1>0, <2>1, <1>a, <1>b DEF NoChanges, IdleUnsaved, SaveOK, SaveFails
<1>11. CASE RetryPendingHooks
  <2> PICK failed \in SUBSET (PendingHooks(st) \cap HooksOf[target.sha]) :
        LET retried == [st EXCEPT !.hooks =
              MergeHooks(st.hooks, PendingHooks(st), failed, target.sha)]
        IN (saved' = retried /\ Idle)
           \/ (st' = retried /\ saved' \in {saved, retried} /\ pc' = "failed")
    BY <1>11 DEF RetryPendingHooks, SaveOK, SaveFails
  <2> DEFINE hooks ==
        MergeHooks(st.hooks, PendingHooks(st), failed, target.sha)
  <2>1. \A h \in Hooks : hooks[h] < MaxRetries[h]
    BY <1>0, BudgetKept DEF Coherent, State
  <2> HIDE DEF hooks
  <2>2. Coherent([st EXCEPT !.hooks = hooks])
    BY <1>0, <2>1 DEF Coherent, ManagedUnits, State
  <2> QED
    BY <1>0, <2>2, <1>a, <1>b DEF hooks
<1>12. CASE BeginApply
  BY <1>12, <1>0 DEF BeginApply, StateInv, Coherent, ManagedUnits
<1>13. CASE ApplyChange
  BY <1>13, <1>c DEF ApplyChange
<1>14. CASE ApplyFails \/ ActivateFails
  BY <1>14, <1>0, <1>b DEF ApplyFails, ActivateFails, RollBack
<1>15. CASE RestoreFile
  BY <1>15, <1>c DEF RestoreFile
<1>16. CASE Activate
  <2> DEFINE known == Attempted \cap HooksOf[target.sha]
             units == {u \in Units : target.want[u] # Absent}
  <2> PICK failed, restarted, broken :
        /\ failed \in SUBSET {h \in known : HookUnit[h] \notin ChangedUnits}
        /\ st' = [MarkApplied(st, target.sha) EXCEPT
                    !.managed = target.want,
                    !.hooks = MergeHooks(st.hooks, Attempted, failed,
                                         target.sha),
                    !.units = MergeUnits(st.units, restarted, broken, units)]
    BY <1>16 DEF Activate
  <2>0. failed \in SUBSET HooksOf[target.sha]
    OBVIOUS
  <2> HIDE DEF known
  <2>1. /\ st'.managed = target.want /\ st'.applied = target.sha
        /\ st'.hooks = MergeHooks(st.hooks, Attempted, failed, target.sha)
        /\ st'.units = MergeUnits(st.units, restarted, broken, units)
    BY <1>0 DEF MarkApplied, State
  <2>2. \A h \in Hooks : st'.hooks[h] < MaxRetries[h]
    BY <1>0, <2>0, <2>1, BudgetKept DEF Coherent, State
  <2>3. Coherent(st')
    BY <1>16, <2>1, <2>2
    DEF Activate, StateInv, Coherent, ManagedUnits, MergeUnits
  <2> QED
    BY <1>16, <1>0, <2>3, <1>b DEF Activate
<1>17. CASE FinalizeApply
  BY <1>17, <1>0, <1>a, <1>b DEF FinalizeApply, SaveOK, SaveFails
<1>18. CASE SavePartialState
  BY <1>18, <1>0, <1>a DEF SavePartialState, SaveOK, SaveFails
<1>19. CASE RecordFailure
  BY <1>19, <1>0, <1>a, CoherentFailed DEF RecordFailure, SaveOK, SaveFails
<1> QED
  BY <1>1, <1>2, <1>3, <1>4, <1>5, <1>6, <1>7, <1>8, <1>9, <1>10, <1>11,
     <1>12, <1>13, <1>14, <1>15, <1>16, <1>17, <1>18, <1>19
  DEF Next, Agent

\* Whatever fails and whenever the Agent dies, the state file's Managed Files
\* are what its applied SHA resolves to, and no other unit is on record as
\* pending.
THEOREM StateCoherentAlways == Spec => []StateCoherent
<1>1. StateInv => StateCoherent
  BY DEF StateInv, Coherent, StateCoherent, AppliedIsManaged,
         PendingUnitsManaged
<1> QED
  BY <1>1, TypeCorrect, StateInit, StateStep, PTL DEF Spec

\* No hook is ever recorded at or past its retry budget.
THEOREM HookBudgetAlways == Spec => []HookBudget
<1>1. StateInv => HookBudget
  BY DEF StateInv, Coherent, HookBudget
<1> QED
  BY <1>1, TypeCorrect, StateInit, StateStep, PTL DEF Spec

\* The inductive invariant behind VerifiedHooksRan: an apply that is not
\* incomplete has run every pending hook, and a tick's memory and the state
\* file agree on the hooks until they run.
HooksInv ==
  /\ advanced => PendingHooks(st) = {}
  /\ pc = "save" /\ ~target.incomplete => PendingHooks(st) = {}
  /\ pc \in {"poll", "resolved"} => st.hooks = saved.hooks

LEMMA HooksStep == TypeOK /\ HooksInv /\ [Next]_vars => HooksInv'
<1> SUFFICES ASSUME TypeOK, HooksInv, [Next]_vars PROVE HooksInv'
  OBVIOUS
<1> USE DEF HooksInv
<1>0. saved \in State /\ st \in State /\ target \in Target
  BY DEF TypeOK
<1>a. ASSUME advanced' = FALSE, pc' \notin {"save", "poll", "resolved"}
      PROVE  HooksInv'
  BY <1>a
<1>b. ASSUME UNCHANGED <<st, saved, target, pc>>, advanced' = FALSE
      PROVE  HooksInv'
  BY <1>b DEF PendingHooks
<1>1. CASE UNCHANGED vars
  BY <1>1 DEF vars, PendingHooks
<1>2. CASE \/ Push \/ Rotate \/ RefreshTimer \/ ApplyChange \/ RestoreFile
  BY <1>2, <1>b DEF Push, Rotate, RefreshTimer, ApplyChange, RestoreFile
<1>3. CASE GateExpires
  BY <1>3, <1>0 DEF GateExpires, State, PendingHooks
<1>4. CASE \/ Crash \/ Start \/ SkipTick \/ PendingUnitTick \/ GatedTick
           \/ ReconcileFails \/ RetryPendingHooks \/ BeginApply \/ ApplyFails
           \/ ActivateFails \/ RollbackDone \/ SavePartialState
           \/ RecordFailure
  BY <1>4, <1>a
  DEF Crash, Start, SkipTick, PendingUnitTick, GatedTick, ReconcileFails,
      RetryPendingHooks, BeginApply, ApplyFails, ActivateFails, RollBack,
      RollbackDone, SavePartialState, RecordFailure, IdleUnsaved, Idle
<1>5. CASE Health
  BY <1>5, <1>0 DEF Health, SaveOK, SaveFails, State
<1>6. CASE Noop
  BY <1>6 DEF Noop, IdleUnsaved, Idle, PendingHooks
<1>7. CASE Resolve
  BY <1>7 DEF Resolve
<1>8. CASE NoChanges
  <2>1. MarkApplied(st, target.sha).hooks = st.hooks
    BY <1>0 DEF MarkApplied, State
  <2> QED
    BY <1>8, <2>1
    DEF NoChanges, IdleUnsaved, Idle, SaveOK, SaveFails, PendingHooks
<1>9. CASE Activate
  <2> DEFINE known == Attempted \cap HooksOf[target.sha]
             units == {u \in Units : target.want[u] # Absent}
  <2> PICK failed, restarted, broken :
        /\ failed \in SUBSET {h \in known : HookUnit[h] \notin ChangedUnits}
        /\ st' = [MarkApplied(st, target.sha) EXCEPT
                   !.managed = target.want,
                   !.hooks = MergeHooks(st.hooks, Attempted, failed,
                                        target.sha),
                   !.units = MergeUnits(st.units, restarted, broken, units)]
        /\ target' = [target EXCEPT
                        !.incomplete = Incomplete(failed, broken, units)]
    BY <1>9 DEF Activate
  <2>1. st'.hooks = MergeHooks(st.hooks, Attempted, failed, target.sha)
    BY <1>0 DEF MarkApplied, State
  <2>2. ~target'.incomplete => failed = {}
    BY <1>0 DEF Incomplete, Target
  <2>3. ASSUME failed = {}, NEW h \in Hooks PROVE st'.hooks[h] = 0
    <3>1. st.hooks[h] \in Nat /\ (h \notin Attempted => st.hooks[h] = 0)
      BY <1>0 DEF Attempted, PendingHooks, State
    <3> QED
      BY <2>1, <2>3, <3>1 DEF MergeHooks
  <2> QED
    BY <1>9, <2>2, <2>3 DEF Activate, PendingHooks
<1>10. CASE FinalizeApply
  BY <1>10 DEF FinalizeApply, Idle, SaveOK, SaveFails, PendingHooks
<1> QED
  BY <1>1, <1>2, <1>3, <1>4, <1>5, <1>6, <1>7, <1>8, <1>9, <1>10
  DEF Next, Agent

\* The last-successful timestamp advances only when no hook is pending.
THEOREM VerifiedHooksRanAlways == Spec => []VerifiedHooksRan
<1>1. Init => HooksInv
  BY DEF Init, HooksInv
<1>2. HooksInv => VerifiedHooksRan
  BY DEF HooksInv, VerifiedHooksRan
<1> QED
  BY <1>1, <1>2, TypeCorrect, HooksStep, PTL DEF Spec

\* Every hook an apply owes runs, within its budget, before a tick counts as
\* verified.
THEOREM HooksAccountedAlways == Spec => []HooksAccounted
<1>1. HookBudget /\ VerifiedHooksRan => HooksAccounted
  BY DEF HooksAccounted
<1> QED
  BY <1>1, HookBudgetAlways, VerifiedHooksRanAlways, PTL

----------------------------------------------------------------------------
(* The files on the Host, while the rollback and the save do their work. *)

\* The inductive invariant behind FilesMatchState: during an apply the paths
\* still to do are as recorded and the others as wanted, and the snapshot
\* holds what is recorded.
MatchInv ==
  /\ pc # "save" => st.managed = saved.managed
  /\ pc \in {"down", "idle", "poll", "resolved", "failed", "save"} =>
       \A p \in Files : disk[p] = st.managed[p]
  /\ pc = "apply" =>
       \A p \in Files :
         /\ disk[p] = IF p \in todo THEN st.managed[p] ELSE target.want[p]
         /\ p \in Changes => snap[p] = st.managed[p]
  /\ pc = "rollback" =>
       \A p \in Files : IF p \in todo THEN snap[p] = st.managed[p]
                        ELSE disk[p] = st.managed[p]

\* What can go wrong is a matter of the behaviour, not of a step.
LEMMA KindsStay == [Next]_vars => UNCHANGED kinds
BY DEF vars, world, Next, Agent, Push, Rotate, RefreshTimer, GateExpires, Crash,
       Start, Health, SkipTick, Noop, PendingUnitTick, GatedTick, Resolve,
       ReconcileFails, NoChanges, RetryPendingHooks, BeginApply, ApplyChange,
       ApplyFails, ActivateFails, RollBack, RestoreFile, RollbackDone, Activate,
       FinalizeApply, SavePartialState, RecordFailure

LEMMA MatchInit == Init => MatchInv
BY DEF Init, MatchInv

LEMMA MatchStep ==
  ASSUME kinds \cap {"rollback", "save", "crash"} = {},
         TypeOK, MatchInv, [Next]_vars
  PROVE  MatchInv'
<1>0. saved \in State /\ st \in State /\ disk \in Tree /\ snap \in Tree
      /\ target \in Target /\ todo \in SUBSET Paths
  BY DEF TypeOK
<1>a. ASSUME NEW k \in {"rollback", "save", "crash"} PROVE ~Fault(k)
  BY <1>a DEF Fault
<1>b. \A s : ~SaveFails(s)
  BY <1>a DEF SaveOK, SaveFails
<1>c. ASSUME Idle, pc \notin {"apply", "rollback"}, UNCHANGED disk,
             saved'.managed = st.managed
      PROVE  MatchInv'
  BY <1>c DEF Idle, MatchInv, TypeOK
<1>d. ASSUME UNCHANGED <<disk, pc, todo, target, snap>>,
             saved'.managed = saved.managed, st'.managed = st.managed
      PROVE  MatchInv'
  BY <1>d DEF MatchInv, Changes
<1>e. ASSUME UNCHANGED disk, pc' \in {"poll", "resolved", "failed"},
             pc \in {"idle", "poll", "resolved", "failed"},
             saved'.managed = saved.managed, st'.managed = st.managed
      PROVE  MatchInv'
  BY <1>e DEF MatchInv
<1>1. CASE UNCHANGED vars
  BY <1>1, <1>d DEF vars
<1>2. CASE Push \/ Rotate \/ RefreshTimer
  BY <1>2, <1>d DEF Push, Rotate, RefreshTimer
<1>3. CASE GateExpires
  <2>1. saved'.managed = saved.managed /\ st'.managed = st.managed
    BY <1>3, <1>0 DEF GateExpires, State
  <2> QED
    BY <1>3, <2>1, <1>d DEF GateExpires
<1>4. CASE Crash
  BY <1>4, <1>a DEF Crash
<1>5. CASE Start
  <2>1. saved'.managed = saved.managed /\ st' = saved'
    BY <1>5, <1>0, <1>b DEF SaveOK, Start, ClearFailureGate, State, Idle
  <2>2. \A p \in Files : disk'[p] = disk[p]
    BY <1>5, <1>0 DEF Start, MatchInv
  <2> QED
    BY <1>5, <2>1, <2>2 DEF Start, Idle, MatchInv
<1>6. CASE Health
  <2>1. saved'.managed = saved.managed /\ st'.managed = saved.managed
    BY <1>6, <1>0, <1>b DEF Health, SaveOK, State
  <2> QED
    BY <1>6, <2>1 DEF Health, MatchInv
<1>7. CASE SkipTick \/ Noop \/ PendingUnitTick \/ GatedTick
  BY <1>7, <1>c DEF SkipTick, Noop, PendingUnitTick, GatedTick, IdleUnsaved,
                    MatchInv
<1>8. CASE Resolve
  BY <1>8, <1>e DEF Resolve
<1>9. CASE ReconcileFails
  BY <1>9, <1>e DEF ReconcileFails
<1>10. CASE NoChanges
  <2>1. MarkApplied(st, target.sha).managed = st.managed
    BY <1>0 DEF MarkApplied, State
  <2> QED
    BY <1>10, <2>1, <1>b, <1>c DEF SaveOK, NoChanges, IdleUnsaved, MatchInv
<1>11. CASE RetryPendingHooks
  <2>1. saved'.managed = st.managed /\ Idle
    BY <1>11, <1>0, <1>b DEF SaveOK, RetryPendingHooks, State
  <2> QED
    BY <1>11, <2>1, <1>c DEF RetryPendingHooks
<1>12. CASE BeginApply
  <2>1. \A p \in Files : disk[p] = st.managed[p]
    BY <1>12 DEF BeginApply, MatchInv
  <2>2. ASSUME NEW p \in Files
        PROVE /\ disk[p] = IF p \in Changes THEN st.managed[p]
                           ELSE target.want[p]
              /\ p \in Changes => snap'[p] = st.managed[p]
    BY <1>12, <1>a, <2>1 DEF BeginApply, Changes
  <2> QED
    BY <1>12, <2>2 DEF BeginApply, MatchInv, Changes
<1>13. CASE ApplyChange
  <2> PICK p \in Paths : /\ disk' = [disk EXCEPT ![p] = target.want[p]]
                         /\ todo' = todo \ {p}
    BY <1>13 DEF ApplyChange
  <2>1. ASSUME NEW q \in Files
        PROVE disk'[q] = IF q \in todo' THEN st.managed[q] ELSE target.want[q]
    BY <1>0, <1>13 DEF ApplyChange, MatchInv
  <2> QED
    BY <1>13, <2>1 DEF ApplyChange, MatchInv, Changes
<1>14. CASE ApplyFails \/ ActivateFails
  <2>1. PICK p \in Paths : \/ UNCHANGED disk
                           \/ disk' = [disk EXCEPT ![p] = target.want[p]]
    BY <1>14 DEF ApplyFails, ActivateFails
  <2>2. ASSUME NEW q \in Files, q \notin Changes PROVE disk'[q] = st.managed[q]
    BY <2>1, <2>2, <1>0, <1>14
    DEF ApplyFails, ActivateFails, MatchInv, Changes
  <2>3. ASSUME NEW q \in Files, q \in Changes PROVE snap[q] = st.managed[q]
    BY <2>3, <1>14 DEF ApplyFails, ActivateFails, MatchInv
  <2>4. /\ UNCHANGED <<saved, st, snap>>
        /\ pc = "apply" /\ pc' = "rollback" /\ todo' = Changes \cap Files
    BY <1>14 DEF ApplyFails, ActivateFails, RollBack
  <2> QED
    BY <2>2, <2>3, <2>4 DEF MatchInv
<1>15. CASE RestoreFile
  <2> PICK p \in todo : /\ disk' = [disk EXCEPT ![p] = snap[p]]
                        /\ todo' = todo \ {p}
    BY <1>15, <1>a DEF RestoreFile
  <2>1. ASSUME NEW q \in Files
        PROVE IF q \in todo' THEN snap[q] = st.managed[q]
              ELSE disk'[q] = st.managed[q]
    BY <1>0, <1>15 DEF RestoreFile, MatchInv
  <2> QED
    BY <1>15, <2>1 DEF RestoreFile, MatchInv
<1>16. CASE RollbackDone
  BY <1>16 DEF RollbackDone, MatchInv
<1>17. CASE Activate
  <2>1. st'.managed = target.want
    BY <1>17, <1>0 DEF Activate, MarkApplied, State
  <2> QED
    BY <1>17, <2>1 DEF Activate, MatchInv
<1>18. CASE FinalizeApply \/ SavePartialState
  BY <1>18, <1>b, <1>c DEF SaveOK, FinalizeApply, SavePartialState
<1>19. CASE RecordFailure
  <2>1. saved'.managed = st.managed
    BY <1>19, <1>0, <1>b DEF SaveOK, RecordFailure, RecordedFailure, State
  <2> QED
    BY <1>19, <2>1, <1>c DEF RecordFailure
<1> QED
  BY <1>1, <1>2, <1>3, <1>4, <1>5, <1>6, <1>7, <1>8, <1>9, <1>10, <1>11,
     <1>12, <1>13, <1>14, <1>15, <1>16, <1>17, <1>18, <1>19
  DEF Next, Agent

\* Failed applies leave no trace: as long as no restore, save or crash gets
\* in the way, between ticks the files on the Host are the Managed Files,
\* however resolves, writes and activations fail.
THEOREM FilesMatchStateAlways == Spec => []FilesMatchState
<1> DEFINE Inv == kinds \cap {"rollback", "save", "crash"} = {} => MatchInv
<1>1. TypeOK /\ Inv => FilesMatchState
  BY DEF MatchInv, FilesMatchState
<1>2. TypeOK /\ Inv /\ [Next]_vars => Inv'
  BY MatchStep, KindsStay
<1>3. Init => Inv
  BY MatchInit
<1> QED
  BY <1>1, <1>2, <1>3, TypeCorrect, PTL DEF Spec

\* The same for NoOrphanFiles, where a crash may leave files half applied.
OrphanInv ==
  /\ pc # "save" => st.managed = saved.managed
  /\ pc \in {"idle", "poll", "resolved", "failed", "save"} =>
       \A p \in Files : disk[p] # Absent => st.managed[p] # Absent
  /\ pc = "apply" =>
       \A p \in Files :
         disk[p] # Absent =>
           (IF p \in todo THEN st.managed[p] ELSE target.want[p]) # Absent
  /\ pc = "rollback" =>
       \A p \in Files \ todo : disk[p] # Absent => st.managed[p] # Absent
  /\ pc \in {"apply", "rollback"} =>
       \A p \in Files : snap[p] # Absent => st.managed[p] # Absent

LEMMA OrphanInit == Init => OrphanInv
BY DEF Init, OrphanInv, Empty

LEMMA OrphanStep ==
  ASSUME kinds \cap {"rollback", "save", "scan"} = {},
         TypeOK, OrphanInv, [Next]_vars
  PROVE  OrphanInv'
<1>0. saved \in State /\ st \in State /\ disk \in Tree /\ snap \in Tree
      /\ target \in Target /\ todo \in SUBSET Paths
  BY DEF TypeOK
<1>a. ASSUME NEW k \in {"rollback", "save", "scan"} PROVE ~Fault(k)
  BY <1>a DEF Fault
<1>b. \A s : ~SaveFails(s)
  BY <1>a DEF SaveOK, SaveFails
<1>c. ASSUME Idle, pc \in {"idle", "poll", "resolved", "failed", "save"},
             UNCHANGED disk, saved'.managed = st.managed
      PROVE  OrphanInv'
  BY <1>c DEF Idle, OrphanInv
<1>d. ASSUME UNCHANGED <<disk, pc, todo, target, snap>>,
             saved'.managed = saved.managed, st'.managed = st.managed
      PROVE  OrphanInv'
  BY <1>d DEF OrphanInv
<1>e. ASSUME UNCHANGED disk, pc' \in {"poll", "resolved", "failed"},
             pc \in {"idle", "poll", "resolved", "failed"},
             saved'.managed = saved.managed, st'.managed = st.managed
      PROVE  OrphanInv'
  BY <1>e DEF OrphanInv
<1>1. CASE UNCHANGED vars
  BY <1>1, <1>d DEF vars
<1>2. CASE Push \/ Rotate \/ RefreshTimer
  BY <1>2, <1>d DEF Push, Rotate, RefreshTimer
<1>3. CASE GateExpires
  <2>1. saved'.managed = saved.managed /\ st'.managed = st.managed
    BY <1>3, <1>0 DEF GateExpires, State
  <2> QED
    BY <1>3, <2>1, <1>d DEF GateExpires
<1>4. CASE Crash
  BY <1>4 DEF Crash, OrphanInv
<1>5. CASE Start
  <2>1. saved'.managed = saved.managed /\ st' = saved'
    BY <1>5, <1>0, <1>b DEF SaveOK, Start, ClearFailureGate, State, Idle
  <2>2. \A p \in Files : disk'[p] # Absent => saved.managed[p] # Absent
    BY <1>5, <1>0, <1>a DEF Start
  <2> QED
    BY <1>5, <2>1, <2>2 DEF Start, Idle, OrphanInv
<1>6. CASE Health
  <2>1. saved'.managed = saved.managed /\ st'.managed = saved.managed
    BY <1>6, <1>0, <1>b DEF Health, SaveOK, State
  <2> QED
    BY <1>6, <2>1 DEF Health, OrphanInv
<1>7. CASE SkipTick \/ Noop \/ PendingUnitTick \/ GatedTick
  BY <1>7, <1>c DEF SkipTick, Noop, PendingUnitTick, GatedTick, IdleUnsaved,
                    OrphanInv
<1>8. CASE Resolve
  BY <1>8, <1>e DEF Resolve
<1>9. CASE ReconcileFails
  BY <1>9, <1>e DEF ReconcileFails
<1>10. CASE NoChanges
  <2>1. MarkApplied(st, target.sha).managed = st.managed
    BY <1>0 DEF MarkApplied, State
  <2> QED
    BY <1>10, <2>1, <1>b, <1>c DEF SaveOK, NoChanges, IdleUnsaved, OrphanInv
<1>11. CASE RetryPendingHooks
  <2>1. saved'.managed = st.managed /\ Idle
    BY <1>11, <1>0, <1>b DEF SaveOK, RetryPendingHooks, State
  <2> QED
    BY <1>11, <2>1, <1>c DEF RetryPendingHooks
<1>12. CASE BeginApply
  <2>1. \A p \in Files : disk[p] # Absent => st.managed[p] # Absent
    BY <1>12 DEF BeginApply, OrphanInv
  <2>2. \A p \in Files \ Changes : target.want[p] = st.managed[p]
    BY DEF Changes
  <2>3. \A p \in Files : snap'[p] # Absent => st.managed[p] # Absent
    BY <1>12 DEF BeginApply
  <2> QED
    BY <1>12, <2>1, <2>2, <2>3 DEF BeginApply, OrphanInv
<1>13. CASE ApplyChange
  <2> PICK p \in Paths : /\ disk' = [disk EXCEPT ![p] = target.want[p]]
                         /\ todo' = todo \ {p}
    BY <1>13 DEF ApplyChange
  <2>1. ASSUME NEW q \in Files, disk'[q] # Absent
        PROVE (IF q \in todo' THEN st.managed[q] ELSE target.want[q]) # Absent
    BY <2>1, <1>0, <1>13 DEF ApplyChange, OrphanInv
  <2> QED
    BY <1>13, <2>1 DEF ApplyChange, OrphanInv
<1>14. CASE ApplyFails \/ ActivateFails
  <2>1. PICK p \in Paths : \/ UNCHANGED disk
                           \/ disk' = [disk EXCEPT ![p] = target.want[p]]
    BY <1>14 DEF ApplyFails, ActivateFails
  <2>2. ASSUME NEW q \in Files, q \notin Changes, disk'[q] # Absent
        PROVE  st.managed[q] # Absent
    BY <2>1, <2>2, <1>0, <1>14
    DEF ApplyFails, ActivateFails, OrphanInv, Changes
  <2>3. /\ UNCHANGED <<saved, st, snap>>
        /\ pc = "apply" /\ pc' = "rollback" /\ todo' = Changes \cap Files
    BY <1>14 DEF ApplyFails, ActivateFails, RollBack
  <2> QED
    BY <2>2, <2>3 DEF OrphanInv
<1>15. CASE RestoreFile
  <2> PICK p \in todo : /\ disk' = [disk EXCEPT ![p] = snap[p]]
                        /\ todo' = todo \ {p}
    BY <1>15, <1>a DEF RestoreFile
  <2>1. \A q \in Files \ todo' : disk'[q] # Absent => st.managed[q] # Absent
    BY <1>0, <1>15 DEF RestoreFile, OrphanInv
  <2> QED
    BY <1>15, <2>1 DEF RestoreFile, OrphanInv
<1>16. CASE RollbackDone
  BY <1>16 DEF RollbackDone, OrphanInv
<1>17. CASE Activate
  <2>1. st'.managed = target.want
    BY <1>17, <1>0 DEF Activate, MarkApplied, State
  <2> QED
    BY <1>17, <2>1 DEF Activate, OrphanInv
<1>18. CASE FinalizeApply \/ SavePartialState
  BY <1>18, <1>b, <1>c DEF SaveOK, FinalizeApply, SavePartialState
<1>19. CASE RecordFailure
  <2>1. saved'.managed = st.managed
    BY <1>19, <1>0, <1>b DEF SaveOK, RecordFailure, RecordedFailure, State
  <2> QED
    BY <1>19, <2>1, <1>c DEF RecordFailure
<1> QED
  BY <1>1, <1>2, <1>3, <1>4, <1>5, <1>6, <1>7, <1>8, <1>9, <1>10, <1>11,
     <1>12, <1>13, <1>14, <1>15, <1>16, <1>17, <1>18, <1>19
  DEF Next, Agent

\* No crash, wherever it cuts an apply or a rollback short, leaves a file on
\* the Host that no state record names once the Agent runs again.
THEOREM NoOrphanFilesAlways == Spec => []NoOrphanFiles
<1> DEFINE Inv == kinds \cap {"rollback", "save", "scan"} = {} => OrphanInv
<1>1. TypeOK /\ Inv => NoOrphanFiles
  BY DEF OrphanInv, NoOrphanFiles
<1>2. TypeOK /\ Inv /\ [Next]_vars => Inv'
  BY OrphanStep, KindsStay
<1>3. Init => Inv
  BY OrphanInit
<1> QED
  BY <1>1, <1>2, <1>3, TypeCorrect, PTL DEF Spec

----------------------------------------------------------------------------
(* What a verified tick has deployed, secrets included. *)

\* No apply that changes a Podman secret fails. A rollback restores files
\* only, and a secret it leaves behind is not in the state file.
SecretAppliesSucceed ==
  pc = "apply" /\ pc' = "rollback" => Changes \cap Secrets = {}

\* What MatchInv says of files, of secrets: a rollback does not touch them.
\* A deployment is on record once a tick has been verified.
SecretsInv ==
  /\ pc # "save" => st.managed = saved.managed /\ st.applied = saved.applied
  /\ pc \in {"down", "idle", "poll", "resolved", "failed", "save"} =>
       \A p \in Secrets : disk[p] = st.managed[p]
  /\ pc = "apply" =>
       \A p \in Secrets :
         disk[p] = IF p \in todo THEN st.managed[p] ELSE target.want[p]
  /\ pc = "rollback" =>
       todo \subseteq Files /\ \A p \in Secrets : disk[p] = st.managed[p]
  /\ advanced /\ pc = "idle" => saved.applied # NoSha
  /\ pc = "save" => st.applied # NoSha

LEMMA SecretsInit == Init => SecretsInv
BY DEF Init, SecretsInv

LEMMA SecretsStep ==
  ASSUME kinds \cap {"rollback", "save", "crash"} = {},
         TypeOK, StateInv, SecretsInv, [Next]_vars,
         [SecretAppliesSucceed]_vars
  PROVE  SecretsInv'
<1>0. saved \in State /\ st \in State /\ disk \in Tree /\ snap \in Tree
      /\ target \in Target /\ todo \in SUBSET Paths
  BY DEF TypeOK
<1>z. Files \cap Secrets = {} /\ NoSha \notin Shas
  BY PathsAssumption, FleetAssumption
<1>a. ASSUME NEW k \in {"rollback", "save", "crash"} PROVE ~Fault(k)
  BY <1>a DEF Fault
<1>b. \A s : ~SaveFails(s)
  BY <1>a DEF SaveFails
<1>c. ASSUME Idle, pc \notin {"apply", "rollback"}, UNCHANGED disk,
             saved'.managed = st.managed,
             advanced' => saved'.applied # NoSha
      PROVE  SecretsInv'
  BY <1>c DEF Idle, SecretsInv, TypeOK
<1>d. ASSUME UNCHANGED <<disk, pc, todo, target>>, ~advanced',
             saved'.managed = saved.managed, st'.managed = st.managed,
             saved'.applied = saved.applied, st'.applied = st.applied
      PROVE  SecretsInv'
  BY <1>d DEF SecretsInv
<1>e. ASSUME UNCHANGED disk, pc' \in {"poll", "resolved", "failed"},
             pc \in {"idle", "poll", "resolved", "failed"},
             saved'.managed = saved.managed, st'.managed = st.managed,
             saved'.applied = saved.applied, st'.applied = st.applied
      PROVE  SecretsInv'
  BY <1>e DEF SecretsInv
<1>1. CASE UNCHANGED vars
  BY <1>1 DEF vars, SecretsInv
<1>2. CASE Push \/ Rotate \/ RefreshTimer
  BY <1>2, <1>d DEF Push, Rotate, RefreshTimer
<1>3. CASE GateExpires
  <2>1. /\ saved'.managed = saved.managed /\ st'.managed = st.managed
        /\ saved'.applied = saved.applied /\ st'.applied = st.applied
    BY <1>3, <1>0 DEF GateExpires, State
  <2> QED
    BY <1>3, <2>1, <1>d DEF GateExpires
<1>4. CASE Crash
  BY <1>4, <1>a DEF Crash
<1>5. CASE Start
  <2>1. saved'.managed = saved.managed /\ st' = saved'
    BY <1>5, <1>0, <1>b DEF SaveOK, Start, ClearFailureGate, State, Idle
  <2>2. \A p \in Secrets : disk'[p] = disk[p]
    BY <1>5, <1>0 DEF Start, SecretsInv
  <2> QED
    BY <1>5, <2>1, <2>2 DEF Start, Idle, SecretsInv
<1>6. CASE Health
  <2>1. /\ saved'.managed = saved.managed /\ st'.managed = saved.managed
        /\ saved'.applied = saved.applied /\ st'.applied = saved.applied
    BY <1>6, <1>0, <1>b DEF Health, SaveOK, State
  <2> QED
    BY <1>6, <2>1 DEF Health, SecretsInv
<1>7. CASE SkipTick \/ PendingUnitTick \/ GatedTick
  BY <1>7, <1>c DEF SkipTick, PendingUnitTick, GatedTick, IdleUnsaved,
                    SecretsInv
<1>70. CASE Noop
  <2>1. saved' = saved /\ st' = saved
    BY <1>70 DEF Noop, IdleUnsaved, Idle
  <2>2. saved.applied \in Shas
    BY <1>70 DEF Noop, Changed, TypeOK, SecretsInv
  <2> QED
    BY <1>70, <2>1, <2>2, <1>z, <1>c
    DEF Noop, IdleUnsaved, SecretsInv
<1>8. CASE Resolve
  BY <1>8, <1>e DEF Resolve
<1>9. CASE ReconcileFails
  BY <1>9, <1>e DEF ReconcileFails
<1>10. CASE NoChanges
  <2>1. /\ MarkApplied(st, target.sha).managed = st.managed
        /\ MarkApplied(st, target.sha).applied = target.sha
    BY <1>0 DEF MarkApplied, State
  <2>2. target.sha \in Shas
    BY <1>10 DEF NoChanges, StateInv
  <2> QED
    BY <1>10, <2>1, <2>2, <1>b, <1>c, <1>z
    DEF SaveOK, NoChanges, IdleUnsaved, SecretsInv
<1>11. CASE RetryPendingHooks
  <2>1. saved'.managed = st.managed /\ Idle
    BY <1>11, <1>0, <1>b DEF SaveOK, RetryPendingHooks, State
  <2> QED
    BY <1>11, <2>1, <1>c DEF RetryPendingHooks
<1>12. CASE BeginApply
  BY <1>12 DEF BeginApply, SecretsInv, Changes
<1>13. CASE ApplyChange
  <2> PICK p \in Paths : /\ disk' = [disk EXCEPT ![p] = target.want[p]]
                         /\ todo' = todo \ {p}
    BY <1>13 DEF ApplyChange
  <2>1. ASSUME NEW q \in Secrets
        PROVE disk'[q] = IF q \in todo' THEN st.managed[q] ELSE target.want[q]
    BY <1>0, <1>13 DEF ApplyChange, SecretsInv
  <2> QED
    BY <1>13, <2>1 DEF ApplyChange, SecretsInv
<1>14. CASE ApplyFails \/ ActivateFails
  <2>1. PICK p \in Paths : \/ UNCHANGED disk
                           \/ disk' = [disk EXCEPT ![p] = target.want[p]]
    BY <1>14 DEF ApplyFails, ActivateFails
  <2>2. /\ UNCHANGED <<saved, st>>
        /\ pc = "apply" /\ pc' = "rollback" /\ todo' = Changes \cap Files
    BY <1>14 DEF ApplyFails, ActivateFails, RollBack
  <2>3. Changes \cap Secrets = {}
    BY <2>2 DEF SecretAppliesSucceed, vars
  <2>4. ASSUME NEW q \in Secrets PROVE disk'[q] = st.managed[q]
    BY <2>1, <2>2, <2>3, <1>0 DEF SecretsInv, Changes
  <2> QED
    BY <2>2, <2>4 DEF SecretsInv
<1>15. CASE RestoreFile
  <2> PICK p \in todo : /\ disk' = [disk EXCEPT ![p] = snap[p]]
                        /\ todo' = todo \ {p}
    BY <1>15, <1>a DEF RestoreFile
  <2>1. \A q \in Secrets : disk'[q] = disk[q]
    BY <1>0, <1>15, <1>z DEF RestoreFile, SecretsInv
  <2> QED
    BY <1>15, <2>1 DEF RestoreFile, SecretsInv
<1>16. CASE RollbackDone
  BY <1>16 DEF RollbackDone, SecretsInv
<1>17. CASE Activate
  <2>1. st'.managed = target.want /\ st'.applied = target.sha
    BY <1>17, <1>0 DEF Activate, MarkApplied, State
  <2>2. target.sha \in Shas
    BY <1>17 DEF Activate, StateInv
  <2> QED
    BY <1>17, <2>1, <2>2, <1>z DEF Activate, SecretsInv
<1>18. CASE FinalizeApply
  BY <1>18, <1>b, <1>c DEF SaveOK, FinalizeApply, SecretsInv
<1>180. CASE SavePartialState
  BY <1>180, <1>b, <1>c DEF SaveOK, SavePartialState
<1>19. CASE RecordFailure
  <2>1. saved'.managed = st.managed
    BY <1>19, <1>0, <1>b DEF SaveOK, RecordFailure, RecordedFailure, State
  <2> QED
    BY <1>19, <2>1, <1>c DEF RecordFailure
<1> QED
  BY <1>1, <1>2, <1>3, <1>4, <1>5, <1>6, <1>7, <1>70, <1>8, <1>9, <1>10,
     <1>11, <1>12, <1>13, <1>14, <1>15, <1>16, <1>17, <1>18, <1>180, <1>19
  DEF Next, Agent

\* A verified tick leaves the Host exactly as the applied SHA resolves: as
\* long as no restore, save or crash gets in the way, and no apply that
\* changes a Podman secret fails. What else fails, and when commits, rotations
\* and refreshes come, does not matter.
THEOREM VerifiedIsAlwaysDeployed ==
  Spec /\ [][SecretAppliesSucceed]_vars
    => [](kinds \cap {"rollback", "save", "crash"} = {} => VerifiedIsDeployed)
<1> DEFINE Quiet == kinds \cap {"rollback", "save", "crash"} = {}
           Inv   == Quiet => MatchInv /\ SecretsInv
<1>1. Init => Inv
  BY MatchInit, SecretsInit
<1>2. TypeOK /\ StateInv /\ Inv /\ [Next]_vars /\ [SecretAppliesSucceed]_vars
        => Inv'
  BY MatchStep, SecretsStep, KindsStay
<1>3. TypeOK /\ StateInv /\ Inv => (Quiet => VerifiedIsDeployed)
  <2> SUFFICES ASSUME TypeOK, StateInv, Inv, Quiet, advanced, pc = "idle"
               PROVE  \E v \in Vaults : disk = Fleet[saved.applied][v]
    BY DEF VerifiedIsDeployed
  <2>1. \A p \in Paths : disk[p] = saved.managed[p]
    BY DEF MatchInv, SecretsInv
  <2>2. disk = saved.managed
    BY <2>1 DEF TypeOK, State
  <2>3. saved.applied # NoSha
    BY DEF SecretsInv
  <2> QED
    BY <2>2, <2>3 DEF StateInv, Coherent
<1> HIDE DEF Inv, Quiet
<1>4. Spec /\ [][SecretAppliesSucceed]_vars => [](Quiet => VerifiedIsDeployed)
  BY <1>1, <1>2, <1>3, TypeCorrect, StateInit, StateStep, PTL DEF Spec
<1> QED
  BY <1>4 DEF Quiet

----------------------------------------------------------------------------
(* What is reported of a deployment. *)

\* The state file can be written.
SavesSucceed == \A set \in FaultSets : "save" \notin set

\* Of the last reported commit, the state file says that it is applied; or the
\* commit changed no file, and only pending hooks were run for it.
ReportBook ==
  /\ pc # "save" => /\ st.applied = saved.applied
                    /\ st.managed = saved.managed
                    /\ st.hooks = saved.hooks
  /\ pc = "save" => st.applied = target.sha /\ target.sha \in Shas
  /\ saved.applied = NoSha => PendingHooks(saved) = {}
  /\ pc \in {"resolved", "apply", "rollback", "save"} =>
       target.changed = (target.sha # saved.applied)
  /\ reported # NoSha => saved.applied = reported \/ ~ChangesFiles(reported)

LEMMA ReportInit == Init => ReportBook
BY DEF Init, ReportBook, PendingHooks

LEMMA ReportStep ==
  ASSUME SavesSucceed, TypeOK, StateInv, ReportBook, [Next]_vars
  PROVE  ReportBook'
<1>0. saved \in State /\ st \in State /\ target \in Target /\ kinds \in FaultSets
  BY DEF TypeOK
<1>b. \A s : ~SaveFails(s)
  BY <1>0 DEF SaveFails, Fault, SavesSucceed
<1>c. ASSUME Idle, saved'.applied = saved.applied, saved'.hooks = saved.hooks,
             saved'.managed = saved.managed,
             reported' \in {NoSha, reported}
      PROVE  ReportBook'
  BY <1>c DEF Idle, ReportBook, PendingHooks
<1>d. ASSUME UNCHANGED <<pc, target, reported>>,
             saved'.applied = saved.applied, st'.applied = st.applied,
             saved'.managed = saved.managed, st'.managed = st.managed,
             saved'.hooks = saved.hooks, st'.hooks = st.hooks
      PROVE  ReportBook'
  BY <1>d DEF ReportBook, PendingHooks
<1>e. ASSUME UNCHANGED <<target, reported, saved, st>>, pc # "save",
             \/ pc' = "failed"
             \/ pc' \in {"apply", "rollback"} /\ pc \in {"resolved", "apply"}
      PROVE  ReportBook'
  BY <1>e DEF ReportBook, PendingHooks
<1>f. ASSUME Idle, TickDone, saved'.applied = target.sha, saved'.applied # NoSha,
             target.changed = (target.sha # saved.applied)
      PROVE  ReportBook'
  BY <1>f DEF Idle, TickDone, ReportBook, PendingHooks
<1>z. NoSha \notin Shas
  BY FleetAssumption
<1>1. CASE UNCHANGED vars
  BY <1>1, <1>d DEF vars
<1>2. CASE Push \/ Rotate \/ RefreshTimer \/ ApplyChange \/ RestoreFile
  BY <1>2, <1>d DEF Push, Rotate, RefreshTimer, ApplyChange, RestoreFile
<1>3. CASE GateExpires
  BY <1>3, <1>0, <1>d DEF GateExpires, State
<1>4. CASE Crash
  BY <1>4 DEF Crash, ReportBook
<1>5. CASE Start
  <2>1. /\ saved'.applied = saved.applied /\ saved'.hooks = saved.hooks
        /\ saved'.managed = saved.managed
    BY <1>5, <1>0, <1>b DEF SaveOK, Start, ClearFailureGate, State
  <2> QED
    BY <1>5, <2>1, <1>c DEF Start
<1>6. CASE Health
  <2>1. /\ saved'.applied = saved.applied /\ saved'.hooks = saved.hooks
        /\ st'.applied = saved.applied /\ st'.hooks = saved.hooks
        /\ saved'.managed = saved.managed /\ st'.managed = saved.managed
    BY <1>6, <1>0, <1>b DEF Health, SaveOK, State
  <2> QED
    BY <1>6, <2>1 DEF Health, ReportBook, PendingHooks
<1>7. CASE SkipTick \/ Noop \/ PendingUnitTick \/ GatedTick
  BY <1>7, <1>c DEF SkipTick, Noop, PendingUnitTick, GatedTick, IdleUnsaved
<1>8. CASE Resolve
  BY <1>8 DEF Resolve, Changed, ReportBook, PendingHooks
<1>9. CASE ReconcileFails \/ BeginApply \/ RollbackDone
  BY <1>9, <1>e DEF ReconcileFails, BeginApply, RollbackDone
<1>10. CASE ApplyFails \/ ActivateFails
  BY <1>10, <1>e DEF ApplyFails, ActivateFails, RollBack
<1>11. CASE NoChanges
  <2>1. MarkApplied(st, target.sha).applied = target.sha
    BY <1>0 DEF MarkApplied, State
  <2>2. target.sha \in Shas /\ target.changed = (target.sha # saved.applied)
    BY <1>11 DEF NoChanges, StateInv, ReportBook
  <2>3. saved'.applied = target.sha /\ TickDone /\ Idle
    BY <1>11, <2>1, <1>b DEF NoChanges, SaveOK, IdleUnsaved, ReportBook
  <2> QED
    BY <2>2, <2>3, <1>f, <1>z
<1>12. CASE RetryPendingHooks
  <2>1. /\ saved'.applied = saved.applied /\ TickDone /\ Idle
        /\ Changes = {} /\ PendingHooks(st) # {}
        /\ pc = "resolved" /\ st.managed = saved.managed
        /\ saved'.managed = saved.managed
    BY <1>12, <1>0, <1>b DEF RetryPendingHooks, SaveOK, State, ReportBook
  <2>2. saved.applied # NoSha /\ target.changed = (target.sha # saved.applied)
    BY <2>1 DEF ReportBook, PendingHooks
  <2>3. PICK v, w \in Vaults : Fleet[saved.applied][v] = Fleet[target.sha][w]
    BY <2>1, <2>2, WantIsManaged DEF StateInv, Coherent
  <2>4. target.sha # saved.applied => ~ChangesFiles(target.sha)
    BY <2>2, <2>3, <1>0 DEF ChangesFiles, State
  <2> QED
    BY <2>1, <2>2, <2>4 DEF Idle, TickDone, ReportBook, PendingHooks, ChangesFiles
<1>13. CASE Activate
  <2>1. /\ st'.applied = target.sha /\ target'.sha = target.sha
        /\ target'.changed = target.changed /\ target.sha \in Shas
    BY <1>13, <1>0 DEF Activate, MarkApplied, State, Target, StateInv
  <2> QED
    BY <1>13, <2>1 DEF Activate, ReportBook, PendingHooks, ChangesFiles
<1>14. CASE FinalizeApply \/ SavePartialState
  <2>1. saved' = st /\ TickDone /\ Idle /\ pc = "save"
    BY <1>14, <1>b DEF SaveOK, FinalizeApply, SavePartialState
  <2> QED
    BY <2>1, <1>f, <1>z DEF ReportBook
<1>15. CASE RecordFailure
  <2>1. /\ saved'.applied = saved.applied /\ saved'.hooks = saved.hooks
        /\ saved'.managed = saved.managed
    BY <1>15, <1>0, <1>b
    DEF SaveOK, RecordFailure, RecordedFailure, State, ReportBook
  <2> QED
    BY <1>15, <2>1, <1>c DEF RecordFailure
<1> QED
  BY <1>1, <1>2, <1>3, <1>4, <1>5, <1>6, <1>7, <1>8, <1>9, <1>10, <1>11,
     <1>12, <1>13, <1>14, <1>15
  DEF Next, Agent

\* As long as the state file can be written, no second deployment is created
\* for a commit that was reported a success, unless the commit deploys just
\* the files of another: whatever else fails, and wherever the Agent dies.
THEOREM ReportedOnceAlways == ASSUME SavesSucceed PROVE Spec => ReportedOnce
<1>1. TypeOK /\ StateInv /\ ReportBook /\ [Next]_vars => ReportBook'
  BY SavesSucceed, ReportStep
<1>2. TypeOK /\ ReportBook /\ [Next]_vars
        => [pc = "poll" /\ pc' = "resolved" /\ target'.changed
              /\ ChangesFiles(head) => reported # target'.sha]_vars
  <2> SUFFICES ASSUME TypeOK, ReportBook, [Next]_vars,
                      pc = "poll", pc' = "resolved", target'.changed,
                      ChangesFiles(head)
               PROVE  reported # target'.sha
    OBVIOUS
  <2>1. Resolve
    BY DEF vars, Next, Agent, Push, Rotate, RefreshTimer, GateExpires, Crash,
       Start, Health, SkipTick, Noop, PendingUnitTick, GatedTick, Resolve,
       ReconcileFails, NoChanges, RetryPendingHooks, BeginApply, ApplyChange,
       ApplyFails, ActivateFails, RollBack, RestoreFile, RollbackDone,
       Activate, FinalizeApply, SavePartialState, RecordFailure, Idle,
       IdleUnsaved
  <2>2. /\ target'.sha = head /\ head # st.applied
        /\ st.applied = saved.applied
    BY <2>1 DEF Resolve, Changed, ReportBook
  <2>3. head # NoSha
    BY FleetAssumption DEF TypeOK
  <2> QED
    BY <2>2, <2>3 DEF ReportBook
<1> QED
  BY <1>1, <1>2, TypeCorrect, StateInit, StateStep, ReportInit, PTL
  DEF Spec, ReportedOnce
=============================================================================
