-------------------------- MODULE DeploymentProofs --------------------------
(* Reconcile implements Deployment, and what Deployment promises about a   *)
(* verified tick.                                                          *)
EXTENDS ReconcileProofs

\* What can fail in a behaviour that keeps the promise.
Restores == kinds \cap {"rollback", "save", "crash"} = {}

\* The inductive invariant of the refinement, beside MatchInv and StateInv:
\* from the resolve on the reconciliation works on the record as it was saved,
\* and what it saves in the end is what it resolved.
AimInv ==
  /\ pc # "save" => st.applied = saved.applied
  /\ pc = "save" => st.applied = target.sha /\ st.managed = target.want
  /\ pc \in {"resolved", "apply", "save"} => target.sha \in Shas

LEMMA AimInit == Init => AimInv
BY DEF Init, AimInv

LEMMA AimStep ==
  ASSUME Restores, TypeOK, AimInv, [Next]_vars
  PROVE  AimInv'
<1>0. saved \in State /\ st \in State /\ target \in Target /\ head \in Shas
  BY DEF TypeOK
<1>a. ASSUME NEW k \in {"rollback", "save", "crash"} PROVE ~Fault(k)
  BY <1>a DEF Fault, Restores
<1>b. \A s : ~SaveFails(s)
  BY <1>a DEF SaveFails
<1>c. ASSUME Idle PROVE AimInv'
  BY <1>c DEF Idle, AimInv
<1>d. ASSUME UNCHANGED <<pc, target>>, saved'.applied = saved.applied,
             st'.applied = st.applied, st'.managed = st.managed
      PROVE  AimInv'
  BY <1>d DEF AimInv
<1>1. CASE UNCHANGED vars
  BY <1>1, <1>d DEF vars
<1>2. CASE Push \/ Rotate \/ RefreshTimer
  BY <1>2, <1>d DEF Push, Rotate, RefreshTimer, world
<1>3. CASE GateExpires
  <2>1. /\ saved'.applied = saved.applied
        /\ st'.applied = st.applied /\ st'.managed = st.managed
    BY <1>3, <1>0 DEF GateExpires, State
  <2> QED
    BY <1>3, <2>1, <1>d DEF GateExpires
<1>4. CASE Crash
  BY <1>4, <1>a DEF Crash
<1>5. CASE Start \/ SkipTick \/ Noop \/ PendingUnitTick \/ GatedTick
           \/ RetryPendingHooks \/ FinalizeApply \/ SavePartialState
           \/ RecordFailure
  BY <1>5, <1>b, <1>c
  DEF Start, SkipTick, Noop, PendingUnitTick, GatedTick, RetryPendingHooks,
      FinalizeApply, SavePartialState, RecordFailure, IdleUnsaved
<1>6. CASE Health
  <2>1. saved'.applied = saved.applied /\ st'.applied = saved.applied
    BY <1>6, <1>0, <1>b DEF Health, SaveOK, State
  <2> QED
    BY <1>6, <2>1 DEF Health, AimInv
<1>7. CASE NoChanges
  BY <1>7, <1>b, <1>c DEF NoChanges, IdleUnsaved
<1>8. CASE Resolve
  BY <1>8, <1>0 DEF Resolve, AimInv
<1>9. CASE ReconcileFails \/ BeginApply \/ ApplyFails \/ ActivateFails
           \/ RollbackDone
  BY <1>9 DEF ReconcileFails, BeginApply, ApplyFails, ActivateFails, RollBack,
              RollbackDone, AimInv
<1>10. CASE ApplyChange \/ RestoreFile
  BY <1>10, <1>d DEF ApplyChange, RestoreFile
<1>11. CASE Activate
  <2>1. /\ st'.applied = target.sha /\ st'.managed = target.want
        /\ target'.sha = target.sha /\ target'.want = target.want
    BY <1>11, <1>0 DEF Activate, MarkApplied, State, Target
  <2> QED
    BY <1>11, <2>1 DEF Activate, AimInv
<1> QED
  BY <1>1, <1>2, <1>3, <1>4, <1>5, <1>6, <1>7, <1>8, <1>9, <1>10, <1>11
  DEF Next, Agent

----------------------------------------------------------------------------
(* The refinement. *)

\* Both sides agree on what the Host holds: the Managed Files on record.
Recorded == [p \in Files |-> saved.managed[p]]

LEMMA SettledIsRecorded ==
  ASSUME TypeOK, MatchInv PROVE Settled = Recorded
<1>1. pc \in {"apply", "rollback", "save"} \/
      \A p \in Files : disk[p] = saved.managed[p]
  BY DEF MatchInv, TypeOK, PCs
<1> QED
  BY <1>1 DEF Settled, Recorded

LEMMA PromiseInit == Init => Promise!Init
<1> SUFFICES ASSUME Init PROVE Promise!Init
  OBVIOUS
<1>1. PICK seed \in Seeds : disk = seed
  BY DEF Init
<1>2. Settled = Promise!FilesOf(seed)
  BY <1>1 DEF Settled, Promise!FilesOf, Init
<1>3. Aim = Promise!NoAim
  BY DEF Aim, Promise!NoAim, Init
<1> QED
  BY <1>2, <1>3 DEF Init, Promise!Init

LEMMA PromiseStep ==
  ASSUME Restores, TypeOK, StateInv, MatchInv, AimInv, [Next]_vars,
         TypeOK', MatchInv'
  PROVE  [Promise!Next]_Promise!vars
<1>0. /\ saved \in State /\ st \in State /\ target \in Target /\ head \in Shas
      /\ saved' \in State /\ NoSha \notin Shas
  BY FleetAssumption DEF TypeOK
<1>a. ASSUME NEW k \in {"rollback", "save", "crash"} PROVE ~Fault(k)
  BY <1>a DEF Fault, Restores
<1>b. \A s : ~SaveFails(s)
  BY <1>a DEF SaveFails
<1>r. \/ pc' \in {"apply", "rollback", "save"}
      \/ \A p \in Files : disk'[p] = saved'.managed[p]
  BY DEF MatchInv, TypeOK, PCs
<1>s. Settled = Recorded /\ Settled' = Recorded'
  BY <1>r, SettledIsRecorded DEF Settled, Recorded
<1>n. pc \notin {"resolved", "apply", "save"} => Aim = Promise!NoAim
  BY DEF Aim, Promise!NoAim
<1>m. pc' \notin {"resolved", "apply", "save"} => Aim' = Promise!NoAim
  BY DEF Aim, Promise!NoAim
<1>t. ASSUME UNCHANGED <<target>>, pc \in {"resolved", "apply", "save"},
             pc' \in {"resolved", "apply", "save"}
      PROVE  Aim' = Aim
  BY <1>t DEF Aim
<1>u. ASSUME UNCHANGED <<target, pc>> PROVE Aim' = Aim
  BY <1>u DEF Aim
<1>d. pc \in {"resolved", "apply", "save"} =>
        /\ Aim.sha = target.sha /\ Aim # Promise!NoAim
        /\ Aim.files = [p \in Files |-> target.want[p]]
  BY <1>0 DEF Aim, Promise!NoAim, AimInv
<1>o. ASSUME UNCHANGED <<head, vault, Aim>>, advanced' = FALSE,
             saved'.applied = saved.applied, saved'.managed = saved.managed
      PROVE  Promise!Next
  BY <1>o, <1>s DEF Recorded, Promise!Next, Promise!Other
<1>g. ASSUME UNCHANGED <<head, vault>>, advanced' = FALSE,
             pc \in {"resolved", "apply"},
             pc' \notin {"resolved", "apply", "save"},
             saved'.applied = saved.applied, saved'.managed = saved.managed
      PROVE  Promise!Next
  BY <1>g, <1>s, <1>m, <1>d DEF Recorded, Promise!Next, Promise!GiveUp
<1>p. ASSUME UNCHANGED <<head, vault>>, advanced' \in BOOLEAN,
             pc \in {"resolved", "save"}, pc' = "idle",
             saved'.applied = target.sha, saved'.managed = target.want
      PROVE  Promise!Next
  BY <1>p, <1>s, <1>m, <1>d DEF Recorded, Promise!Next, Promise!Deploy
<1>1. CASE UNCHANGED vars
  <2>1. UNCHANGED <<Aim, Settled>>
    BY <1>1 DEF vars, Aim, Settled
  <2> QED
    BY <1>1, <2>1 DEF vars, Promise!vars
<1>2. CASE Push
  <2>1. UNCHANGED <<Aim, Settled>>
    BY <1>2 DEF Push, Aim, Settled
  <2> QED
    BY <1>2, <2>1 DEF Push, Promise!Next, Promise!Push
<1>3. CASE Rotate
  <2>1. UNCHANGED <<Aim, Settled>>
    BY <1>3 DEF Rotate, Aim, Settled
  <2> QED
    BY <1>3, <2>1 DEF Rotate, Promise!Next, Promise!Rotate
<1>4. CASE RefreshTimer \/ ApplyChange \/ RestoreFile
  BY <1>4, <1>u, <1>o DEF RefreshTimer, ApplyChange, RestoreFile, world
<1>5. CASE GateExpires
  <2>1. saved'.managed = saved.managed /\ saved'.applied = saved.applied
    BY <1>5, <1>0 DEF GateExpires, State
  <2> QED
    BY <1>5, <2>1, <1>u, <1>o DEF GateExpires, world
<1>6. CASE Crash
  BY <1>6, <1>a DEF Crash
<1>7. CASE Start
  <2>1. saved'.managed = saved.managed /\ saved'.applied = saved.applied
    BY <1>7, <1>0, <1>b DEF SaveOK, Start, ClearFailureGate, State
  <2> QED
    BY <1>7, <2>1, <1>n, <1>m, <1>o DEF Start, Idle, world
<1>8. CASE Health
  <2>1. saved'.managed = saved.managed /\ saved'.applied = saved.applied
    BY <1>8, <1>0, <1>b DEF Health, SaveOK, State
  <2> QED
    BY <1>8, <2>1, <1>n, <1>m, <1>o DEF Health, world
<1>9. CASE SkipTick \/ PendingUnitTick \/ GatedTick
  BY <1>9, <1>n, <1>m, <1>o
  DEF SkipTick, PendingUnitTick, GatedTick, IdleUnsaved, Idle, world
<1>10. CASE Noop
  <2>1. saved.applied = head
    BY <1>10 DEF Noop, Changed, AimInv
  <2>2. PICK v \in Vaults : saved.managed = Fleet[head][v]
    BY <2>1, <1>0 DEF StateInv, Coherent
  <2>3. Settled = Promise!Deployed(head, v)
    BY <2>2, <1>s DEF Recorded, Promise!Deployed, Promise!FilesOf
  <2>4. UNCHANGED <<saved, head, vault, Settled>> /\ advanced' = TRUE
    BY <1>10, <1>s DEF Noop, IdleUnsaved, world, Recorded
  <2>5. Aim = Promise!NoAim /\ Aim' = Promise!NoAim
    BY <1>10, <1>n, <1>m DEF Noop, IdleUnsaved, Idle
  <2> QED
    BY <2>1, <2>3, <2>4, <2>5 DEF Promise!Next, Promise!Verify
<1>11. CASE Resolve
  <2>1. Aim' = [sha |-> head, files |-> Promise!Deployed(head, vault)]
    BY <1>11 DEF Resolve, Aim, Promise!Deployed, Promise!FilesOf
  <2>2. UNCHANGED <<saved, head, vault, Settled>> /\ advanced' = FALSE
    BY <1>11, <1>s DEF Resolve, world, Recorded
  <2> QED
    BY <1>11, <2>1, <2>2, <1>n DEF Resolve, Promise!Next, Promise!Begin
<1>12. CASE ReconcileFails \/ ApplyFails \/ ActivateFails
  BY <1>12, <1>g
  DEF ReconcileFails, ApplyFails, ActivateFails, RollBack, world
<1>13. CASE NoChanges
  <2>1. target.want = st.managed
    BY <1>13, WantIsManaged DEF NoChanges
  <2>2. MarkApplied(st, target.sha).applied = target.sha
        /\ MarkApplied(st, target.sha).managed = st.managed
    BY <1>0 DEF MarkApplied, State
  <2>3. st.applied = saved.applied /\ st.managed = saved.managed
    BY <1>13 DEF NoChanges, AimInv, MatchInv
  <2>4. saved'.applied = target.sha /\ saved'.managed = target.want
    BY <1>13, <2>1, <2>2, <2>3, <1>b DEF NoChanges, SaveOK, IdleUnsaved
  <2> QED
    BY <1>13, <2>4, <1>b, <1>p DEF NoChanges, IdleUnsaved, Idle, world
<1>14. CASE RetryPendingHooks
  <2>1. saved'.applied = st.applied /\ saved'.managed = st.managed
        /\ pc' = "idle"
    BY <1>14, <1>0, <1>b DEF RetryPendingHooks, SaveOK, State, Idle
  <2>2. st.applied = saved.applied /\ st.managed = saved.managed
    BY <1>14 DEF RetryPendingHooks, AimInv, MatchInv
  <2> QED
    BY <1>14, <2>1, <2>2, <1>g DEF RetryPendingHooks, world
<1>15. CASE BeginApply
  BY <1>15, <1>t, <1>o DEF BeginApply, world
<1>16. CASE RollbackDone
  BY <1>16, <1>n, <1>m, <1>o DEF RollbackDone, world
<1>17. CASE Activate
  <2>1. target'.sha = target.sha /\ target'.want = target.want
    BY <1>17, <1>0 DEF Activate, Target
  <2>2. Aim' = Aim
    BY <1>17, <2>1 DEF Activate, Aim
  <2> QED
    BY <1>17, <2>2, <1>o DEF Activate, world
<1>18. CASE FinalizeApply \/ SavePartialState
  <2>1. st.applied = target.sha /\ st.managed = target.want
    BY <1>18 DEF FinalizeApply, SavePartialState, AimInv
  <2> QED
    BY <1>18, <2>1, <1>b, <1>p
    DEF FinalizeApply, SavePartialState, SaveOK, Idle, world
<1>19. CASE RecordFailure
  <2>1. saved'.applied = st.applied /\ saved'.managed = st.managed
    BY <1>19, <1>0, <1>b DEF RecordFailure, RecordedFailure, SaveOK, State
  <2>2. st.applied = saved.applied /\ st.managed = saved.managed
    BY <1>19 DEF RecordFailure, AimInv, MatchInv
  <2> QED
    BY <1>19, <2>1, <2>2, <1>n, <1>m, <1>o DEF RecordFailure, Idle, world
<1> QED
  BY <1>1, <1>2, <1>3, <1>4, <1>5, <1>6, <1>7, <1>8, <1>9, <1>10, <1>11,
     <1>12, <1>13, <1>14, <1>15, <1>16, <1>17, <1>18, <1>19
  DEF Next, Agent

\* Where restores and saves succeed and the Agent does not crash, Reconcile
\* implements Deployment for any Fleet, any hooks and any number of failed
\* polls, resolves, writes and activations: the files of a commit are deployed
\* all at once, with their record, or not at all.
THEOREM Refines == Spec /\ Restores => DeploysAtomically
<1> DEFINE Inv == TypeOK /\ StateInv /\ MatchInv /\ AimInv /\ Restores
<1>1. Init /\ Restores => Inv
  BY TypeInit, StateInit, MatchInit, AimInit
<1>2. Inv /\ [Next]_vars => Inv'
  BY TypeStep, StateStep, MatchStep, AimStep, KindsStay DEF Restores
<1>3. Inv /\ Inv' /\ [Next]_vars => [Promise!Next]_Promise!vars
  BY PromiseStep
<1> QED
  BY <1>1, <1>2, <1>3, PromiseInit, PTL DEF Spec, DeploysAtomically, Promise!Spec

----------------------------------------------------------------------------
(* What a verified tick tells, shown of the promise and so of Reconcile. *)

\* An attempt aims at what some answers of the providers made of its commit.
AimResolves ==
  Aim # Promise!NoAim => \E v \in Vaults : Aim.files = Promise!Deployed(Aim.sha, v)

LEMMA VerifiedInit ==
  Promise!Init => Promise!VerifiedIsDeployed /\ AimResolves
BY DEF Promise!Init, Promise!VerifiedIsDeployed, AimResolves

LEMMA VerifiedStep ==
  ASSUME AimResolves, Promise!VerifiedIsDeployed, vault \in Vaults,
         [Promise!Next]_Promise!vars
  PROVE  Promise!VerifiedIsDeployed' /\ AimResolves'
<1>1. CASE UNCHANGED Promise!vars
  BY <1>1
  DEF Promise!vars, AimResolves, Promise!VerifiedIsDeployed, Promise!Deployed,
      Promise!FilesOf, Promise!NoAim
<1>2. CASE Promise!Push \/ Promise!Rotate \/ Promise!GiveUp \/ Promise!Other
  BY <1>2
  DEF Promise!Push, Promise!Rotate, Promise!GiveUp, Promise!Other, AimResolves,
      Promise!VerifiedIsDeployed, Promise!Deployed, Promise!FilesOf,
      Promise!NoAim
<1>3. CASE Promise!Begin
  BY <1>3
  DEF Promise!Begin, AimResolves, Promise!VerifiedIsDeployed,
      Promise!Deployed, Promise!FilesOf, Promise!NoAim
<1>4. CASE Promise!Deploy
  BY <1>4
  DEF Promise!Deploy, AimResolves, Promise!VerifiedIsDeployed,
      Promise!Deployed, Promise!FilesOf, Promise!NoAim
<1>5. CASE Promise!Verify
  BY <1>5
  DEF Promise!Verify, AimResolves, Promise!VerifiedIsDeployed,
      Promise!Deployed, Promise!FilesOf, Promise!NoAim
<1> QED
  BY <1>1, <1>2, <1>3, <1>4, <1>5 DEF Promise!Next

\* After a tick that advances the last-successful timestamp the files on the
\* Host are those of the applied commit (the Podman secrets, which a rollback
\* leaves alone, are checked on small instances only: VerifiedIsDeployed).
THEOREM VerifiedFilesDeployed ==
  Spec /\ Restores => []Promise!VerifiedIsDeployed
<1>1. TypeOK => vault \in Vaults
  BY DEF TypeOK
<1>2. AimResolves /\ Promise!VerifiedIsDeployed /\ vault \in Vaults
        /\ [Promise!Next]_Promise!vars
      => Promise!VerifiedIsDeployed' /\ AimResolves'
  BY VerifiedStep
<1> QED
  BY <1>1, <1>2, TypeCorrect, Refines, VerifiedInit, PTL
  DEF DeploysAtomically, Promise!Spec
=============================================================================
