----------------------------- MODULE Reconcile -----------------------------
(***************************************************************************)
(* The Agent's reconciliation of one Host: the tick, the diff of the       *)
(* desired files against the state file, the apply of the changes one by   *)
(* one, the rollback of a failed apply, and what is saved afterwards; with *)
(* commits, secret rotations, crashes and restarts happening at any point. *)
(*                                                                         *)
(* A destination path is a unit file (Units), a manifest or config file    *)
(* (Data), or a Podman secret (Secrets).  A file's content and its hash    *)
(* are the same value here: only equality of hashes is ever used.          *)
(***************************************************************************)
EXTENDS Naturals

CONSTANTS
  Shas, NoSha,        \* commits of the Fleet; NoSha is the empty SHA
  Units, Data,        \* paths of unit files, and of manifests and files
  Quadlets,           \* Units an apply restarts when they change
  Secrets,            \* "secret:<name>" paths: Podman secrets
  Contents, Absent,   \* file contents; Absent is "no such file"
  Vaults,             \* versions of what the secret providers answer
  HasProvider,        \* is a secret provider (op://, pass://) configured?
  Fleet,              \* Fleet[sha][vault]: the files the Host resolves to
  Follows,            \* Follows[sha]: the commits pushed after sha
  Seeds,              \* what bootstrap may have deployed and recorded
  Rank,               \* the order in which an apply walks its changes
  Hooks, HooksOf,     \* hook names; HooksOf[sha]: those configured there
  Triggers,           \* Triggers[h]: paths whose change runs hook h
  HookUnit,           \* HookUnit[h]: the unit hook h reloads or restarts
  MaxRetries,         \* MaxRetries[h]: retry budget of hook h
  MaxFailures,        \* failures of one SHA that arm the gate
  FaultSets,          \* the kinds of fault that can happen: one set of
                      \* them for each behaviour
  MaxFaults,          \* bound on the faults of a behaviour
  MaxPushes           \* bound on the commits and rotations of a behaviour

Files == Units \cup Data
Paths == Files \cup Secrets
Tree  == [Paths -> Contents \cup {Absent}]
Empty == [p \in Paths |-> Absent]

FaultKinds == {"poll", "resolve", "apply", "activate", "rollback", "save",
               "crash", "scan"}

ASSUME PathsAssumption ==
  /\ Units \cap Data = {} /\ Files \cap Secrets = {}
  /\ Quadlets \subseteq Units
  /\ Rank \in [Paths -> Nat]

ASSUME FleetAssumption ==
  /\ NoSha \notin Shas /\ Absent \notin Contents
  /\ Fleet \in [Shas -> [Vaults -> Tree]]
  /\ Follows \in [Shas -> SUBSET Shas]
  /\ Seeds \subseteq Tree
  /\ HasProvider \in BOOLEAN

ASSUME HooksAssumption ==
  /\ HooksOf \in [Shas -> SUBSET Hooks]
  /\ Triggers \in [Hooks -> SUBSET (Data \cup Secrets)]
  /\ HookUnit \in [Hooks -> Units]
  /\ MaxRetries \in [Hooks -> Nat \ {0}]

ASSUME BoundsAssumption ==
  /\ MaxFailures \in Nat \ {0} /\ MaxFaults \in Nat /\ MaxPushes \in Nat
  /\ FaultSets \subseteq SUBSET FaultKinds

VARIABLES
  head,        \* tip of the tracked branch
  vault,       \* what the secret providers answer now
  disk,        \* files and Podman secrets on the Host
  saved,       \* the state file
  st,          \* the running tick's state (state.State); saved between ticks
  pc,          \* where the Agent's reconcile goroutine is
  target,      \* the reconciliation in progress
  todo,        \* paths still to be applied, or still to be restored
  snap,        \* the rollback snapshot
  refreshDue,  \* opRefreshDue() or ppRefreshDue()
  advanced,    \* did the last step advance the last-successful timestamp?
  reported,    \* SHA of the last deployment, if it was reported a success
  kinds,       \* the kinds of fault of this behaviour
  faults, pushes

world == <<head, vault, kinds, pushes>>
vars  == <<head, vault, disk, saved, st, pc, target, todo, snap, refreshDue,
           advanced, reported, kinds, faults, pushes>>

State == [applied     : Shas \cup {NoSha},
          managed     : Tree,               \* ManagedFiles
          failedSHA   : Shas \cup {NoSha},
          failedCount : 0..MaxFailures + 1,
          hot         : BOOLEAN,            \* FailedAt is less than 1h ago
          hooks       : [Hooks -> Nat],     \* PendingHooks; 0: not pending
          units       : SUBSET Units]       \* keys of PendingUnits

Target == [sha : Shas \cup {NoSha}, want : Tree,
           changed    : BOOLEAN,   \* the tick saw a new SHA
           incomplete : BOOLEAN]   \* ErrApplyIncomplete

NoTarget == [sha |-> NoSha, want |-> Empty, changed |-> FALSE,
             incomplete |-> FALSE]

PCs == {"down", "idle", "poll", "resolved", "apply", "rollback", "save",
        "failed"}

TypeOK ==
  /\ head \in Shas /\ vault \in Vaults
  /\ disk \in Tree
  /\ saved \in State /\ st \in State
  /\ pc \in PCs
  /\ target \in Target
  /\ todo \in SUBSET Paths
  /\ snap \in Tree
  /\ refreshDue \in BOOLEAN /\ advanced \in BOOLEAN
  /\ reported \in Shas \cup {NoSha}
  /\ kinds \in FaultSets
  /\ faults \in 0..MaxFaults /\ pushes \in 0..MaxPushes

Init ==
  /\ head \in Shas /\ vault \in Vaults
  /\ \E seed \in Seeds :
       /\ disk = seed
       /\ saved = [applied |-> NoSha, managed |-> seed, failedSHA |-> NoSha,
                   failedCount |-> 0, hot |-> FALSE,
                   hooks |-> [h \in Hooks |-> 0], units |-> {}]
  /\ st = saved /\ pc = "down" /\ target = NoTarget
  /\ todo = {} /\ snap = Empty
  /\ refreshDue = FALSE /\ advanced = FALSE /\ reported = NoSha
  /\ kinds \in FaultSets /\ faults = 0 /\ pushes = 0

----------------------------------------------------------------------------
(* Shared pieces of the steps. *)

\* A fault of kind k happens in this step.
Fault(k) == k \in kinds /\ faults < MaxFaults /\ faults' = faults + 1

NoFault == UNCHANGED faults

\* The Agent is between ticks; the state in memory is dropped.
Idle == /\ pc' = "idle" /\ st' = saved'
        /\ target' = NoTarget /\ todo' = {} /\ snap' = Empty

IdleUnsaved == UNCHANGED saved /\ Idle

ManagedUnits(s) == {u \in Units : s.managed[u] # Absent}
PendingHooks(s) == {h \in Hooks : s.hooks[h] > 0}

\* Mutant: secrets are not compared.
ChangesOfFiles == {p \in Files : target.want[p] # st.managed[p]}

\* The paths reconciler.Diff classifies as create, update or delete.
Changes == {p \in Paths : target.want[p] # st.managed[p]}

\* store.Save(s): a save that fails may have renamed the file in place.
SaveOK(s)    == saved' = s /\ NoFault
SaveFails(s) == Fault("save") /\ saved' \in {saved, s}

MarkApplied(s, sha) ==
  [s EXCEPT !.applied = sha, !.failedSHA = NoSha, !.failedCount = 0,
            !.hot = FALSE]

ClearFailureGate(s) ==
  [s EXCEPT !.failedSHA = NoSha, !.failedCount = 0, !.hot = FALSE]

\* Mutant: a failed SHA is taken as applied.
FailureMarksApplied(s, sha) ==
  [s EXCEPT !.applied = sha, !.failedSHA = sha, !.failedCount = 1]

\* tick's record of a failure of sha; counted no further than past the gate.
RecordedFailure(s, sha) ==
  [s EXCEPT !.failedSHA = sha, !.hot = TRUE,
            !.failedCount = IF s.failedSHA # sha THEN 1
                            ELSE IF @ > MaxFailures THEN @ ELSE @ + 1]

\* Mutants: the budget is not enforced, hooks that left the Fleet stay.
MergeHooksNoBudget(old, attempted, failed, sha) ==
  [h \in Hooks |-> IF h \in failed THEN old[h] + 1
                   ELSE IF h \in attempted THEN 0 ELSE old[h]]

MergeHooksKeepStale(old, attempted, failed, sha) ==
  [h \in Hooks |-> IF h \notin HooksOf[sha] THEN old[h]
                   ELSE IF h \in failed /\ old[h] + 1 < MaxRetries[h]
                   THEN old[h] + 1 ELSE 0]

\* mergePendingHooks, then enforceRetryBudget with the hooks of sha.
MergeHooks(old, attempted, failed, sha) ==
  [h \in Hooks |->
     LET count == IF h \in failed THEN old[h] + 1
                  ELSE IF h \in attempted THEN 0 ELSE old[h]
     IN  IF h \in HooksOf[sha] /\ count >= MaxRetries[h] THEN 0 ELSE count]

\* Mutant: prunePendingUnits is forgotten.
MergeUnitsNoPrune(old, restarted, failed, managed) ==
  (old \ restarted) \cup failed

\* mergePendingUnits, then prunePendingUnits.
MergeUnits(old, restarted, failed, managed) ==
  ((old \ restarted) \cup failed) \cap managed

\* Mutant: only units count.
IncompleteUnits(failedHooks, brokenUnits, managed) ==
  brokenUnits \cap managed # {}

\* applyIncompleteError: what a later tick retries is still pending.
Incomplete(failedHooks, brokenUnits, managed) ==
  failedHooks # {} \/ brokenUnits \cap managed # {}

----------------------------------------------------------------------------
(* The world around the Agent. *)

\* A commit reaches the branch: forward, or back to an earlier content.
Push ==
  /\ pushes < MaxPushes
  /\ head' \in Follows[head] \ {head}
  /\ pushes' = pushes + 1 /\ advanced' = FALSE
  /\ UNCHANGED <<vault, disk, saved, st, pc, target, todo, snap, refreshDue,
                 reported, kinds, faults>>

\* A secret is rotated in its provider.
Rotate ==
  /\ HasProvider /\ pushes < MaxPushes
  /\ vault' \in Vaults \ {vault}
  /\ pushes' = pushes + 1 /\ advanced' = FALSE
  /\ UNCHANGED <<head, disk, saved, st, pc, target, todo, snap, refreshDue,
                 reported, kinds, faults>>

\* The refresh interval of a provider elapses.
RefreshTimer ==
  /\ HasProvider /\ pc # "down" /\ ~refreshDue
  /\ refreshDue' = TRUE /\ advanced' = FALSE
  /\ UNCHANGED <<world, disk, saved, st, pc, target, todo, snap, reported,
                 faults>>

\* failedSHAExpiry passes after FailedAt.
GateExpires ==
  /\ saved.hot
  /\ saved' = [saved EXCEPT !.hot = FALSE]
  /\ st' = [st EXCEPT !.hot = FALSE]
  /\ advanced' = FALSE
  /\ UNCHANGED <<world, disk, pc, target, todo, snap, refreshDue, reported,
                 faults>>

\* The process dies: a crash, a reboot, a restart of the Agent's own unit.
Crash ==
  /\ pc # "down" /\ Fault("crash")
  /\ pc' = "down" /\ st' = saved
  /\ target' = NoTarget /\ todo' = {} /\ snap' = Empty
  /\ refreshDue' = FALSE /\ advanced' = FALSE
  /\ UNCHANGED <<world, disk, saved, reported>>

----------------------------------------------------------------------------
(* The Agent. *)

\* Startup: scanOrphans removes what no state record names (a removal that
\* fails is only logged), then clearFailureGateOnStartup.
Start ==
  /\ pc = "down"
  /\ \E removed \in SUBSET {p \in Paths : /\ disk[p] # Absent
                                          /\ saved.managed[p] = Absent} :
       /\ disk' = [p \in Paths |-> IF p \in removed THEN Absent ELSE disk[p]]
       /\ \/ /\ \A p \in Paths \ removed : \/ disk[p] = Absent
                                           \/ saved.managed[p] # Absent
             /\ \/ SaveOK(ClearFailureGate(saved))
                \/ SaveFails(ClearFailureGate(saved))
          \/ Fault("scan") /\ saved' = ClearFailureGate(saved)
  /\ refreshDue' = HasProvider
  /\ advanced' = FALSE
  /\ Idle
  /\ UNCHANGED <<world, reported>>

\* A tick loads the state and enforces health, which may clear a pending
\* unit, add one, or drop one no longer managed; a change is saved at once.
Health ==
  /\ pc = "idle"
  /\ \E units \in SUBSET ManagedUnits(saved) :
       /\ st' = [saved EXCEPT !.units = units]
       /\ IF units = saved.units THEN UNCHANGED <<saved, faults>>
                                 ELSE SaveOK(st') \/ SaveFails(st')
  /\ pc' = "poll" /\ advanced' = FALSE
  /\ UNCHANGED <<world, disk, target, todo, snap, refreshDue, reported>>

\* The tick ends here: reconciliation is paused, or the git poll failed.
SkipTick ==
  /\ pc = "poll" /\ Fault("poll")
  /\ advanced' = FALSE
  /\ IdleUnsaved
  /\ UNCHANGED <<world, disk, refreshDue, reported>>

Changed == head # st.applied

\* Nothing to do, and nothing pending: a verified-OK tick.
Noop ==
  /\ pc = "poll"
  /\ ~Changed /\ ~refreshDue /\ PendingHooks(st) = {} /\ st.units = {}
  /\ advanced' = TRUE
  /\ IdleUnsaved
  /\ UNCHANGED <<world, disk, refreshDue, reported, faults>>

\* Nothing to do, but units still fail to restart.
PendingUnitTick ==
  /\ pc = "poll"
  /\ ~Changed /\ ~refreshDue /\ PendingHooks(st) = {} /\ st.units # {}
  /\ advanced' = FALSE
  /\ IdleUnsaved
  /\ UNCHANGED <<world, disk, refreshDue, reported, faults>>

Due == Changed \/ refreshDue \/ PendingHooks(st) # {}

\* Mutant: the gate never expires.
GatedForever == head = st.failedSHA /\ st.failedCount >= MaxFailures

\* The failed-SHA gate is armed for the head.
Gated == head = st.failedSHA /\ st.failedCount >= MaxFailures /\ st.hot

\* The failed-SHA gate: skipped after repeated failures of this SHA.
GatedTick ==
  /\ pc = "poll" /\ Due /\ Gated
  /\ refreshDue' = FALSE /\ advanced' = FALSE
  /\ IdleUnsaved
  /\ UNCHANGED <<world, disk, reported, faults>>

\* ReconcileOnce starts (a deployment is created for a new SHA): the Fleet
\* at head is resolved with what the secret providers answer now.
Resolve ==
  /\ pc = "poll" /\ Due /\ ~Gated
  /\ target' = [sha |-> head, want |-> Fleet[head][vault],
                changed |-> Changed, incomplete |-> FALSE]
  /\ pc' = "resolved" /\ advanced' = FALSE
  /\ UNCHANGED <<world, disk, saved, st, todo, snap, refreshDue, reported,
                 faults>>

\* Resolve, validation or the Agent-config check fails: nothing was touched.
ReconcileFails ==
  /\ pc = "resolved" /\ Fault("resolve")
  /\ pc' = "failed" /\ advanced' = FALSE
  /\ UNCHANGED <<world, disk, saved, st, target, todo, snap, refreshDue,
                 reported>>

\* What tick does when ReconcileOnce returned without a failure.
TickDone ==
  /\ refreshDue' = FALSE   \* markRefreshAttempted
  /\ reported' = IF target.changed THEN target.sha ELSE reported

\* No file changes and no pending hook: a new SHA is recorded as applied,
\* and files that only read, or no longer read, a SOPS value are saved too.
NoChanges ==
  /\ pc = "resolved" /\ Changes = {} /\ PendingHooks(st) = {}
  /\ advanced' = TRUE
  /\ \/ target.sha = st.applied /\ NoFault /\ TickDone /\ IdleUnsaved
     \/ LET record == IF target.sha = st.applied THEN st
                      ELSE MarkApplied(st, target.sha)
        IN \/ SaveOK(record) /\ TickDone /\ Idle
           \/ /\ st' = record /\ SaveFails(record)
              /\ pc' = "failed"
              /\ UNCHANGED <<target, todo, snap, refreshDue, reported>>
  /\ UNCHANGED <<world, disk>>

\* No file changes, but pending hooks: they run again.  The SHA is not
\* recorded, whether or not it is new.
RetryPendingHooks ==
  /\ pc = "resolved" /\ Changes = {} /\ PendingHooks(st) # {}
  /\ \E failed \in SUBSET (PendingHooks(st) \cap HooksOf[target.sha]) :
       LET retried == [st EXCEPT !.hooks =
             MergeHooks(st.hooks, PendingHooks(st), failed, target.sha)]
       IN \/ SaveOK(retried) /\ TickDone /\ Idle
          \/ /\ st' = retried /\ SaveFails(retried)
             /\ pc' = "failed"
             /\ UNCHANGED <<target, todo, snap, refreshDue, reported>>
  /\ advanced' = FALSE
  /\ UNCHANGED <<world, disk>>

\* File changes: rollback.CreateSnapshot, then the apply begins.  A path to
\* be created is taken to be absent, and so is a file that cannot be read.
BeginApply ==
  /\ pc = "resolved" /\ Changes # {}
  /\ todo' = Changes
  /\ \E unread \in SUBSET (Changes \cap Files) :
       /\ IF unread = {} THEN NoFault ELSE Fault("rollback")
       /\ snap' = [p \in Paths |-> IF /\ p \in (Changes \cap Files) \ unread
                                      /\ st.managed[p] # Absent
                                   THEN disk[p] ELSE Absent]
  /\ pc' = "apply" /\ advanced' = FALSE
  /\ UNCHANGED <<world, disk, saved, st, target, refreshDue, reported>>

NextPath(p) == p \in todo /\ \A q \in todo : Rank[p] <= Rank[q]

\* Podman refuses to create a secret that exists; only an update replaces it.
SecretExists(p) ==
  p \in Secrets /\ st.managed[p] = Absent /\ disk[p] # Absent

\* applyChange writes, replaces or removes one file or secret.
ApplyChange ==
  /\ pc = "apply"
  /\ \E p \in Paths :
       /\ NextPath(p) /\ ~SecretExists(p)
       /\ disk' = [disk EXCEPT ![p] = target.want[p]]
       /\ todo' = todo \ {p}
  /\ advanced' = FALSE
  /\ UNCHANGED <<world, saved, st, pc, target, snap, refreshDue, reported,
                 faults>>

\* Mutant: only the changes already applied are rolled back.
RollBackApplied ==
  /\ pc' = "rollback" /\ todo' = (Changes \cap Files) \ todo
  /\ advanced' = FALSE
  /\ UNCHANGED <<world, saved, st, target, snap, refreshDue, reported>>

\* The apply fails: the paths of the snapshot have to be restored.
RollBack ==
  /\ pc' = "rollback" /\ todo' = Changes \cap Files
  /\ advanced' = FALSE
  /\ UNCHANGED <<world, saved, st, target, snap, refreshDue, reported>>

\* A change fails: refused by Podman, or an error whose operation may have
\* taken effect all the same.
ApplyFails ==
  /\ pc = "apply"
  /\ \E p \in Paths :
       /\ NextPath(p)
       /\ \/ SecretExists(p) /\ UNCHANGED <<disk, faults>>
          \/ /\ ~SecretExists(p) /\ Fault("apply")
             /\ disk' \in {disk, [disk EXCEPT ![p] = target.want[p]]}
  /\ RollBack

\* After the writes, the daemon-reload or an image build fails.
ActivateFails ==
  /\ pc = "apply" /\ todo = {} /\ Changes \cap Files # {}
  /\ Fault("activate")
  /\ UNCHANGED disk
  /\ RollBack

\* rollback.Restore handles one path; an error does not stop the others.
RestoreFile ==
  /\ pc = "rollback"
  /\ \E p \in todo :
       /\ \/ disk' = [disk EXCEPT ![p] = snap[p]] /\ NoFault
          \/ /\ Fault("rollback")
             /\ disk' \in {disk, [disk EXCEPT ![p] = snap[p]]}
       /\ todo' = todo \ {p}
  /\ advanced' = FALSE
  /\ UNCHANGED <<world, saved, st, pc, target, snap, refreshDue, reported>>

RollbackDone ==
  /\ pc = "rollback" /\ todo = {}
  /\ pc' = "failed" /\ advanced' = FALSE
  /\ UNCHANGED <<world, disk, saved, st, target, todo, snap, refreshDue,
                 reported, faults>>

\* The hooks an apply runs: triggered by a written path, or pending.
Attempted ==
  PendingHooks(st) \cup
  {h \in HooksOf[target.sha] :
     \E p \in Triggers[h] \cap Changes : target.want[p] # Absent}

ChangedUnits == {u \in Quadlets \cap Changes : target.want[u] # Absent}

\* Running consumers of the builds a changed build or input file triggers.
Consumers ==
  IF Changes \cap (Data \cup (Units \ Quadlets)) = {} THEN {}
  ELSE {u \in Quadlets : target.want[u] # Absent}

\* Hooks run and units restart, and recordApply updates the state in memory.
\* A hook whose unit restarts anyway is skipped; a unit may also be neither
\* restarted nor failed (a one-shot left to its timer, a pod's member).
Activate ==
  /\ pc = "apply" /\ todo = {}
  /\ LET known == Attempted \cap HooksOf[target.sha]
         units == {u \in Units : target.want[u] # Absent}
     IN \E failed \in SUBSET {h \in known : HookUnit[h] \notin ChangedUnits} :
        \E scheduled \in SUBSET (known \ failed) :
        LET restarts == ChangedUnits \cup Consumers
                        \cup {HookUnit[h] : h \in scheduled}
        IN \E restarted \in SUBSET restarts :
           \E broken \in SUBSET (restarts \ restarted) :
             /\ st' = [MarkApplied(st, target.sha) EXCEPT
                         !.managed = target.want,
                         !.hooks = MergeHooks(st.hooks, Attempted, failed,
                                              target.sha),
                         !.units = MergeUnits(st.units, restarted, broken,
                                              units)]
             /\ target' = [target EXCEPT !.incomplete =
                             Incomplete(failed, broken, units)]
  /\ pc' = "save" /\ advanced' = FALSE
  /\ UNCHANGED <<world, disk, saved, todo, snap, refreshDue, reported, faults>>

\* finalizeApply: the last-successful timestamp advances before the save,
\* and a save that fails fails the reconciliation.
FinalizeApply ==
  /\ pc = "save" /\ ~target.incomplete
  /\ advanced' = TRUE
  /\ \/ SaveOK(st) /\ TickDone /\ Idle
     \/ /\ SaveFails(st)
        /\ pc' = "failed"
        /\ UNCHANGED <<st, target, todo, snap, refreshDue, reported>>
  /\ UNCHANGED <<world, disk>>

\* Mutant: a SHA is marked applied only by a complete apply.
SavePartialUnmarked ==
  /\ pc = "save" /\ target.incomplete
  /\ LET s == [st EXCEPT !.applied = saved.applied] IN SaveOK(s) \/ SaveFails(s)
  /\ advanced' = FALSE
  /\ TickDone /\ Idle
  /\ UNCHANGED <<world, disk>>

\* savePartialState: a save that fails is only logged.
SavePartialState ==
  /\ pc = "save" /\ target.incomplete
  /\ SaveOK(st) \/ SaveFails(st)
  /\ advanced' = FALSE
  /\ TickDone /\ Idle
  /\ UNCHANGED <<world, disk>>

\* tick counts the failure of this SHA; a save that fails is only logged.
RecordFailure ==
  /\ pc = "failed"
  /\ \/ SaveOK(RecordedFailure(st, target.sha))
     \/ SaveFails(RecordedFailure(st, target.sha))
  /\ reported' = IF target.changed THEN NoSha ELSE reported
  /\ advanced' = FALSE
  /\ Idle
  /\ UNCHANGED <<world, disk, refreshDue>>

Agent == \/ Start \/ Health \/ SkipTick \/ Noop \/ PendingUnitTick
         \/ GatedTick \/ Resolve \/ ReconcileFails \/ NoChanges
         \/ RetryPendingHooks \/ BeginApply \/ ApplyChange \/ ApplyFails
         \/ ActivateFails \/ RestoreFile \/ RollbackDone \/ Activate
         \/ FinalizeApply \/ SavePartialState \/ RecordFailure

Next == Agent \/ Push \/ Rotate \/ RefreshTimer \/ GateExpires \/ Crash

Spec == Init /\ [][Next]_vars

\* The reconcile loop keeps ticking, and time passes.
Fairness == WF_vars(Agent) /\ WF_vars(RefreshTimer) /\ WF_vars(GateExpires)

FairSpec == Spec /\ Fairness

----------------------------------------------------------------------------
(* Properties. *)

\* The state file is coherent: its Managed Files are exactly what its applied
\* SHA resolves to (recordApply and MarkApplied are saved together, and no
\* failure, retry or restart path saves one without the other).
AppliedIsManaged ==
  saved.applied # NoSha =>
    \E v \in Vaults : saved.managed = Fleet[saved.applied][v]

\* A unit that left the Fleet is never kept pending (prunePendingUnits and
\* health.Enforce), so no tick stays "retry_pending" because of it.
PendingUnitsManaged == saved.units \subseteq ManagedUnits(saved)

\* What is on record agrees with itself.
StateCoherent == AppliedIsManaged /\ PendingUnitsManaged

\* No hook is retried past its budget (enforceRetryBudget), whatever commits
\* drop and re-add it in between.
HookBudget == \A h \in Hooks : saved.hooks[h] < MaxRetries[h]

\* A tick that advances the last-successful timestamp leaves no hook pending.
VerifiedHooksRan == advanced => PendingHooks(st) = {}

\* A hook an apply owes runs, or its budget is spent: never forgotten by a tick
\* that counts as verified, never tried for ever.
HooksAccounted == HookBudget /\ VerifiedHooksRan

\* Between ticks, no file of an interrupted or failed apply is left on the
\* Host without a state record: rollback and the orphan scan remove it, unless
\* what they do fails, or a save.
NoOrphanFiles ==
  kinds \cap {"rollback", "save", "scan"} = {} /\ pc = "idle" =>
    \A p \in Files : disk[p] # Absent => saved.managed[p] # Absent

\* Failed applies leave no trace: between ticks the files on the Host are the
\* Managed Files, as long as no restore, save or crash gets in the way
\* (rollback.Restore, recordApply).
FilesMatchState ==
  kinds \cap {"rollback", "save", "crash"} = {} /\ pc = "idle" => \A p \in Files : disk[p] = saved.managed[p]

\* "Verified OK" means what it says: after a tick that advances the
\* last-successful timestamp, the Host holds what the applied SHA resolves to.
VerifiedIsDeployed ==
  advanced /\ pc = "idle" => \E v \in Vaults : disk = Fleet[saved.applied][v]

\* The files of a Host as Deployment sees them: an apply that is under way, or
\* being rolled back, has not happened.
Settled == [p \in Files |-> IF pc \in {"apply", "rollback", "save"}
                           THEN saved.managed[p] ELSE disk[p]]

\* The attempt under way.
Aim == IF pc \in {"resolved", "apply", "save"}
       THEN [sha |-> target.sha, files |-> [p \in Files |-> target.want[p]]]
       ELSE [sha |-> NoSha, files |-> [p \in Files |-> Absent]]

Promise == INSTANCE Deployment
           WITH aim <- Aim, host <- Settled, applied <- saved.applied,
                verified <- advanced

\* The walk over the changes, the rollback and the save together are one step
\* that deploys a commit with its record, or none (applyWithRollback,
\* recordApply). For the kinds of fault of FilesMatchState.
DeploysAtomically == Promise!Spec

\* Every other commit differs from sha in some file or secret.
ChangesFiles(sha) ==
  \A other \in Shas \ {sha}, v, w \in Vaults :
    Fleet[other][v] # Fleet[sha][w]

\* No duplicate deployment reports: of a commit that changes files, no new
\* deployment is created once one was reported a success (savePartialState).
ReportedOnce ==
  [][pc = "poll" /\ pc' = "resolved" /\ target'.changed /\ ChangesFiles(head)
       => reported # target'.sha]_vars

\* Once pushes, rotations and faults stop, the Host reaches the head commit
\* and stays there: transient failures do not brick the Agent.
Converges ==
  <>[](saved.applied = head /\ disk = Fleet[head][vault])

\* A pending hook runs, or exhausts its budget, or is dropped.
HooksSettle == \A h \in Hooks : saved.hooks[h] > 0 ~> saved.hooks[h] = 0
=============================================================================
