------------------------------ MODULE Applier ------------------------------
(***************************************************************************)
(* One Host's applies in the order the Applier performs them: stops before *)
(* deletes, writes, hooks, daemon-reload, image builds, raw unit           *)
(* operations, restarts, restarts of a build's consumers, and the deferred *)
(* restart of the Agent's own unit; the rollback of a failed apply; and    *)
(* the health passes that come between.                                    *)
(*                                                                         *)
(* Reconcile has the state file and its saves in detail and one outcome    *)
(* per hook and unit; here the units have a runtime state, and a service   *)
(* is known by what it loaded when it was last started or reloaded.        *)
(***************************************************************************)
EXTENDS Naturals, FiniteSets

CONSTANTS
  Shas,            \* commits of the Fleet
  Follows,         \* Follows[sha]: the commits a Host at sha may get next
  Units, Data,     \* unit files; what hooks react to: manifests, files and
                   \* secrets (which a rollback leaves alone, see Reconcile)
  Contents, Absent,
  Fleet,           \* Fleet[sha]: the files the Host resolves to
  Kind,            \* Kind[u]: which of UnitKinds a unit file is
  Self,            \* the Agent's own units
  Member,          \* Member[u]: the pod that starts container u, or NoUnit
  Requires,        \* Requires[u]: the build service u requires, or NoUnit
  Fires,           \* Fires[t]: the unit timer t starts when it elapses
  NoUnit,
  Inputs,          \* Inputs[b]: files below the build context of b
  Rank,            \* the order in which an apply walks its changes
  Hooks,           \* the configured hooks
  HookRank,        \* their order in the configuration
  NameRank,        \* the order of their names
  Triggers,        \* Triggers[h]: paths whose change runs hook h
  HookUnit,        \* HookUnit[h]: the unit h reloads or restarts
  Action,          \* Action[h]: "reload" or "restart"
  Fallback,        \* Fallback[h]: commits where on_failure says restart
  Effect,          \* Effect[h]: hookExecutionKey, equal for equal side effects
  Faults,          \* Faults[sha]: the kinds of fault while sha is deployed
  MaxFaults,       \* bound on the faults of a behaviour
  MaxApplies       \* bound on the applies of a behaviour

\* "job": a one-shot container, which a timer of the Fleet may fire; "timer",
\* "provision" and "service": raw systemd units with [Install] (passive,
\* one-shot, daemon).
UnitKinds == {"container", "pod", "job", "build", "timer", "provision",
              "service"}

\* A restart that fails leaves the unit as it was ("refused": D-Bus), failed
\* ("died"), inactive ("dependency": a unit it requires failed), or starting
\* after all ("timeout": its job outlasts jobTimeout).
\* "restore" is the daemon-reload of a rollback, "reload" that of an apply;
\* "status" is the query before a changed one-shot is restarted, "consumer"
\* that before a build's consumer is.
FaultKinds == {"stop", "write", "hook", "reload", "build", "op", "refused",
               "died", "dependency", "timeout", "crash", "selfop", "restore",
               "status", "consumer"}

Paths   == Units \cup Data
Tree    == [Paths -> Contents \cup {Absent}]
Raw     == {u \in Units : Kind[u] \in {"timer", "provision", "service"}}
Builds  == {u \in Units : Kind[u] = "build"}

ASSUME FleetAssumption ==
  /\ Units \cap Data = {} /\ NoUnit \notin Units /\ Absent \notin Contents
  /\ Fleet \in [Shas -> Tree] /\ Follows \in [Shas -> SUBSET Shas]
  /\ Kind \in [Units -> UnitKinds]
  /\ Self \subseteq {u \in Units : Kind[u] = "container"}
  /\ Member \in [Units -> Units \cup {NoUnit}]
  /\ Requires \in [Units -> Builds \cup {NoUnit}]
  /\ Fires \in [{u \in Units : Kind[u] = "timer"} -> Units]
  /\ Inputs \in [Builds -> SUBSET Data]
  /\ Rank \in [Paths -> Nat]

\* What the validator makes sure of, by converting every unit like Podman does:
\* only containers name a pod or an image, and the pod is in the Fleet as well;
\* the Agent's own container joins none (rejectSelfPodMember).
ASSUME UnitsAssumption ==
  /\ \A u \in Units : Member[u] # NoUnit =>
       /\ Kind[u] \in {"container", "job"} /\ Kind[Member[u]] = "pod"
       /\ u \notin Self
       /\ \A c \in Shas : Fleet[c][u] # Absent => Fleet[c][Member[u]] # Absent
  /\ \A u \in Units : Requires[u] # NoUnit => Kind[u] \in {"container", "job"}

ASSUME HooksAssumption ==
  /\ Triggers \in [Hooks -> SUBSET Data]
  /\ HookUnit \in [Hooks -> Units \ Builds]
  /\ Action \in [Hooks -> {"reload", "restart"}]
  /\ Fallback \in [Hooks -> SUBSET Shas]
  /\ HookRank \in [Hooks -> Nat] /\ NameRank \in [Hooks -> Nat]
  /\ DOMAIN Effect = Hooks
  /\ \A g, h \in Hooks : Effect[g] = Effect[h] =>
       HookUnit[g] = HookUnit[h] /\ Action[g] = Action[h]

ASSUME BoundsAssumption ==
  /\ Faults \in [Shas -> SUBSET FaultKinds] /\ MaxFaults \in Nat /\ MaxApplies \in Nat

VARIABLES
  disk,        \* files on the Host
  defs,        \* unit definitions systemd loaded
  run,         \* ActiveState of each unit
  view,        \* what a running unit loaded: definition, data, image; for a
               \* job, when it was last started by anything but its timer
  tag,         \* what each build's tag was built from
  enabled,     \* raw units with an enable symlink
  managed,     \* Managed Files of the state file
  pendHooks,   \* PendingHooks of the state file
  pendUnits,   \* PendingUnits of the state file
  pc,          \* the phase of the apply in progress
  sha, want,   \* the commit, and its files, to be deployed
  was,         \* the Host when the apply began
  todo,        \* paths still to be written, builds or units still to be run
  queue,       \* hooks still to be run
  executed,    \* effects of the hooks that ran in this apply
  restarts,    \* ChangedUnits, and the units hooks restart
  failed,      \* hooks that failed and are to be retried
  restarted, broken,  \* RestartedUnits, FailedRestartUnits
  selfOps,     \* deferred operations on the Agent's own units
  outcome,     \* of the last apply
  faults, applies

host  == <<disk, defs, run, view, tag, enabled>>
state == <<managed, pendHooks, pendUnits>>
work  == <<sha, want, was, todo, queue, executed, restarts, failed, restarted,
           broken>>
vars  == <<host, state, work, pc, selfOps, outcome, faults, applies>>

Text   == Contents \cup {Absent}
Images == {NoUnit} \cup UNION {[Inputs[b] \cup {b} -> Text] : b \in Builds}
Views  == [Units -> [def : Text, data : [Data -> Text], image : Images]]
Tags   == [Builds -> Images]
Runs   == [Units -> {"active", "inactive", "failed"}]

PCs == {"idle", "write", "hooks", "reload", "build", "activate", "restart",
        "consume", "save", "retry", "rollback"}

Outcomes == {"ok", "incomplete", "failed", "died", "gone"}

\* What starting build b now would tag; what starting u now would load.
Image(b, files) == [p \in Inputs[b] \cup {b} |-> files[p]]

Loads(u, files, ds, tags) ==
  [def   |-> ds[u],
   data  |-> [p \in Data |-> files[p]],
   image |-> IF Requires[u] = NoUnit THEN NoUnit ELSE tags[Requires[u]]]

Nothing == [def |-> Absent, data |-> [p \in Data |-> Absent],
            image |-> NoUnit]

Daemon(u) == Kind[u] \in {"container", "pod", "service"}

Deployed(commit) ==
  /\ disk = Fleet[commit] /\ managed = disk
  /\ defs = [u \in Units |-> disk[u]]
  /\ tag  = [b \in Builds |-> Image(b, disk)]
  /\ run  = [u \in Units |-> IF disk[u] # Absent
                                /\ (Daemon(u) \/ Kind[u] = "timer")
                             THEN "active" ELSE "inactive"]
  /\ view = [u \in Units |-> IF run[u] = "active"
                             THEN Loads(u, disk, defs, tag) ELSE Nothing]
  /\ enabled = {u \in Raw : disk[u] # Absent}

\* The Host converged to some commit; nothing is pending.
Init ==
  /\ sha \in Shas /\ Deployed(sha)
  /\ pendHooks = {} /\ pendUnits = {}
  /\ pc = "idle" /\ want = disk
  /\ was = [disk |-> disk, run |-> run, view |-> view, tag |-> tag]
  /\ todo = {} /\ queue = {} /\ executed = {} /\ restarts = {}
  /\ failed = {} /\ restarted = {} /\ broken = {} /\ selfOps = {}
  /\ outcome = "ok" /\ faults = 0 /\ applies = 0

TypeOK ==
  /\ disk \in Tree /\ managed \in Tree /\ want \in Tree /\ sha \in Shas
  /\ defs \in [Units -> Text] /\ run \in Runs /\ view \in Views /\ tag \in Tags
  /\ was \in [disk : Tree, run : Runs, view : Views, tag : Tags]
  /\ enabled \subseteq Raw
  /\ pendHooks \subseteq Hooks /\ pendUnits \subseteq Units
  /\ pc \in PCs /\ outcome \in Outcomes
  /\ todo \subseteq Paths /\ queue \subseteq Hooks
  /\ restarts \subseteq Units /\ failed \subseteq Hooks
  /\ restarted \subseteq Units /\ broken \subseteq Units
  /\ selfOps \subseteq Self
  /\ faults \in 0..MaxFaults /\ applies \in 0..MaxApplies

----------------------------------------------------------------------------
(* What systemd does (modelled by what the code relies on). *)

Fault(k) == k \in Faults[sha] /\ faults < MaxFaults /\ faults' = faults + 1
NoFault  == UNCHANGED faults

Present(u) == defs[u] # Absent

\* A (re)start of u takes its pod's members along, and runs the builds that
\* any of them requires, unless dependencies are ignored.
Starts(u)   == {u} \cup {m \in Units : Member[m] = u /\ Present(m)}
Rebuilds(u) == {Requires[m] : m \in Starts(u)} \ {NoUnit}

\* A start is over once a daemon runs, or a job has run.
AfterStart(m) == IF Kind[m] = "job" THEN "inactive" ELSE "active"

Started(u) ==
  /\ Present(u)
  /\ tag'  = [b \in Builds |-> IF b \in Rebuilds(u) THEN Image(b, disk)
                               ELSE tag[b]]
  /\ run'  = [m \in Units |-> IF m \in Starts(u) THEN AfterStart(m) ELSE run[m]]
  /\ view' = [m \in Units |-> IF m \in Starts(u)
                              THEN Loads(m, disk, defs, tag') ELSE view[m]]

RestartsUnit(u) == Started(u) /\ NoFault

RestartsIgnoringDependencies(u) ==
  /\ Present(u)
  /\ run'  = [run EXCEPT ![u] = "active"]
  /\ view' = [view EXCEPT ![u] = Loads(u, disk, defs, tag)]
  /\ UNCHANGED tag /\ NoFault

\* A failed start of a pod leaves its members stopped.
StartFails(u, state_u) ==
  /\ run'  = [m \in Units |-> IF m = u THEN state_u
                              ELSE IF m \in Starts(u) THEN "inactive"
                              ELSE run[m]]
  /\ view' = [m \in Units |-> IF m \in Starts(u) THEN Nothing ELSE view[m]]
  /\ UNCHANGED tag

RestartFails(u) ==
  \/ ~Present(u) /\ NoFault /\ UNCHANGED <<run, view, tag>>
  \/ Fault("refused") /\ UNCHANGED <<run, view, tag>>
  \/ Fault("died") /\ StartFails(u, "failed")
  \/ Fault("dependency") /\ StartFails(u, "inactive")
  \/ Fault("timeout") /\ Started(u)

\* Stopping a pod stops its members (BindsTo=).
Stops(u) ==
  /\ run'  = [m \in Units |-> IF m \in Starts(u) THEN "inactive" ELSE run[m]]
  /\ view' = [m \in Units |-> IF m \in Starts(u) THEN Nothing ELSE view[m]]

\* systemd knows an enabled timer from timers.target, any other while it runs.
Armed(t) == t \in enabled \/ run[t] = "active"

\* TriggeredBy names a timer systemd has loaded, with the definition the last
\* daemon-reload saw.
TimerTriggered(u) ==
  \E t \in DOMAIN Fires : Fires[t] = u /\ Present(t) /\ Armed(t)

\* Mutant: every one-shot is taken for a timer's.
ActivatedByKind(u) == Kind[u] = "job"

\* A one-shot a timer fires; the service of a Quadlet is never static.
ExternallyActivated(u) == Kind[u] = "job" /\ TimerTriggered(u)

\* The Agent's process ends. A new one removes what no state record names
\* (scanOrphans), then reloads systemd; it stops no unit.
AgentRestarts(units) ==
  LET kept == [p \in Paths |-> IF managed[p] = Absent THEN Absent
                               ELSE disk[p]]
  IN  /\ disk' = kept
      /\ defs' = IF kept = disk THEN defs ELSE [u \in Units |-> kept[u]]
      /\ run'  = [u \in Units |-> IF u \in units THEN "active" ELSE run[u]]
      /\ view' = [u \in Units |-> IF u \in units
                                  THEN Loads(u, disk, defs, tag) ELSE view[u]]

----------------------------------------------------------------------------
(* An apply. *)

Changes == {p \in Paths : want[p] # managed[p]}
Written == {p \in Changes : want[p] # Absent}

\* recordChangedUnit, RestartChanged categories.
ChangedUnits ==
  {u \in Units \cap Written : Kind[u] \in {"container", "pod", "job"}}

\* A reload or restart hook sees the create or update of a trigger.
Matches(h) == Triggers[h] \cap Written # {}

\* First those that match, in the order of the configuration, then those only
\* pending from earlier applies, by name (pendingHookNames).
NextHook(h) ==
  /\ h \in queue
  /\ \A g \in queue \ {h} :
       \/ Matches(h) /\ ~Matches(g)
       \/ Matches(h) /\ Matches(g) /\ HookRank[h] < HookRank[g]
       \/ ~Matches(h) /\ ~Matches(g) /\ NameRank[h] < NameRank[g]

\* triggeredBuilds: the unit file changed, or an input did (also a delete).
TriggeredBuilds ==
  {b \in Builds : /\ want[b] # Absent
                  /\ \/ b \in Changes
                     \/ Inputs[b] \cap Changes # {}}

\* Members a changed pod starts by itself.
PodStarted == {m \in Units : Member[m] \in ChangedUnits}

\* Mutant: a build whose inputs changed restarts no consumer.
ConsumersOfChangedBuilds ==
  {u \in Units \ PodStarted : /\ want[u] # Absent
                              /\ Requires[u] \in TriggeredBuilds \cap Changes}

\* takeBuildConsumers: the units requiring a build that runs.
BuildConsumers ==
  {u \in Units \ PodStarted : /\ want[u] # Absent
                              /\ Requires[u] \in TriggeredBuilds}

\* A tick has something to apply, or only pending hooks to run again.
Begin(commit) ==
  /\ pc = "idle" /\ selfOps = {} /\ outcome # "gone"
  /\ applies < MaxApplies /\ applies' = applies + 1
  /\ sha' = commit /\ want' = Fleet[commit]
  /\ was' = [disk |-> disk, run |-> run, view |-> view, tag |-> tag]
  /\ executed' = {} /\ restarts' = {} /\ failed' = {}
  /\ restarted' = {} /\ broken' = {}
  /\ LET changes == {p \in Paths : Fleet[commit][p] # managed[p]}
     IN \/ /\ changes # {}
           /\ pc' = "write" /\ todo' = changes /\ queue' = {}
        \/ /\ changes = {} /\ pendHooks # {}      \* RunPendingHooks
           /\ pc' = "retry" /\ todo' = {} /\ queue' = pendHooks
  /\ UNCHANGED <<host, state, selfOps, outcome, faults>>

NextPath(p) == p \in todo /\ \A q \in todo : Rank[p] <= Rank[q]

\* A self unit must not be stopped here; its stop is deferred.
StopsBeforeDelete(u) == u \notin Self

\* stopUnitForDelete: a failed disable or stop is only logged.
StopForDelete(u) ==
  \/ /\ enabled' = enabled \ {u}
     /\ \/ StopsBeforeDelete(u) /\ Stops(u) /\ NoFault /\ UNCHANGED selfOps
        \/ /\ StopsBeforeDelete(u) /\ Fault("stop")
           /\ UNCHANGED <<run, view, selfOps>>
        \/ /\ ~StopsBeforeDelete(u) /\ selfOps' = selfOps \cup {u}
           /\ UNCHANGED <<run, view, faults>>
  \/ /\ u \in Raw /\ Fault("op") /\ Stops(u) /\ UNCHANGED <<enabled, selfOps>>

\* applyPhase handles one change.
Write ==
  /\ pc = "write"
  /\ \E p \in Paths :
       /\ NextPath(p)
       /\ todo' = todo \ {p}
       /\ disk' = [disk EXCEPT ![p] = want[p]]
       /\ IF p \in Units /\ want[p] = Absent
          THEN StopForDelete(p)
          ELSE UNCHANGED <<run, view, enabled, selfOps, faults>>
  /\ UNCHANGED <<defs, tag, state, pc, sha, want, was, queue, executed, restarts,
                 failed, restarted, broken, outcome, applies>>

\* A write fails the apply; nothing past the writes has happened.
WriteFails ==
  /\ pc = "write" /\ todo # {} /\ Fault("write")
  /\ pc' = "rollback"
  /\ UNCHANGED <<host, state, work, selfOps, outcome, applies>>

WritesDone ==
  /\ pc = "write" /\ todo = {}
  /\ queue' = pendHooks \cup {h \in Hooks : Matches(h)}
  /\ restarts' = ChangedUnits
  /\ pc' = "hooks"
  /\ UNCHANGED <<host, state, sha, want, was, todo, executed, failed, restarted,
                 broken, selfOps, outcome, faults, applies>>

\* Mutant: one hook of a unit stands for all of them.
SkippedForPeer(h) ==
  \/ \E g \in Hooks : Effect[g] \in executed /\ HookUnit[g] = HookUnit[h]
  \/ Action[h] = "reload" /\ HookUnit[h] \in restarts

\* Mutant: a unit that restarts is reloaded as well.
SkippedForEffect(h) == Effect[h] \in executed

\* runOneHook: an equal effect ran already, or the unit restarts anyway.
Skipped(h) ==
  \/ Effect[h] \in executed
  \/ Action[h] = "reload" /\ HookUnit[h] \in restarts

\* The reload reaches the unit, which then has the files its effect is about.
Delivers(h) == UNION {Triggers[g] : g \in {g \in Hooks : Effect[g] = Effect[h]}}

Reloaded(h) ==
  /\ run[HookUnit[h]] = "active"
  /\ view' = [view EXCEPT ![HookUnit[h]].data =
                [p \in Data |-> IF p \in Delivers(h) THEN disk[p] ELSE @[p]]]

\* The unit is not active, or the reload fails (it may have had its effect).
ReloadFails(h) ==
  \/ run[HookUnit[h]] # "active" /\ NoFault /\ UNCHANGED view
  \/ Fault("hook") /\ (UNCHANGED view \/ Reloaded(h))

\* on_failure: keep_running is retried, restart restarts the unit.
Retried(h) == sha \notin Fallback[h]

RunOneHook(h) ==
  \/ Skipped(h) /\ UNCHANGED <<view, executed, restarts, failed, faults>>
  \/ /\ ~Skipped(h)
     /\ executed' = executed \cup {Effect[h]}
     /\ \/ /\ Action[h] = "restart"
           /\ restarts' = restarts \cup {HookUnit[h]}
           /\ UNCHANGED <<view, failed, faults>>
        \/ /\ Action[h] = "reload" /\ Reloaded(h) /\ NoFault
           /\ UNCHANGED <<restarts, failed>>
        \/ /\ Action[h] = "reload" /\ ReloadFails(h)
           /\ IF Retried(h)
              THEN failed' = failed \cup {h} /\ UNCHANGED restarts
              ELSE restarts' = restarts \cup {HookUnit[h]} /\ UNCHANGED failed

RunHook ==
  /\ pc \in {"hooks", "retry"}
  /\ \E h \in Hooks : NextHook(h) /\ queue' = queue \ {h} /\ RunOneHook(h)
  /\ UNCHANGED <<disk, defs, run, tag, enabled, state, pc, sha, want, was, todo,
                 restarted, broken, selfOps, outcome, applies>>

\* reloadIfNeeded: manifests, files and secrets need no daemon-reload.
DaemonReload ==
  /\ pc = "hooks" /\ queue = {}
  /\ \/ /\ Changes \cap Units # {}
        /\ defs' = [u \in Units |-> disk[u]]
     \/ Changes \cap Units = {} /\ UNCHANGED defs
  /\ todo' = TriggeredBuilds /\ pc' = "build"
  /\ UNCHANGED <<disk, run, view, tag, enabled, state, sha, want, was, queue,
                 executed, restarts, failed, restarted, broken, selfOps,
                 outcome, faults, applies>>

DaemonReloadFails ==
  /\ pc = "hooks" /\ queue = {} /\ Changes \cap Units # {}
  /\ Fault("reload")
  /\ pc' = "rollback"
  /\ UNCHANGED <<host, state, work, selfOps, outcome, applies>>

\* Mutant: a restart of the build, which stops its consumers.
BuildRestarts(b) ==
  /\ tag' = [tag EXCEPT ![b] = Image(b, disk)]
  /\ run' = [u \in Units |-> IF Requires[u] = b THEN "inactive" ELSE run[u]]

\* RunBuildUnit: a start, so that its consumers are left alone.
BuildRuns(b) ==
  /\ tag' = [tag EXCEPT ![b] = Image(b, disk)]
  /\ run' = [run EXCEPT ![b] = "inactive"]

Build ==
  /\ pc = "build"
  /\ \E b \in todo :
       /\ todo' = todo \ {b}
       /\ BuildRuns(b)
  /\ UNCHANGED <<disk, defs, view, enabled, state, pc, sha, want, was, queue,
                 executed, restarts, failed, restarted, broken, selfOps,
                 outcome, faults, applies>>

\* Mutant: only the failed build's tag is put back.
RestoresFailedOnly(b) == [tag EXCEPT ![b] = was.tag[b]]

\* restoreTags: the tags of all the apply's builds, not just the failed one.
RestoredTags(b) ==
  [c \in Builds |-> IF c \in TriggeredBuilds THEN was.tag[c] ELSE tag[c]]

\* A failed build fails the apply.
BuildFails ==
  /\ pc = "build" /\ Fault("build")
  /\ \E b \in todo :
       /\ tag' = RestoredTags(b)
       /\ run' = [run EXCEPT ![b] = "failed"]
  /\ pc' = "rollback"
  /\ UNCHANGED <<disk, defs, view, enabled, state, work, selfOps, outcome,
                 applies>>

\* dropPodMemberRestarts, then takeBuildConsumers.
Restarting ==
  ((restarts \ TriggeredBuilds)
     \ {u \in ChangedUnits : Member[u] \in ChangedUnits})
  \ BuildConsumers

Built ==
  /\ pc = "build" /\ todo = {}
  /\ todo' = Raw \cap Written
  /\ restarts' = Restarting
  /\ restarted' = TriggeredBuilds
  /\ pc' = "activate"
  /\ UNCHANGED <<host, state, sha, want, was, queue, executed, failed, broken,
                 selfOps, outcome, faults, applies>>

\* Mutant: only timers are started.
ActivatesTimers(u) == Kind[u] = "timer"

\* A timer is (re)started, a daemon restarted, a provisioning one-shot
\* started when it is created.
Activates(u) ==
  \/ Kind[u] \in {"timer", "service"}
  \/ Kind[u] = "provision" /\ managed[u] = Absent

\* runSystemdOp: enable, then start or restart; failures are logged.
ActivateUnit(u) ==
  \/ /\ enabled' = enabled \cup {u}
     /\ \/ Activates(u) /\ (RestartsUnit(u) \/ RestartFails(u))
        \/ ~Activates(u) /\ UNCHANGED <<run, view, tag, faults>>
  \/ /\ Fault("op") /\ UNCHANGED enabled
     /\ \/ Activates(u) /\ Started(u)
        \/ ~Activates(u) /\ UNCHANGED <<run, view, tag>>

\* activateSystemdUnits
ActivateRaw ==
  /\ pc = "activate"
  /\ \E u \in todo : todo' = todo \ {u} /\ ActivateUnit(u)
  /\ UNCHANGED <<disk, defs, state, pc, sha, want, was, queue, executed, restarts,
                 failed, restarted, broken, selfOps, outcome, applies>>

Activated ==
  /\ pc = "activate" /\ todo = {}
  /\ todo' = restarts /\ pc' = "restart"
  /\ UNCHANGED <<host, state, sha, want, was, queue, executed, restarts, failed,
                 restarted, broken, selfOps, outcome, faults, applies>>

\* Mutant: a changed one-shot is restarted like a daemon.
RestartsJobs(u) == FALSE

\* Mutant: the timers are asked for before the apply deletes some.
LeftToOldTimer(u) ==
  /\ Kind[u] = "job" /\ u \in ChangedUnits
  /\ \E t \in DOMAIN Fires : Fires[t] = u /\ was.disk[t] # Absent

\* OneshotUnits: by its new content; one only a hook restarts is not among them.
Oneshot(u) == Kind[u] = "job" /\ u \in ChangedUnits

\* skipTimerTriggeredRestart: a timer fires it. Who cannot be asked about is left
\* alone as well (StatusUnknown).
LeftToTimer(u) == Oneshot(u) /\ TimerTriggered(u)

StatusUnknown(u) == Oneshot(u) /\ Fault("status")

\* Mutant: the Agent's own unit is restarted in turn.
InTurn(u) == FALSE

\* A restart of the Agent's own unit is deferred.
Deferred(u) == u \in Self

RestartUnit(u) ==
  \/ /\ RestartsUnit(u)
     /\ restarted' = restarted \cup {u} /\ UNCHANGED broken
  \/ /\ RestartFails(u)
     /\ broken' = broken \cup {u} /\ UNCHANGED restarted

\* restartEach: the Agent's own unit is kept for scheduleSelfUnitOps.
Defer(u) ==
  /\ Deferred(u)
  /\ selfOps' = selfOps \cup {u} /\ restarted' = restarted \cup {u}
  /\ UNCHANGED <<run, view, tag, broken, faults>>

LeaveAlone == UNCHANGED <<run, view, tag, restarted, broken, selfOps>>

RestartChangedUnit(u) ==
  \/ Defer(u)
  \/ ~Deferred(u) /\ LeftToTimer(u) /\ LeaveAlone /\ NoFault
  \/ ~Deferred(u) /\ StatusUnknown(u) /\ LeaveAlone
  \/ ~Deferred(u) /\ ~LeftToTimer(u) /\ RestartUnit(u) /\ UNCHANGED selfOps

\* restartChangedUnits
Restart ==
  /\ pc = "restart"
  /\ \E u \in todo : todo' = todo \ {u} /\ RestartChangedUnit(u)
  /\ UNCHANGED <<disk, defs, enabled, state, pc, sha, want, was, queue, executed,
                 restarts, failed, outcome, applies>>

RestartsDone ==
  /\ pc = "restart" /\ todo = {}
  /\ todo' = BuildConsumers /\ pc' = "consume"
  /\ UNCHANGED <<host, state, sha, want, was, queue, executed, restarts, failed,
                 restarted, broken, selfOps, outcome, faults, applies>>

\* A running one without its dependencies, one that does not run the ordinary
\* way, a timer's job not at all; one it cannot ask about counts as broken.
RestartConsumer(u) ==
  \/ Defer(u)
  \/ ~Deferred(u) /\ ExternallyActivated(u) /\ LeaveAlone /\ NoFault
  \/ /\ ~Deferred(u) /\ Fault("consumer")
     /\ broken' = broken \cup {u}
     /\ UNCHANGED <<run, view, tag, restarted, selfOps>>
  \/ /\ ~Deferred(u) /\ ~ExternallyActivated(u) /\ UNCHANGED selfOps
     /\ \/ run[u] # "active" /\ RestartUnit(u)
        \/ /\ run[u] = "active" /\ RestartsIgnoringDependencies(u)
           /\ restarted' = restarted \cup {u} /\ UNCHANGED broken
        \/ /\ run[u] = "active" /\ RestartFails(u)
           /\ broken' = broken \cup {u} /\ UNCHANGED restarted

Consume ==
  /\ pc = "consume"
  /\ \E u \in todo : todo' = todo \ {u} /\ RestartConsumer(u)
  /\ UNCHANGED <<disk, defs, enabled, state, pc, sha, want, was, queue, executed,
                 restarts, failed, outcome, applies>>

Consumed ==
  /\ pc = "consume" /\ todo = {}
  /\ pc' = "save"
  /\ UNCHANGED <<host, state, work, selfOps, outcome, faults, applies>>

\* recordApply and the save: hooks that ran are no longer pending, units that
\* restarted neither; a unit that left the Fleet is dropped.
Save ==
  /\ pc = "save"
  /\ managed' = want
  /\ pendHooks' = failed
  /\ pendUnits' = {u \in (pendUnits \ restarted) \cup broken :
                     want[u] # Absent}
  /\ outcome' = IF failed = {} /\ pendUnits' \cap broken = {}
                THEN "ok" ELSE "incomplete"
  /\ pc' = "idle"
  /\ UNCHANGED <<host, work, selfOps, faults, applies>>

\* RunPendingHooks: the units the hooks restart are restarted at once
\* (restartFallbackUnits), the Agent's own too; an error is only logged.
RetryRestart ==
  /\ pc = "retry" /\ queue = {}
  /\ \E u \in restarts :
       \/ /\ u \notin Self
          /\ restarts' = restarts \ {u}
          /\ RestartsUnit(u) \/ RestartFails(u)
          /\ UNCHANGED <<disk, defs, pc, outcome>>
       \/ /\ u \in Self
          /\ AgentRestarts({u}) /\ NoFault
          /\ pc' = "idle" /\ outcome' = "died"
          /\ UNCHANGED <<tag, restarts>>
  /\ UNCHANGED <<enabled, state, sha, want, was, todo, queue, executed, failed,
                 restarted, broken, selfOps, applies>>

RetryDone ==
  /\ pc = "retry" /\ queue = {} /\ restarts = {}
  /\ pendHooks' = failed
  /\ outcome' = IF failed = {} THEN "ok" ELSE "incomplete"
  /\ pc' = "idle"
  /\ UNCHANGED <<host, managed, pendUnits, work, selfOps, faults, applies>>

\* rollback.Restore, then a daemon-reload; deferred stops never happen.
RollBack ==
  /\ pc = "rollback"
  /\ disk' = [p \in Paths |-> IF p \notin Changes THEN disk[p]
                              ELSE IF managed[p] = Absent THEN Absent
                              ELSE was.disk[p]]
  /\ \/ defs' = [u \in Units |-> disk'[u]] /\ NoFault
     \/ Fault("restore") /\ UNCHANGED defs
  /\ outcome' = "failed" /\ pc' = "idle" /\ selfOps' = {}
  /\ todo' = {} /\ queue' = {}
  /\ UNCHANGED <<run, view, tag, enabled, state, sha, want, was, executed,
                 restarts, failed, restarted, broken, applies>>

----------------------------------------------------------------------------
(* Between, and in the middle of, applies. *)

\* Mutant: the deferred operations are scheduled before the restarts.
ScheduledEarly == pc \in {"restart", "consume", "save", "idle"}

\* scheduleSelfUnitOps runs once every other unit was handled.
SelfOpsScheduled == pc \in {"save", "idle"}

\* The deferred operations reach systemd,
\* before or after the state is saved: a restart, or the end of an Agent
\* whose unit was deleted.
SelfOp ==
  /\ selfOps # {} /\ SelfOpsScheduled
  /\ \/ /\ Fault("selfop")
        /\ UNCHANGED <<host, pc, todo, queue, outcome>>
     \/ /\ \A u \in selfOps : want[u] # Absent
        /\ AgentRestarts(selfOps) /\ NoFault
        /\ pc' = "idle" /\ todo' = {} /\ queue' = {}
        /\ outcome' = IF pc = "idle" THEN outcome ELSE "died"
        /\ UNCHANGED <<tag, enabled>>
     \/ /\ \E u \in selfOps : want[u] = Absent /\ Stops(u)
        /\ NoFault
        /\ pc' = "idle" /\ todo' = {} /\ queue' = {} /\ outcome' = "gone"
        /\ UNCHANGED <<disk, defs, tag, enabled>>
  /\ selfOps' = {}
  /\ UNCHANGED <<state, sha, want, was, executed, restarts, failed, restarted,
                 broken, applies>>

\* A daemon dies by itself.
Dies(u) ==
  /\ pc = "idle" /\ Daemon(u) /\ run[u] = "active" /\ u \notin Self
  /\ Fault("crash")
  /\ StartFails(u, "failed")
  /\ UNCHANGED <<disk, defs, enabled, state, work, pc, selfOps, outcome,
                 applies>>

\* The run of a job by its timer fails (other runs by it are left out: what
\* becomes of a run nobody here asked for matters only when it fails).
JobFails(u) ==
  /\ pc = "idle" /\ ExternallyActivated(u) /\ Present(u) /\ run[u] # "failed"
  /\ Fault("crash")
  /\ run' = [run EXCEPT ![u] = "failed"]
  /\ UNCHANGED <<disk, defs, view, tag, enabled, state, work, pc, selfOps,
                 outcome, applies>>

\* Mutant: the health pass restarts jobs like daemons.
RestartsFailedJobs(u) == Kind[u] \notin {"timer", "build"}

\* What the health pass may restart: not a passive unit, a one-shot with a
\* trigger, or a build.
Restartable(u) == Kind[u] \notin {"timer", "build"} /\ ~ExternallyActivated(u)

\* The health pass sees u: a failed unit is restarted, and every other pending
\* one is taken off the record.
Health(u) ==
  /\ pc = "idle" /\ outcome # "gone" /\ managed[u] # Absent
  /\ \/ /\ run[u] # "failed" \/ ~Restartable(u)
        /\ u \in pendUnits /\ pendUnits' = pendUnits \ {u}
        /\ UNCHANGED <<run, view, tag, faults>>
     \/ /\ run[u] = "failed" /\ Restartable(u)
        /\ \/ RestartsUnit(u) /\ UNCHANGED pendUnits
           \/ RestartFails(u) /\ pendUnits' = pendUnits \cup {u}
  /\ UNCHANGED <<disk, defs, enabled, managed, pendHooks, work, pc, selfOps,
                 outcome, applies>>

Apply == \/ Write \/ WriteFails \/ WritesDone \/ RunHook \/ DaemonReload
         \/ DaemonReloadFails \/ Build \/ BuildFails \/ Built \/ ActivateRaw
         \/ Activated \/ Restart \/ RestartsDone \/ Consume \/ Consumed
         \/ Save \/ RetryRestart \/ RetryDone \/ RollBack

Next == \/ \E commit \in Follows[sha] : Begin(commit)
        \/ Apply
        \/ SelfOp
        \/ \E u \in Units : Dies(u) \/ JobFails(u) \/ Health(u)

Spec == Init /\ [][Next]_vars

----------------------------------------------------------------------------
(* Properties. *)

Hooked(u) == UNION {Triggers[h] : h \in {g \in Hooks : HookUnit[g] = u}}

\* A running unit runs what is deployed: its definition, the image its build
\* makes of the current inputs, and (DataCurrent) the data its hooks are there
\* to deliver.
Current(u) ==
  /\ view[u].def = disk[u]
  /\ Requires[u] # NoUnit /\ disk[Requires[u]] # Absent =>
       view[u].image = Image(Requires[u], disk)

DataCurrent(u) == \A p \in Hooked(u) : disk[p] # Absent => view[u].data[p] = disk[p]

\* What fails here is repeated by nothing: a restart systemd refused, whose unit
\* the health pass takes for one that converged, as it takes a consumer nothing
\* is known of, and a rollback's daemon-reload.
Forgets(commit) == Faults[commit] \cap {"refused", "restore", "consumer"} # {}

\* An apply may fail after its hooks ran, and nothing takes their effect back.
FailsAfterHooks(commit) == Faults[commit] \cap {"reload", "build"} # {}

\* A deferred restart may fail, which is recorded nowhere, and of two own units
\* one may end the Agent before the other is restarted.
LosesSelfOps == "selfop" \in Faults[sha] \/ outcome = "gone"

\* Between applies, with no hook pending and the files those of the state file
\* (Reconcile says when they are), every running daemon of the Fleet runs what
\* is deployed: no change is written and then forgotten, whatever hooks skip or
\* stand in for each other, whichever restarts are covered by a pod's, a
\* build's or the Agent's own, and whatever fails and is retried or rolled back.
ServicesCurrent ==
  pc = "idle" /\ selfOps = {} /\ pendHooks = {} /\ disk = managed
    /\ ~Forgets(sha) =>
    \A u \in IF LosesSelfOps THEN Units \ Self ELSE Units :
      Daemon(u) /\ disk[u] # Absent /\ run[u] = "active" =>
        Current(u) /\ (FailsAfterHooks(sha) \/ DataCurrent(u))

\* Between applies every build's tag names the image of the inputs on disk,
\* whatever failed on the way: none stays behind from an apply that was rolled
\* back (restoreTags).
TagsCurrent ==
  pc = "idle" =>
    \A b \in Builds : disk[b] # Absent => tag[b] = Image(b, disk)

\* The Agent's own units are never stopped or restarted synchronously, before
\* everything else was handled; a hook may reload them, and the fallback of a
\* pending hook restarts them where nothing else is (selfUnits).
NotInTurn ==
  [][\A u \in Self : view'[u] # view[u] =>
       pc \in {"save", "idle", "retry"} \/ queue # {}]_vars

\* What an apply hands over is among the outcomes Reconcile's Activate allows.
OutcomeAsInReconcile ==
  pc = "save" =>
    LET attempted == pendHooks \cup {h \in Hooks : Matches(h)}
        units == ChangedUnits \cup BuildConsumers \cup TriggeredBuilds
                 \cup {HookUnit[h] : h \in attempted \ failed}
    IN  /\ failed \subseteq {h \in attempted : HookUnit[h] \notin ChangedUnits}
        /\ restarted \cup broken \subseteq units
        /\ restarted \cap broken = {}

\* A failed apply leaves running units as they were, but for those it was
\* removing and those its hooks had already reloaded.
FailedApplySparesUnits ==
  [][pc = "rollback" =>
       \A u \in Units : /\ Daemon(u) /\ want[u] # Absent /\ Hooked(u) = {}
                        /\ was.run[u] = "active"
                        => run[u] = "active" /\ view[u] = was.view[u]]_vars

\* Something of what can go wrong at this commit fails an apply, or leaves a
\* unit that was to be started as it was.
FailsApplies(commit) ==
  Faults[commit] \ {"hook", "died", "timeout", "crash", "status"} # {}

\* A daemon is not stopped, but for a member whose pod does not run.
Fine(u) ==
  run[u] = "inactive" => Member[u] # NoUnit /\ run[Member[u]] # "active"

\* Where no apply fails: no deployed daemon is left stopped, but for members of
\* a pod that died, and every deployed raw unit is enabled, whatever was
\* deleted and created again and wherever the Agent restarted itself. (Where
\* the Host and the state file differ the Agent does not look.)
DaemonsKept ==
  pc = "idle" /\ outcome # "gone" /\ ~FailsApplies(sha) =>
    \A u \in Units \ Self :
      managed[u] # Absent /\ disk[u] = managed[u] =>
        /\ u \in Raw => u \in enabled
        /\ Daemon(u) => Fine(u)

\* An Agent whose own unit left the Fleet ends after the units that take over
\* were started, with what is deployed (stopUnitForDelete).
AgentLeavesLast ==
  outcome = "gone" /\ ~FailsApplies(sha) =>
    \A u \in Units \ Self :
      Daemon(u) /\ want[u] # Absent /\ disk[u] = want[u] =>
        Fine(u) /\ (run[u] = "active" => view[u].def = want[u])

\* What runs job u besides its timer, itself and its build: a hook, its pod.
Asked(u) == Member[u] # NoUnit \/ \E h \in Hooks : HookUnit[h] = u

\* A timer of the Host fires job u, or none does.
Scheduled(u)   == \E t \in DOMAIN Fires : Fires[t] = u /\ disk[t] # Absent /\ Armed(t)
Unscheduled(u) == \A t \in DOMAIN Fires : Fires[t] = u => disk[t] = Absent

\* A rollback's daemon-reload that fails leaves systemd with other timers than
\* the Host has.
MistakesTimers(commit) == "restore" \in Faults[commit]

\* No edit, no rebuilt image and no health pass after a failed run starts a job
\* whose timer is deployed, whichever of the two came with the same apply.
LeftToTimers ==
  [][\A u \in Units :
       /\ Kind[u] = "job" /\ disk'[u] # Absent /\ ~Asked(u)
       /\ Scheduled(u) /\ ~MistakesTimers(sha)
       => view'[u] = view[u]]_vars

\* When an apply is saved, a job without a timer, also one whose timer leaves the
\* Host in the same apply, was run if it or its image changed, on what is
\* deployed, or is on record as broken.
RunOtherwise ==
  [][pc = "save" /\ ~MistakesTimers(sha) /\ "status" \notin Faults[sha] =>
       \A u \in (ChangedUnits \cup BuildConsumers) \ broken :
         Kind[u] = "job" /\ Member[u] = NoUnit /\ Unscheduled(u) =>
           u \in restarted /\ Current(u)]_vars

\* A job is run by the timer that is deployed with it and by nothing else, and by
\* its apply where there is none, whatever timers come and go with it
\* (skipTimerTriggeredRestart, restartConsumer, restartableByHealth).
JobsAsScheduled == LeftToTimers /\ RunOtherwise

\* health.go: a pending unit that runs is cleared because it converged.
PendingConverged ==
  [][pc = "idle" =>
       \A u \in pendUnits \ pendUnits' : run[u] = "active" => Current(u)]_vars
=============================================================================
