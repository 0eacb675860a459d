# picolet in TLA+

picolet is a GitOps agent: one Agent per Host polls a git repository (the
Fleet), resolves the files the Host should have, applies the difference with
the files it deployed before, and keeps the systemd units behind those files
running. This directory holds its TLA+ specifications, the TLC configurations
that check them on small instances, and TLAPS proofs of what holds for every
instance.

| Module | Models | Checked by |
|---|---|---|
| `Reconcile` | the Agent's tick, apply, rollback and state file | `MCReconcile` + 4 configurations |
| `Deployment` | what the files of a Host promise: a whole commit, or no change | as a property of `reconcile_live` |
| `ReconcileProofs`, `DeploymentProofs` | theorems about `Reconcile`, and that it implements `Deployment` | TLAPS |
| `Applier` | the phases of an apply and what they do to running units | `MCApplier` + 2 configurations |
| `ApplierProofs` | theorems about `Applier` | TLAPS |
| `Health` | the health pass, its cooldowns and the pending record | `MCHealth` + 1 configuration |
| `HealthProofs` | theorems about `Health` | TLAPS |
| `Loop` | what wakes the loop, pause, MQTT status, start and shutdown | `MCLoop` + 1 configuration |
| `LoopProofs` | theorems about `Loop` | TLAPS |
| `Bootstrap` | bootstrap and teardown of a Host, its Agent and the lock between them | as part of `Machine` |
| `Machine` | the Machine command: plan, steps, interruptions, repeated runs | `MCMachine` + 1 configuration |
| `MachineProofs` | theorems about `Machine` (and so `Bootstrap`) | TLAPS |
| `AgentConfig` | which configs an Agent accepts, and the credential files they name | as part of `SelfConfig` |
| `SelfConfig` | which changes of its own unit and config an Agent may apply | `MCSelfConfig` + 1 configuration |
| `SelfConfigProofs` | theorems about `SelfConfig` and `AgentConfig` | TLAPS |
| `Sops` | the decrypting and the keyless reader of SOPS files, creation rules | as part of `Validator` |
| `Fleet` | Hosts, assignments, categories, destinations of a commit | as part of `Validator` |
| `Resolver` | how the files of a Host are rendered, by an Agent or without a key | as part of `Validator` |
| `BuildUnit` | the paths an image build reads | as part of `Validator` |
| `Validator` | the checks of a commit, and the Agents that resolve it afterwards | `MCValidator` + 2 configurations |
| `ValidatorProofs` | theorems about `Sops`, `Fleet`, `Resolver` and `Validator` | TLAPS |

The modules up to `Loop` describe one Agent at different levels of detail. `Reconcile` has every
save and every crash point, and one nondeterministic outcome for what hooks and
restarts do; `Applier` has the hooks and restarts, and takes the saves for
granted; `Health` has the time that passes between restarts, which the other
two leave out; `Loop` has the goroutines around the tick and reduces the tick
itself to polling and applying. `Applier`'s invariant `OutcomeAsInReconcile` checks that the
outcomes of the detailed apply are among those `Reconcile` assumes.
`Bootstrap` has what comes before the first tick, and reduces the Agent to start,
reconcile, die; `Machine` EXTENDS it with the command that bootstraps several
Hosts, and is what is run. `SelfConfig` EXTENDS `AgentConfig` and is about the
one unit and the one secret of a commit on which the Agent itself depends.
`Validator` EXTENDS `Resolver`, `Fleet` and `Sops`, in this order the layers of what
happens to a commit before `Reconcile` compares its files with the Host: there
`Fleet[sha]` is a constant, here it is computed.

`PROJECT.json` maps every definition to the lines of `src/` it models, and
lists the runs, the hazards of the code with the properties aimed at them, the
disagreements between documentation and code the runs exhibit, and the
theorems.

## The system

| Component (`src/pkg/...`) | State | Operations | Interacts through |
|---|---|---|---|
| Agent loop (`agent`) | in-memory flags (`opRefreshDue`, pause), `state.State` of the tick | `tick`, `ReconcileOnce`, `finalizeApply`, `savePartialState`, `retryPendingHooks`, startup | everything below; one goroutine, woken by a ticker or a one-slot webhook channel |
| State store (`state`) | `state.json`: applied SHA, Managed Files, failed-SHA gate, pending hooks and units | `Load`, `Save` (write, rename), `MarkApplied`, `ClearFailureGate` | read at the start of every tick |
| Git poller (`gitpoll`) | clone | `Init`, `Poll` | reports head and whether it differs from the applied SHA |
| Resolver, config, SOPS, secret providers | one resolve: refs collected on the first pass, what was read of them, the files built so far | expand, collect, batched reads, direct secrets, build, hooks | the commit, and the providers, which may change or fail meanwhile |
| Validator | Hosts still to resolve, readers of each SOPS file | `ValidateAll`, Agent bundles, audience, rules; the file checks are the Agent's too | resolves every Host without a key, in CI, before any Agent sees the commit |
| Agent self-configuration (`agent/selfconfig.go`, `agentcfg`) | none | `CheckSelfConfig`, `selfConfigRestart`, `Load`, `CheckStartup` | a guard of the tick; reads the unit on disk and the credential files its own container shows |
| Reconciler (`reconciler`) | none | `Diff` | desired files against the state's Managed Files |
| Applier (`applier`) | one apply | writes, deletes, hooks, daemon-reload, builds, restarts, deferred self restarts | systemd (D-Bus), Podman socket, files |
| Rollback (`rollback`) | snapshot of one apply | `CreateSnapshot`, `Restore` | files |
| Health (`health`) | cooldowns | `Enforce` | systemd, pending units of the state |
| Orphan scan (`orphan`) | none | `Scan` at startup | files and secrets nobody records |
| systemd client (`applier/systemd.go`) | D-Bus connection, reconnect cooldown | every unit operation with one retry | shared with the deferred self restarts |
| Webhook, HTTP, MQTT (`agent`, `mqtt`) | trigger channel, pause flag, retained status | trigger, pause, publish | Agent loop |
| Status (`status`) | last runs, events, dependencies | `ObserveRun`, `PruneRuns` | metrics, dashboard, MQTT |
| Bootstrap (`bootstrap`) | host lock, state store | install the Agent bundle, start it, wait healthy | lock and state shared with the Agent |
| Machine (`machine`) | Hosts of one Machine | evaluate, plan, run the plan, teardown | bootstrap of each Host |
| CLI, dashboard, metrics, GitHub | none | rendering and wiring | read the above |

What is hard about it: the Agent can die between any two steps, and what is on
the Host, in the state file and in memory then disagree; failures are counted
across ticks and restarts; hooks and units that failed are retried by later
ticks, while commits add and remove them; secrets change with no commit; the
Agent restarts itself in the middle of its own apply, with a unit and a config this
apply may have changed; a commit is judged by a validator that has no key, and
resolved by Agents that have one, in two passes between which a secret can
change. `PROJECT.json`'s hazards name the line where each of these bites.

## Module Reconcile

One Host. A destination path is a unit file, a data file (manifest or config
file) or a Podman secret; a content stands for its own hash. `Fleet[sha][v]`
is the file tree a commit resolves to when the secret providers answer `v`.

The variables: `head` and `vault` are the world, `disk` the Host, `saved` the
state file, `st` the state of the running tick, `target`, `todo` and `snap`
the reconciliation in progress, `pc` where the Agent's goroutine is:

    down --Start--> idle --Health--> poll --Resolve--> resolved --BeginApply--> apply --Activate--> save --> idle
                     ^                |                   |                       | fails
                     |  Noop, PendingUnitTick,            | ReconcileFails        v
                     +--GatedTick, SkipTick               +------> failed <-- rollback
                                                                   (RecordFailure -> idle)

Each action is one step the code can be interrupted in: one file or secret
written, one path restored, one save. `Push`, `Rotate`, `RefreshTimer`,
`GateExpires` and `Crash` are enabled at every point. A `Fault(k)` conjunct
marks a step that fails because the environment does. A behaviour chooses at its
start which kinds of faults it meets (`kinds`, a member of the constant
`FaultSets`) and which repository it follows (`Follows[sha]` are the commits that
can come after `sha`); `MaxFaults` bounds the faults of one behaviour. A fault that can have
taken effect before reporting an error (a write, a removal, the rename of a
save) has both outcomes.

`ReportedOnce` leaves out commits that change nothing: `ChangesFiles` compares a
commit with every other one.

Two things the code does are easy to overlook and matter below:

* a path is created, updated or deleted by comparing the wanted content with
  the Managed Files of the state file, never with the Host (`Changes`);
* `Podman` refuses to create a secret that exists unless the change is an
  update (`SecretExists`), and a rollback skips secrets (`RollBack`).

`Deployment` is the abstract specification: the files of the Host change only
as a whole, together with the record of the commit, from an attempt that began at
what was then the head. `DeploysAtomically` is `Promise!Spec`, with the refinement mapping of
`Reconcile`: `Settled`, the files on the Host outside an attempt and the recorded
ones during one, for the host; `Aim`, the target while it may still succeed, for
the attempt. The steps of an apply, and all of a failed one, are stutters; the
save is the deployment. It is claimed where `FilesMatchState` is, for behaviours
in which restores and saves succeed and the Agent does not crash: otherwise the
Host holds half of a commit, as the code accepts.

What Reconcile abstracts: how hooks and restarts come to succeed or fail is one
nondeterministic outcome per hook and unit (`Activate`); the health pass may
change the pending units of Managed units in any way (`Health`); file
ownership marks, dry runs, the Agent's own configuration check (a kind of
`ReconcileFails`), image pruning, metrics other than the last-successful
timestamp (`advanced`), and deployment reports other than the last one
(`reported`).

### Runs

| Run | Instance | Shows |
|---|---|---|
| `reconcile_state` | a repository of files, a secret and a hook; either faults of all 8 kinds or only resolve, apply, activate and crash; 2 faults, 2 pushes or rotations (491,996 states) | the state file stays coherent (`StateCoherent`: whatever is recorded as pending is managed, an applied SHA names what is managed) and hook retries stay in budget, whatever fails (`HooksAccounted`); no untracked file survives a failed or interrupted apply |
| `reconcile_live` | either a repository of units and files with poll, resolve, apply and activation failures, or one with a secret and a hook with poll and resolve failures (hooks and restarts can fail in both); 3 faults, 3 pushes or rotations (591,752 states) | the reconciliation implements `Deployment`; the Host converges; verified means deployed; a commit is reported once; pending hooks settle |
| `reconcile_stale` | one crash, one reverted commit | violation: a verified tick does not look at the Host |
| `reconcile_brick` | one activation failure after a secret was created | violation: the Agent never applies anything again |

Bounds. One unit, one data file, one secret and one hook whose triggers are
the secret and the data file: the code treats paths of one kind alike and one
at a time, and with one of each there are three writes whose order, failure and
rollback can differ. Three commits are the least with which a hook or unit can
leave the Fleet and come back while it is pending; `MaxPushes` 2 and 3 reach
those sequences. `MaxFailures` is the code's 3, so three faults arm the gate,
which the liveness runs have to get past. A hook's retry budget is 2, the
smallest with which "retried" and "exhausted" differ.

Fairness (`FairSpec`): the Agent's goroutine always continues (the ticker fires
forever and a tick does not block: every external call has a timeout), the
refresh interval elapses again and again, and the gate's hour passes. Nothing
is assumed of pushes, rotations or faults; they are bounded instead, which is
what "once faults stop" means.

`Converges` is stated where the code can keep it: in `reconcile_live` the
repository without secrets meets failures of every transient kind but no crash,
and the one with a secret and a hook meets no failed apply. The two
violations `reconcile_stale` and `reconcile_brick` are why: with a crash or a
created secret in a failed apply it does not hold.

## Modules ReconcileProofs and DeploymentProofs

Proved for any set of paths, commits, hooks, providers' answers and bounds,
from the named assumptions of `Reconcile` only:

| Theorem | States | Inductive invariant |
|---|---|---|
| `TypeCorrect` | `[]TypeOK` (which is in no run, as in every module where it is proved) | `TypeOK` itself |
| `StateCoherentAlways` | `[]StateCoherent` | `StateInv` |
| `HooksAccountedAlways` | `[]HooksAccounted` | `StateInv`, and `HooksInv` on top |
| `FilesMatchStateAlways` | `[]FilesMatchState`, whose own condition is that restores and saves succeed and nothing crashes | `MatchInv` |
| `NoOrphanFilesAlways` | `[]NoOrphanFiles`, whose own condition is that restores, saves and removals succeed; crashes anywhere | `OrphanInv` |
| `Refines` | `Spec` implements `Deployment` under the condition of `FilesMatchState` | `MatchInv`, one step of `Deployment` or a stutter for each action |
| `VerifiedIsAlwaysDeployed` | `[]VerifiedIsDeployed`, secrets included, if no restore, save or crash gets in the way and no apply that changes a secret fails | `MatchInv` and `SecretsInv` |
| `ReportedOnceAlways` | `ReportedOnce`, if saves succeed (`SavesSucceed`); anything else may fail, and the Agent die anywhere | `StateInv` and `ReportBook` |
| `VerifiedFilesDeployed` | whenever a tick advances the last-successful time, the files of the Host are those of the applied commit (same condition) | from `Refines`' invariants |

The state file alone is not inductive: what is saved next is the tick's state
in memory, so `StateInv` says of both `saved` and `st` that they are coherent,
and of a target that its files are what its SHA resolves to (the secret
version is whatever the providers answered at the resolve, hence the `\E v`).
`HooksInv` adds that a complete apply waiting to be saved has no hook pending.
`MatchInv` relates the Host to the state at every program counter: equal
outside an apply; during one, a path still to do has its managed content and a
path done the wanted one; during a rollback, a path still to restore has its
managed content in the snapshot and a path restored is back. `OrphanInv` is
the weaker form that survives a crash: at every point, an untracked file is
either one this apply is creating, one the snapshot remembers as absent, or
the Agent is down, and the startup scan removes it. The conditions are on
`kinds`, the faults of the behaviour: a failed restore leaves
the failed content, a failed save forgets an apply that happened.

`Refines` proves the safety of `Deployment` step by step: `Resolve` is `Begin`,
a successful save is `Deploy`, a failure `GiveUp`, a noop `Verify`, and every
write and restore leaves `Settled` as it is, which is what `MatchInv` says of
the path just written.

`SecretsInv` is `MatchInv` for secrets, and needs a hypothesis on the behaviour
and not on its faults only: a rollback does not put secrets back, so that
one failed apply that created or changed one leaves the Host with a secret no
record names (`[][SecretAppliesSucceed]_vars`; the run `reconcile_brick` is what
comes of it). `ReportBook` says that the last reported commit is the applied
one, or one that changed no file. It is lost with a failed save:
`savePartialState` and `finalizeApply` only log it, so that the deployment is on
GitHub and not in the state file, and the next tick reports it again.

What stays with TLC: liveness (`Converges`, `HooksSettle`) and everything under fairness;
TLAPS has no rules for `ENABLED`. There is no RECURSIVE operator in the
modules with proofs.

## Module Applier

One Host again, but its units run. `disk` are the files, `defs` the unit
definitions systemd loaded at the last daemon-reload, `run` the units' states,
`view[u]` what a running unit loaded when it was last started or reloaded
(definition, data files, image), `tag[b]` what build `b`'s image was last made
of. A change reaches a service when `view` catches up with `disk`.

The apply goes through the phases of `ApplyWithPending` and `restartUnits`:

    idle -Begin-> write -> hooks -> build -> activate -> restart -> consume -> save -> idle
           |        |        |        |                                          ^
           |        +--------+--------+--> rollback (files, daemon-reload) ------+
           +-> retry (only pending hooks: RunPendingHooks, restartFallbackUnits)

`SelfOp` is the goroutine that carries out the deferred operations on the
Agent's own units; it runs before or after the save, and a restart ends the
Agent (`AgentRestarts`, with the orphan scan of the next one). `Health` is one
unit of a health pass between applies, `Dies` a service that fails, `JobFails` a job
that fails when its timer runs it.

systemd is modelled by what the code relies on: a restart of a pod takes its
members along (`Starts`), starting a unit runs the builds it requires unless
told to ignore dependencies, stopping a pod stops its members, a unit
definition is what was loaded at the last reload, and a failed restart can
leave the unit in four ways (`RestartFails`: refused before it reached systemd,
failed, inactive after job result "dependency", started after the timeout).

A job is a one-shot container. Whether its timer runs it is no property of the job:
`Fires[t]` names the unit of timer `t`, and the code asks systemd, after the
daemon-reload, for the timers that name the job (`TimerTriggered`). It names those it
has loaded (`Present`, by the last reload) that are enabled or run (`Armed`), so that
the answer changes with the timers a commit adds and deletes, with an `enable` that
fails and with a rollback that is not reloaded. A changed job without a timer is
restarted like a daemon, and is over when it has run (`AfterStart`); one whose status
cannot be asked for is left alone as a changed unit (`StatusUnknown`) and counts as
broken as the consumer of a build. `view` of a job says what it loaded when anything but
its timer last started it; what its timer starts is left out but for the failure the
health pass meets.

| Run | Instance | Shows |
|---|---|---|
| `applier` | one of three Hosts. "rt", five commits: container, pod and member, a job and its timer, each without the other in some commits, provisioning one-shot, raw daemon, the Agent, five hooks; faults hook, died, timeout, crash, and status at one commit. "b", five commits: two builds from one context, consumers inside and outside a pod, a job among them whose timer comes and goes; faults write, stop, op, reload, build, dependency, selfop. "s", two commits: an app and its build, changed; faults write, restore, crash, consumer. 2 faults, 2 applies (554,548 states) | every change reaches its service (`ServicesCurrent`), images are current (`TagsCurrent`), daemons run (`DaemonsKept`), a job is left to the timer of the Host that fires it and run on a change where there is none (`JobsAsScheduled`), failed applies leave running units alone, the Agent is not touched in turn (`NotInTurn`) and leaves after its successor runs (`AgentLeavesLast`); and what an apply hands over is what `Reconcile` assumes (`OutcomeAsInReconcile`) |
| `applier_refused` | one restart that never reached systemd | violation: the health pass clears it as converged |

Bounds. A hazard here is a relation between two adjacent commits (what changed,
what was pending), so two applies from any commit of a small Fleet cover it;
the commits were chosen so that each pair changes a different combination of
unit, data, hook and build, and so that units appear and disappear. `Follows`
keeps a behaviour on the Host it began on, and `Faults[sha]` are the kinds this Host
meets. Two faults are enough for "a hook stays pending and then fails again" and "an apply fails
and its rollback fails".

What is abstracted: the state file's SHA and failure gate (they are
`Reconcile`'s); the deferred operation of one apply is over before the next
begins; hooks that cause the same effect deliver the files of all of them; one
step has one fault.

`ServicesCurrent` is stated where the code keeps records: no hook pending, and the
files those of the state file. It leaves out what nothing in the code records, by the
faults a commit can meet: everything, where a restart may be refused, a consumer's
status may not be known or the reload of a rollback may fail (`Forgets`: no later step
repeats any of it until the unit changes again); the data that hooks deliver, where an apply may fail after its hooks ran
(`FailsAfterHooks`: a rollback takes back the files, not the reloads); the Agent's own
units, where their deferred restart can fail (`LosesSelfOps`).
`NotInTurn` leaves out the fallback of a pending hook
(`restartFallbackUnits`), which restarts the Agent's unit in turn.
`FailedApplySparesUnits` leaves out units the commit deletes, which a failed build
leaves stopped. `DaemonsKept` is about commits at which nothing fails an
apply and every restart reaches systemd (`FailsApplies`): a restart that was refused
leaves a unit as it was, and the health pass takes an inactive one for one at rest.
`JobsAsScheduled` compares what the code learns from systemd with the
timers on the Host (`Scheduled`, `Unscheduled`). It leaves out Hosts where a rollback's
daemon-reload fails, after which systemd has other timers than the Host
(`MistakesTimers`). Its first half, `LeftToTimers`, leaves out jobs a hook or a pod starts, which the
code does not ask about (`Asked`); its second, `RunOtherwise`, those in a pod, and commits where the
status query may fail, on which the code leaves a changed job alone for good.

What is still to do in a phase is a set (`queue`), and each step takes one of it.
Only of the hooks does the order matter: `NextHook` takes the one of least
`HookRank`, the position in the Fleet's hook files, and among pending ones of least
`NameRank`, as `pendingHookNames` sorts them.

## Module ApplierProofs

Proved for any Fleet, units, hooks, builds, faults and number of applies, from
the module's four assumptions (members are containers or jobs of a pod that is there
whenever they are, consumers containers or jobs; the Agent's own units are containers
outside pods; no hook is about a build, and hooks of equal effect are about one unit):

| Theorem | States | Inductive invariant |
|---|---|---|
| `TypeCorrect` | `[]TypeOK` | `Typed`: `TypeOK`, and what a phase has still to do is some of what it set out to do |
| `OutcomeAlwaysAsInReconcile` | `[]OutcomeAsInReconcile`, the link to `Reconcile`'s `Activate` | `Booked`: failed hooks are about units no restart covers, no unit both restarted and broken |
| `AgentNotInTurn` | `NotInTurn` | `Typed` |
| `TagsAlwaysCurrent` | `[]TagsCurrent`, if builds keep their input files (`ContextsKeepFiles`) | `DiskBook` (the files are those of the state, but for what the phase wrote) and `TagBook` (tags are those of the snapshot, but for builds done) |
| `FailedApplyAlwaysSparesUnits` | `FailedApplySparesUnits` | `SpareBook`: up to the last thing that can fail, a daemon that stays and no hook is about is as it was |
| `ServicesAlwaysCurrent` | `[]ServicesCurrent`, with `ContextsKeepFiles` and `FaultsLast` | `CurrentBook`, below |
| `AgentAlwaysLeavesLast` | `[]AgentLeavesLast`, with `ContextsKeepFiles`, `FaultsLast` and `HarmlessBefore` | `KeptBook`, `CurrentBook`, and `GoneBook`: what the Agent left behind |
| `DaemonsAlwaysKept` | `[]DaemonsKept`, if faults that fail applies stay away from a commit and those before it (`HarmlessBefore`) | `KeptBook`: every daemon runs, or its start is still to come in this apply, by itself, its pod or its build |
| `JobsAlwaysAsScheduled` | `JobsAsScheduled`, if the reload of a rollback stays possible to a commit once it was before (`TimersKnownBefore`) | `KnownBook` and `RetryBook` (whenever a job could be started systemd has the units of the Host, and a pending hook restarts no unit but its own), `JobsRest` (no job stays active) and `JobBook`: every job the apply is to run ran with what is deployed, is on record, or its turn is still to come |

The hypotheses are what the proofs found the properties to need; the Fleets of the
run satisfy all four.

* `ContextsKeepFiles`: an Agent that ends between a build and the save leaves a new
  input file the state does not know. Its successor's orphan scan removes the
  file, the tag stays, and if the Fleet has meanwhile gone back, nothing changed and nothing
  rebuilds.
* `HarmlessBefore`: an apply that failed at an earlier commit may have left a
  daemon stopped; a later commit that does not change the unit does not start it.
* `TimersKnownBefore`: where a rollback's daemon-reload failed at an earlier commit,
  systemd still has that commit's timers, and the code believes it.
* `FaultsLast`: what is forgotten, lost or left behind at one commit outlives it, so
  a kind of fault that can happen at a commit counts at those that follow.

`CurrentBook` says at every point of an apply why each running daemon will end up
with what is deployed. `Base` are the files the Host has, or has again after a
rollback; `DataBase` the same for the data of hooks, which are not taken back.

* `RecordBook` and `DataBook`: a daemon whose file is that of the state file runs
  it, with the image of the recorded inputs, and with the recorded data unless a hook
  is pending that covers it. Stops, rollbacks and ends of the Agent keep this because
  they only ever change files the record does not have.
* `TurnBook`: from the builds on, a unit the apply is to (re)start is owed its turn
  (`Owed`: in its own right, by its pod, as the consumer of a build), has had it
  (`Fresh`), does not run, or waits for the Agent's deferred restart (`Resting`).
* `HookedBook`: a unit the apply does not restart has each file its hooks are
  about, or a queued or failed hook will deliver it. Skipping a hook is sound because of
  `ExecutedBook`: an effect that ran has reached the unit, is kept among the failed
  hooks, or the unit restarts.
* `PlanBook`: what the phases have cleared.

At the save `TurnBook` and `HookedBook` turn into `RecordBook` and `DataBook` of the new
record. The proof goes through what one step does to one unit: `StartMoves` (a start
leaves a unit as it was, stops it, or has it load what is there), `StartPays` (one that
systemd does not refuse does not leave it as it was), `AgentFinds` (what the
next Agent's orphan scan takes away) and `HookDelivers`.

## Module Health

The health pass of consecutive ticks, with time. Ages count up to `Cooldown`;
`Elapse` lets time pass between any two steps. `lastRestart` is the Agent's
memory, `st.pending` and `saved.pending` the age of the last attempt of each
unit on the pending record, in the running tick and in the state file; `tried`
(a history variable) is the age of the last attempt by this Agent's passes.
`Tick` loads the state, forgets units that left the Fleet and takes over the
record's attempts; `QueryFails`, `Settle`, `CoolDown` and `Retry` are the cases
of `enforceUnit`; `EndPass` saves a changed record; `Apply` is what an apply
adds to and takes from it. The record's times are whole seconds in the code and
exact here, so that a cooldown that comes from the record can be up to one
second shorter than modelled.

Run `health`: a daemon, an image pull and a timer's job, any of the Fleets they
can form, one apply, three faults (failing queries, units, restarts, saves,
crashes). Three faults are "the unit fails, its restart fails, the Agent dies";
units do not interact, and the third kind is there so that each case of
`enforceUnit` meets the others in one pass. `Cooldown` 2 gives "just tried",
"cooling" and "cooled".

Fairness: ticks follow each other (`WF(Agent)`) and time passes
(`WF(Elapse)`). `Recovers` and `PendingSettles` hold under it because the
faults are finite.

`HealthProofs` proves `TypeOK`, `CooldownHeld` and `OneShotsPendByApply` for any
units, kinds, cooldown and faults. For the cooldown the inductive invariant is
`Remembers`: the Agent's memory of a unit is never older than its own last
attempt and, for units the pass still has to visit, never older than the
record. For the one-shots it is `PassAddsDaemonsOnly`, which compares the tick's
record with the saved one in the middle of a pass.

## Module Loop

Three goroutines of the Agent, and the broker. `pc` is the loop: it starts,
ticks once, and then waits for the ticker, for a token in the one-slot channel
(`token`) or for its context to be cancelled (`stop`). A tick reads the pause
flag, polls, applies and publishes; the retained topics are reduced to the
state and the applied SHA, which are published one after the other. `replay` is
the MQTT client's callback after a connection comes up (subscribe, take the last
status, publish it); `Deliver` is its message handler.

A connection has two ends: `link` is what the client believes, `attached` what
the broker believes. A client can reconnect before the broker has noticed that
it was gone (its will is then published by the take-over, in `Connect`), or
think it is connected when the broker has dropped it. `subs` and `inbox` are the
broker's session, which survives a lost connection and expires
(`SessionExpires`). A shutdown publishes "offline" and disconnects
(`Farewell`, `Disconnect`), but the client library closes the connection as well
when the context it was started with is cancelled (`ContextCloses`); a clean
disconnect discards the will.

| Property | Says |
|---|---|
| `TriggersCovered` | a trigger merged with another is followed by a poll all the same |
| `RetainedConverges` | the pause flag ends as the retained message (`PauseArrives`), and the retained status as the Agent's, whatever wills and replays overtook (`StatusConverges`) |
| `OfflineWhenGone` | an Agent that is gone is shown offline |

Bounds of the run `loop`: one commit, one message, two faults, two starts. One
commit makes the status change once, so that an old and a new status can
overtake each other; two faults give a lost connection with a slow or lost
connection during its recovery, and a crash with one of either; the second start
is the Agent that finds its predecessor's connection, session and retained
topics. The fault kind "subscribe" is left out: a subscribe that times out on a
connection that stays up is not repeated, so that `PauseArrives` fails until the
next connection.

Fairness: the loop continues (`WF(Tick)`), the client reconnects and its callback
ends (it has a timeout), messages on a live connection arrive, both ends notice a
dead connection (keep-alive). `SF(Done)`: Go's `select` chooses at random among
what is ready, so that a cancelled context cannot lose against ticks for ever.
`missed` is a history variable: the farewell failed, came after the connection
was closed, or was overtaken by a replay. Nothing can be claimed then;
`polled` counts a paused tick as having dealt with its triggers, which is what
the code does.

`LoopProofs` proves `TriggersAlwaysCovered`, `[]TriggersCovered`, for any bounds. The invariant needs only
`Past` beside it: nobody asks for a commit that has not been pushed, so a poll
covers every earlier trigger. `TypeCorrect` is `[]TypeOK`, with `Published`: a
tick has a status before it publishes one, and a replay says "sha" only if it holds
one, so that no topic ever shows a SHA that is not there yet.

## Modules Bootstrap and Machine

`Bootstrap`: what can write to a Host. `boot[h][s]` is a process that installs
or removes the Agent of Host `h`, in one of two slots: "run" is the one the
Machine command waits for, "alone" is an operator's own `picolet bootstrap`, or
the process of an abandoned container that goes on after its command was
interrupted. Its program counter follows `bootstrap.Run`:

    status -> guard -> stop -> lock -> apply (one path at a time) -> save -> start -> wait -> ok
       |        |                                                             ^
       +--------+------------------> lock             (each step can end in "failed")

The files of a Host are `disk`, those the state file records `record`; "config"
is the Agent's configuration (a Podman secret, which is refused when it exists
and is not recorded), "quadlet" its unit, and "app" everything the Agent
deploys later. A bootstrap compares and writes the first two (`InScope`), a
teardown removes all. `lock` is `reconciliation.lock`: `AcquireLock` does not
wait, and the kernel releases it when its holder ends. The unit has
`Restart=always` in the reference Fleet
(src/deploy/fleet-repo/services/picolet/picolet.container.tmpl), so an Agent
that finds the lock held, or no credential, is started again until it gets both.

`Machine`: `run` is the command. Its plan is a set of steps, one per Host and
kind, and `Precedes` is the order of `Run`: phase by phase over all Hosts,
within a phase Host by Host. Each step is checked and, if its end state does
not hold, applied; a failure stops the Host (`run.stopped`) and no other. A
written credential is a restart owed (`run.required`), paid by the bootstrap
phase (`run.restarted`) or named in the summary (`told`), after which the
operator restarts the Agent. `Interrupt` cancels the context: the step under
way may have been applied, and the rest is not begun. `TearsDown` is the
teardown command.

| Property | Says |
|---|---|
| `OneWriter` | one process at a time writes files and state file |
| `AgentKnowsItsHost` | an Agent that runs finds a state file that describes its own files |
| `CredentialsReach` | between runs, an Agent with an old credential has been named in a summary |
| `StaysInScope` | a bootstrap leaves what the Agent deployed, and its records, alone (`OthersSpared`), and a finished teardown leaves nothing that was recorded (`TornDownIsGone`) |
| `SecondRunIdle` | a run on a Machine that is up changes nothing and restarts no Agent |
| `Resumes` | runs that are repeated bring up every Host, wherever between two steps the earlier ones were interrupted and whichever step failed |

| Run | Instance | Shows |
|---|---|---|
| `machine` | a rootless and a rootful Host with 1 fault and 1 event, or the rootless one alone with 1 fault and 2 events | the properties above |

Bounds. Hosts interact only through the order of the plan and the steps that
are skipped, and through the checkout, which they share; two of them, one of
each kind, meet all of it. A fault is a failing step of a run or of a
bootstrap (`Kinds`); an event is a commit, a rotation, an interruption, a
teardown, a run on an old checkout, or an operator's own bootstrap. The pair of
events (a rotation, then an interruption; a teardown, then a bootstrap) is given
to one Host, where it is about that Host's state; a commit and a version of a
credential each cost an event, so that `MaxEvents` bounds both, and the theorems
below show that they suffice. The kind "later", an apply that ends after some of
its changes, is left out of `Kinds`: with it `Resumes` is false (see the known
divergences).

Fairness: the command goes on and is run again, processes, Agents and user
managers run, and the operator restarts the Agents a summary names. Nothing is
assumed of commits, rotations or interruptions.

What is abstracted: the cache of host facts (it is forgotten after every
applied step, so it cannot be stale when a check reads it); the reading of
credentials from their providers; `--plan` and the checks before the first
step; the directories, owners and modes that one step puts in place. A bootstrap
whose files differ from those of a running Agent is refused without
`--allow-restart`, so that a run on an old checkout fails for the Hosts that are
ahead of it (`Guard`); `StartRun` has that case. Not modelled: a hard kill of the command, which prints no summary and so
loses the restarts it owed; a kill between the mkdir and the chown of a parent
directory; a reboot; a check that fails on a step that is already done.
`TornDownIsGone` leaves out the service itself: a bootstrap that is past its
lock when a teardown begins starts the unit without the lock.

`MachineProofs` proves, for any Hosts, files, budgets and kinds of fault:

| Theorem | States | Inductive invariant |
|---|---|---|
| `TypeCorrect` | `[]TypeOK` | `Typed`: `TypeOK` and `Counted` |
| `WritersAlone` | `[]OneWriter` | `Guarded` |
| `NoRestartLost` | `[]CredentialsReach` | `Tracked` |
| `AgentAlwaysKnowsItsHost` | `[]AgentKnowsItsHost`, if no apply ends in its middle (`WholeApplies`) | `Guarded` and `Coherent` |
| `OthersAlwaysSpared` | `OthersSpared`, the first half of `StaysInScope` | `Typed`, `Guarded` and `Coherent` |
| `AlwaysStaysInScope` | `StaysInScope`, with `TornDownIsGone` if no apply ends in its middle | the same |
| `SecondRunAlwaysIdle` | `SecondRunIdle` | `Typed`, `Guarded` and `RunBook` |

`TypeOK` bounds the commits and credential versions, which a step may raise;
`Counted` says that what they are and the events left add up to no more than the
behaviour began with. `OneWriter` speaks of two processes, each of which acts
without looking at the other; `Guarded` ties each to the lock it took: whoever
is past `AcquireLock` is its holder. `CredentialsReach` speaks of idle commands
only; `Tracked` says at every point that an Agent with an old credential is
owed a restart by the run under way or was named by an earlier one, and so
survives each way a run can end. `Coherent` says what each process at its program
counter has read, wants and has written, and with `WholeApplies` (the kind
"later" is not in `Kinds`, as in the run `machine`) that the state file describes the Host but
for the writes of the one process that holds the lock. Without it both properties
are false: an apply that ends after its first write is not recorded. `RunBook`
says which steps a run can have left: those its Hosts need, and a bootstrap it already
restarted only while it waits for it. `Resumes` is liveness and stays with TLC. Assumed are `BootstrapAssumption` and
`MachineAssumption`, which TLC evaluates.

## Modules AgentConfig and SelfConfig

`AgentConfig` is `pkg/agentcfg`: which configs parse and validate (`Load`), which the
Agent starts with (`Starts`), and which the self-configuration check accepts before they are
installed (`CheckRenderedConfig`). A config is the set of settings it gives, the
host and port it listens on, the paths of its credential files and whether they are
absolute; `Credentials` and `PathOf` say which files it names, `Under` when one lies
in a directory of another. `Overlap` compares the paths as they are spelled; that the
code also takes two paths for one when links make them the same file on the disk
(`os.SameFile`, src/pkg/agentcfg/credentials.go:200-216) is left out, there are no
links here.

`SelfConfig` is `pkg/agent/selfconfig.go` and `unitmounts.go` as what they are,
the guard of a tick.

| Variable | Code |
|---|---|
| `head`, `record`, `disk` | the commit, Managed Files of the state file, files and Podman secrets of the Host |
| `loaded` | the unit file systemd has loaded for the Agent's service |
| `stored`, `pulled` | credential files in Host directories and volumes, and in the images of image mounts |
| `run`, `agent` | the Agent's container: its unit, the config it has read, secrets and images as they were when it started, files in its tmpfs; and whether it runs |
| `applying`, `target`, `before`, `restart` | what an apply has left to write, its commit, what it found, and whether it wrote the Agent's unit or config |

`Tick` applies the head if `Allows` accepts it, `WriteNext` writes one destination in
the order of the categories, `Finish` ends the apply with daemon-reload and the
deferred self-restart, `Fails` rolls back all but the secrets,
and `Ends` is every way for the
process to end in between: a crash, a restart by hand, a reboot, where the latter
also loads the unit that is there. `Starting` makes the container of the loaded
unit, or the Agent `Exits`. Around it, `Push` is a commit, `Deliver` an
Operator's credential, `WriteInside` a file put into the container, `Repull` a
new image behind an unchanged line, and `EditUnit` the edit by hand that the
guard's refusal asks for.

`Allows` is `CheckSelfConfig` in its order: without a quadlet for the service,
`AgentServiceKept`; with one, a single unit of this service, frozen lines as they
are, no mounted secret or volume deleted, and a config that `CheckRenderedConfig`
accepts, as a container of the next unit will see its files. That view, `SameView`, is
what the module is about: the guard runs inside the old container and has to say
what a new one will see.

| Property | Says |
|---|---|
| `NextStartReady` | whenever the process ends, also between two writes, the next start finds a unit with all its sources, a config that loads and each credential it names; a commit never locks the Agent out |
| `FrozenByHost` | mounts, identity and config path of the loaded unit change only by an Operator's hand, through renames, crashes and rollbacks |
| `RunsTheFleetsUnit` | an idle Agent is started from the one quadlet of its commit, whatever aliases and names other units claim |
| `ConfigTaken` | an idle Agent runs with the Fleet's config, or is about to apply it: the guard refuses no more than it must |
| `RunningConfigSound` | an Agent runs with at most one way to log in to git, and a complete one (`OneGitLogin`), on a port that exists and that its own clients dial (`ServerReachable`), with no two credentials in the same file or one inside the other (`CredentialsApart`) |

The run `selfconfig` (310,209 states) has eight families of commits, `Scenarios`, each
varying what one part of the guard looks at: logins (every subset of tokens
and App settings), listens, shared paths; a token under every kind of mount and in the image (paths);
`--volumes-from`, a mount at a specifier target, relative paths and configs
that do not parse (from); two quadlets and a raw unit that claim the service by name
or alias (units); mounted sources that come and go (sources); a Fleet that gives the
Agent up (leave). Three events and one fault: what the guard can get wrong is a
relation between the commit an Agent runs, the one it is given, and one thing
that changed between them, and the fault ends or fails the apply at each of
its writes. The single-setting families have one commit and no fault, as their checks look at one
config alone. There is no fairness, as the properties are safety.

Assumed, as the source's own README does (src/README.md:446-480): the container
was started from the quadlet on disk, so `EditUnit` restarts the Agent; an
Operator's quadlet starts; a config that is not a secret of the Fleet is not looked at; settings other than files and
addresses are not tried. `Push` waits while an interrupted apply is made
good, since what it leaves behind belongs to `Reconcile`.

`SelfConfigProofs` proves, for any units, configs, commits and faults, from
`SelfConfigAssumption` (unit files are no secrets, every commit gives each
destination a content or `Absent`, and each unit file one of the known units; an
Operator's edit is a unit of the service):

| Theorem | States | Inductive invariant |
|---|---|---|
| `RunningConfigSoundAlways` | `[]RunningConfigSound` | `Loaded`: what runs was loaded; the three parts follow from `Load`, by lemmas on the cardinality of the logins (`LoadedLogin`), the addresses and the pairwise overlap test |
| `TypeCorrect` | `[]TypeOK` | `Typed`: an apply under way belongs to an Agent that is up, which belongs to a container |
| `UnitAlwaysFrozen` | `FrozenByHost`, with `NoOtherService` | `UnitKept`: the state file has exactly one quadlet of the service, and it, the file on disk and the unit loaded agree on the frozen lines, at every write of an apply or a rollback |
| `AlwaysRunsTheFleetsUnit` | `[]RunsTheFleetsUnit`, with `NoOtherService` | `Typed` and `UnitKept` |
| `ConfigAlwaysTaken` | `[]ConfigTaken`, with `NoOtherService` | `UnitKept` and `Whole`: while nothing was cut short, disk, record and what runs differ only by what the apply under way has still to write, or to restart |

`NoOtherService` says that a commit which unassigns the Agent's bundle and has no
quadlet of its service has no other unit file of it either. The guard does not look
at such a commit (`CheckSelfConfig` returns early), so a raw unit that claims the
name would come through; every commit of the run satisfies it. `NextStartReady`
stays with TLC: it is about what a start reads from the Host's directories,
volumes, images and secrets after any prefix of an apply, and it holds for one fault
(the run's bound) but not for two (see the known divergences), so that no theorem
for any number of them can state it.

## Modules Sops, Fleet, Resolver, BuildUnit and Validator

What happens to a commit before any Host compares it with its disk. Each module is a
layer and is mostly operators; the state is in `Resolver` and `Validator`.

* `Sops` (`pkg/sops`): the Agent's decrypting reader (`Decrypted`), the keyless one of
  validate and bootstrap (`Keyless`), key groups with Shamir thresholds, pointers into the
  tree, creation rules (`RuleClass`). A file lists the keys it claims to be
  encrypted to (`groups`) and those its ciphertext opens with (`sealed`), which differ
  if it was edited by hand.
  The errors of reading the rules file itself (a link, a file
  that does not parse) are left out.
* `Fleet` (`pkg/config`, the expansion in `pkg/resolver`): which commits load, the merge of a
  Host's assignments, bundles and paths, categories, destinations and their collisions.
* `Resolver` (`pkg/resolver`): a resolve as a process: `ExpandAndValidate`, `Collect` (the
  first pass), `ResolveCache` (one batched call per provider), `ResolveDirectSecrets`,
  `BuildFile` for each file in order (the second pass), `BuildHooks`, then the checks.
* `BuildUnit`: which context and Containerfile a `.build` unit makes Podman read.
* `Validator` (`pkg/validator`): `LoadFleet`, every Host without a key
  (`ValidateHost`), every bundle strictly (`ValidateAgentBundle`), the passes over SOPS files;
  afterwards Agents resolve the commit (`AgentResolves`) and check its files
  alike (`Analyze`).

| Variable | Code |
|---|---|
| `F` | the commit, chosen by `Init` |
| `vault`, `faults` | the version of each 1Password and Proton Pass secret, provider calls that failed |
| `ci` | how far validate is: Hosts to do, who reads which SOPS file, Hosts that did not resolve, whether anything was wrong |
| `run` | the resolve under way: refs collected, providers resolved, values read, files built, SOPS files reached and decrypted, the error |

The hard part is that a template is rendered twice, and not to the same calls: a
call may depend on a value (`when = "value"`, pending on the first pass), on the units the first
pass found, or name a ref that was itself read. Between the passes a provider may
rotate a secret (`Rotate`) or fail.

| Property | Says |
|---|---|
| `ValuesRendered` | a collected ref has one value in all files (`CollectedOnce`), no file holds a first-pass placeholder (`NoPendingRendered`), a bootstrap bundle holds no value or placeholder of one (`BootstrapHoldsNoValue`), and an Agent renders its SOPS values or nothing (`AgentRendersValues`) |
| `SecretsContained` | no provider's value is in a unit, through any chain of included templates, nor in an error beyond what a parser quotes of a vault's value, nor in a file whose hash is shown |
| `DoneIsComplete` | a resolve that ends well built every assigned file once, each to its own destination; only direct secrets of an unconfigured provider may be missing |
| `ReferencesFound` | quadlets that name only each other are converted in whatever order (`CrossReferencesConvert`), and a build finds the Containerfile the Fleet delivers (`BuildsFound`) |
| `ValidatedResolves` | what validate accepts, an Agent with its declared identity and all providers resolves, unless a provider, a secret file of the Host, tampered ciphertext or a vault call's argument that validate never looked at (`Unchecked`) fails it |
| `ValidatedAudience` | validate passes only if every SOPS file is encrypted to Operators and to Hosts that are assigned a use of it, and to no one else |

| Run | Instance | Shows |
|---|---|---|
| `validator` | six families of commits with two Hosts of one Machine: template bodies in every category and nesting, with every set of providers and identities (render); direct secrets; recipients, readers and rules of a SOPS file (audience); units that name units, some missing (naming); builds; and commits that do not load, expand or hold what they claim (odd). One rotation, one failed call (851,347 states) | the properties above |
| `unconfigured_skipped` | the same | violation: a direct 1Password secret without a provider is not skipped but built empty, unlike the comment on `batchResolveDirectSecrets` says |

Bounds. Templates are at most three deep, so that `MaxDepth`, 10 as in the code, is reached only
by the one that includes itself. One rotation and one failure suffice, as a
resolve calls each provider once per pass, and what matters is whether they fall
between the two. Resolves do not overlap: each begins from its own record
(`Begun`), and shares only the commit and the vaults with others.

What is abstracted: a template is the sequence of its provider calls, text
functions (indent, glob, concatFiles) are left out; ciphertext is whether it opens,
is well-formed and matches its MAC; what a YAML or unit parser finds is an
attribute of the file (`check`); a file's content is the set of values in it.

## Module ValidatorProofs

Proved for any commits, keys, vaults, template depth, rotations and failed
calls, from two assumptions on commits, which TLC evaluates for those of the run.
`ResolverAssumption` says what a commit is by construction (`FleetWellFormed`: a Secret
Reference is no path, a template's calls are a sequence, an entry lists files of the
tree). `ValidatorAssumption` says which units a unit can name in Quadlet's syntax
(`UnitsWellFormed`: a network or an image names no unit, a volume only images and
builds, and no unit names a kube; the order of conversion is right only because of it) and
that the key groups of a SOPS file are a sequence:

| Theorem | States | Inductive invariant or argument |
|---|---|---|
| `KeylessNeverStricter` | what an Agent with a Host's identities reads, validate accepts | opening groups only grows with the keys (`ReachGrows`), both readers find the same node (`SameNode`) |
| `KeylessAcceptedIsRead` | what validate accepts, the Agent reads, but for ciphertext edited after it was listed | the same |
| `ResolvesInOrder` | `[]ResolveInv` | itself: `Shape`, `Gathered` and `Contained` |
| `ValuesAlwaysRendered` | `[]ValuesRendered` | `ResolveInv` |
| `SecretsAlwaysContained` | `[]SecretsContained` | `ResolveInv` |
| `DoneIsAlwaysComplete` | `[]DoneIsComplete` | `ResolveInv` and `CompleteInv` |
| `ReferencesAlwaysFound` | `[]ReferencesFound` | `ResolveInv`, `CompleteInv` and `BuildsFound` itself |
| `ValidatedAlwaysResolves` | `[]ValidatedResolves` | `ResolveInv`, `ValidateInv`, `CompleteInv`, `OutcomeInv` and `HostsAccepted` |
| `ValidatesInOrder` | `[]ValidateInv` | itself: `ReadsAssigned`, `Told`, `Charged`, `ValidatedAudience` |
| `AudienceAlwaysValidated` | `[]ValidatedAudience` | `ValidateInv` |
| `TypeCorrect` | `[]TypeOK` | `ResolveInv` and `ValidateInv` |

`Shape` says how far a resolve is and which files are left, `Gathered` that the cache
holds exactly the collected refs of the providers resolved so far, each with a value
of its own ref, and `Contained` what a built file and an error may hold. The last two
need each other: a file on the second pass holds a value of the cache, or one its
provider gave when it was called, which is late and so never of a collected ref.
`CompleteInv` says of every file no longer to be built that it was built once
or is a direct secret of a vault without a provider, and, as long as no provider gave
values, that every one whose turn has passed is (`GivenOrSkipped`): `BuildDirect`
skips a ref only if no provider gave any. Its destinations are distinct as
`OneFilePerDest` derives from `Collides` and the categories of paths.
`ReadsAssigned` bounds what validating a Host reads by what its templates name, and
`Told` carries that from one Host to the pass over the audience.

Two lemmas are about the operators. A template's calls are folded, and `Flat` recurses into
the templates they include. `Induction` (the least counterexample, by
`NatMin`, from the library's well-foundedness of the naturals) shows that such a fold
is the last element of a chain (`ChainUnfolds`, `RenderUnfolds`) and that its result
is a sequence of calls the templates make (`FlatIsSequence`); `ApplySound` is the step of one
call, and `RenderOrReadSound` what a whole file then holds. For this `Flat` takes the
commit as a parameter and is a recursive function over template and depth.

`ReferencesAlwaysFound` rests on what the five passes of the conversion compute:
`Ranked` says by unit, without the fold, what is known after each pass (`ConvertedIs`), and
`NamedIsConverted` goes through the types of unit in conversion order. That each
file is built once (`CompleteInv`) is why the units known are those of the Host's files. For
builds, `RelativeFileTried` shows that the paths Podman tries are refused
(`MissesContainerfile`) unless the one the property names is delivered.

`ValidatedAlwaysResolves` compares two resolves of one Host, of which the state holds
only one at a time. `Accepted(h)` is what they share: what validate finds of Host `h`,
said of the commit alone, call by call and file by file, without a resolve of it. The
proof has two halves. A resolve for validate that ends well found its Host accepted
(`Ends`), so that a commit that passes has only accepted Hosts (`HostsAccepted`). An
Agent's resolve of an accepted Host fails only for what the property lists (`FailsFew`).
Both hold by `OutcomeInv`, which relates each built file to what its calls come to:
`ApplyFollows` is the step of one call, `ValidateCall` and `AgentCall` what it comes to for
either, `KeylessReadIsRead` that the two readers agree and render nothing of the same
refs. The units are the delicate part, as a call may depend on them: `FindsUnits` says
which ones the first pass finds. Validate, which needs no secret file, finds all that any
resolve of the Host finds (`FoundUnits`), and an Agent that built every file has none of
its secret files missing, so that it found them all, too (`AnalyzeAgent`).

## Plan

Done: all modules above and their proofs. In the order of what would add most:

1. `DBus`: `withReconnect` under concurrent callers (health pass, apply, deferred
   self-restart), one connection and one reconnect cooldown; composed with `Health`,
   whose queries go through it.
2. The command line's `apply`, and `systemctl` by hand, as further writers beside the
   Agent and `Bootstrap`, on the same lock.
3. `Prune` (the interval gate and failure cooldown of image pruning) and `RunStatus`
   (last-success bookkeeping of timer jobs), on the clock of the health pass.
4. `Validator` composed with `Reconcile`: the resolve in place of the constant
   `Fleet[sha]`, so that a failed-SHA gate meets a secret that rotates mid-resolve.

## Known divergences without a run of their own

Met while modelling; the models follow the code. (Those with a run are the
findings of `PROJECT.json`.)

* A bootstrap whose apply ends in its middle, after it created the config secret,
  cannot be resumed: the secret is not recorded (src/pkg/bootstrap/bootstrap.go:224-227),
  and Podman refuses to create it again, so that every later run fails, although
  README.md:143-144 says that an interrupted run resumes. `Resumes` is violated
  with the fault kind "later" of `Bootstrap` (`Kinds` {"later"}, one Host, one fault, no
  event). The cause is that of the finding of `reconcile_brick`.
* A failed build leaves the units the commit deletes stopped, while the comment on
  the build phase (src/pkg/applier/applier.go:779-780) says a failure leaves the
  running units alone: they were stopped in the write phase. Services its hooks
  reloaded keep the failed commit's data, and if the Fleet goes back, no change is
  left to run a hook for (`Applier!FailsAfterHooks`; without that exemption TLC
  finds `ServicesCurrent` violated by a daemon-reload that fails).
* A rollback whose daemon-reload fails leaves systemd with the failed commit's
  units; a restart before the next change of a unit file loads them
  (`Applier!Forgets`), and which timer fires a job is answered for that commit
  (`Applier!MistakesTimers`).
* A changed one-shot whose status cannot be asked for is left alone and recorded
  nowhere, so that one no timer fires does not run until it changes again
  (`Applier!StatusUnknown`).
* README.md:1473-1474 says a unit leaves `pending_units` once it is observed
  healthy or removed from the Fleet; `enforceUnit` also removes an inactive one
  (`Health!Settle`), which a restart with job result "dependency" leaves behind.
* README.md:1468-1469 says the last-successful timestamp does not advance while
  a restart is pending; a commit that changes nothing on the Host advances it
  (`Reconcile!NoChanges`) whatever units are pending.
* `restartFallbackUnits` restarts the Agent's own unit without deferring it
  (`Applier!RetryRestart`).
* A retry of pending hooks on a new commit that changes nothing on the Host
  reports a deployment and leaves the commit unrecorded, so that the next tick
  reports it again (`ReportedOnce` in `reconcile_live` is about commits that
  change files).
* The comment in `Run` says that `Close` gets a context that is not cancelled "so
  Close() can publish offline state even during shutdown"
  (src/pkg/agent/agent.go:303), but the connection itself is started with the
  context whose cancellation ends the Agent, and autopaho disconnects when that
  happens. If it does so first, the farewell fails, the will is discarded, and
  the retained state stays "running" (`Loop!ContextCloses`).
* The callback that subscribes returns on an error because the "connection [is]
  likely broken, retry on next connect cycle" (src/pkg/mqtt/mqtt.go:140); a
  subscribe can also time out on a connection that stays up, and then pauses and
  triggers are not heard until it breaks (the fault kind "subscribe" of `Loop`).
* An Agent that ends between a build and the save leaves the image of that build
  tagged; the orphan scan of the next start removes an input file only the lost
  commit had, and if the Fleet returns to the old commit, `triggeredBuilds` sees no
  change: the image stays that of the lost commit (`ContextsKeepFiles` of
  `ApplierProofs`), although restoring tags is what `restoreTags` is for.
* `NextStartReady` is false with two faults. A commit renames the Agent's quadlet;
  the process is killed after the old file was deleted and before the new one is
  written, and starts again from the unit systemd has loaded; the next apply of the
  commit fails, and its rollback restores what its snapshot found, neither file.
  After its daemon-reload systemd has no unit for the Agent until an apply succeeds
  (`SelfConfig!Ends`, then `Fails`; `MaxFaults` 2 shows it).
* A commit that unassigns the Agent's bundle may deliver a raw unit of the
  Agent's service name, which `CheckSelfConfig` does not see (`NoOtherService` of
  `SelfConfigProofs`).
* `picolet validate` has no reader for 1Password and Proton Pass, and `prepareCall`
  returns for a missing reader before it looks at the reference: a call whose argument
  is no reference of its vault passes validate, and fails every Agent that has
  the provider (`Unchecked` of `Validator`).
* A save that fails after a deployment was reported is only logged, and the next
  tick reports the deployment again (`SavesSucceed` of `ReconcileProofs`).
* A restarted Agent whose Host is paused runs its first tick, and may apply a
  commit, before the retained pause message has arrived.

## Not modelled

* Run status store (`pkg/status`): bookkeeping for metrics and the dashboard, behind
  one mutex, which nothing the Agent decides reads.
* Metrics, dashboard, the readiness and failure counters behind `/health`: they read
  state modelled elsewhere and change none of it.
* Image pruning: one call to Podman at most once per interval, whose result changes
  nothing the Agent reads.
* Command line (`cmd`, `pkg/cli`): flags and wiring; what the commands do is in
  `Applier`, `Validator`, `Bootstrap` and `Machine`. Interactive prompts, plan-only
  output and tables are text.
* Rendering of templates, YAML and unit-file parsing, diffs shown to users, the
  recognition of picolet's own files by header or label: functions of their input with
  no behaviour over time; models take their outcome as an attribute.
* Cryptography: age, SOPS' MAC, GitHub App tokens and webhook signatures are taken
  as working; a trigger the webhook's rate limit refuses never reaches the loop.
* GitHub, 1Password, Proton Pass, Podman, systemd, the MQTT broker and go-git are
  outside the repository. They are modelled by what the code does with their
  answers: a call fails, times out, returns another version, or reports a job result.
* The MQTT client of the trigger command, which connects, publishes once and leaves.
* Liveness of `SelfConfig` and `Validator`: a resolve is a call that returns, and
  whether an Agent that exits is started again is systemd's.
