----------------------------- MODULE Bootstrap -----------------------------
(***************************************************************************)
(* What can write to a Host: its Agent, and the processes that install or  *)
(* remove the Agent (`picolet bootstrap`, `bootstrap teardown`).  They     *)
(* exclude each other by one non-blocking file lock, and hand over through *)
(* the state file: the bootstrap seeds it with the Agent's own files, and  *)
(* the Agent it starts goes on from there.                                 *)
(*                                                                         *)
(* A Host's files are the Agent's config (a Podman secret), its quadlet,   *)
(* and "app", which stands for all the files the Agent deploys beside its  *)
(* own.  The Agent's reconciliation is one step here; module Reconcile has *)
(* its details.                                                            *)
(***************************************************************************)
EXTENDS Naturals

CONSTANTS
  Hosts,            \* the Hosts of the Machine
  Bundle,           \* Bundle[c]: the files of a Host at commit c
  Contents, Absent,
  Slots,            \* processes that can run beside each other on a Host
  Kinds,            \* the kinds of fault of a run
  MaxFaults,        \* bound on faults
  MaxEvents,        \* bound on what operators and commits do
  Budgets           \* Hosts of the Fleet, with the faults and events they get

Commits == 0..MaxEvents          \* in the order they are pushed
Creds   == 1..(MaxEvents + 1)    \* versions of a credential file
NoCred  == 0                     \* no credential file
Scope == {"config", "quadlet"}   \* files of the Agent's own bundle
Paths == Scope \cup {"app"}
Tree  == [Paths -> Contents \cup {Absent}]
Empty == [p \in Paths |-> Absent]

ASSUME BootstrapAssumption ==
  /\ Absent \notin Contents
  /\ Bundle \in [Commits -> [Paths -> Contents]]
  /\ "free" \notin Slots /\ "agent" \notin Slots
  /\ MaxFaults \in Nat /\ MaxEvents \in Nat
  /\ Budgets \subseteq [hosts  : SUBSET Hosts,
                         faults : 0..MaxFaults, events : 0..MaxEvents]

VARIABLES
  head,      \* tip of the Fleet
  checkout,  \* commit of the checkout on the Machine
  disk,      \* disk[h]: files and Podman secrets of the Host
  record,    \* record[h]: Managed Files of the state file
  loaded,    \* loaded[h]: systemd has loaded the Agent's unit
  unit,      \* unit[h]: the Agent's service
  lock,      \* lock[h]: holder of reconciliation.lock
  source,    \* source[h]: the valid credential, as the operator has it
  cred,      \* cred[h]: the credential file on the Host
  read,      \* read[h]: the credential the Agent read when it started
  boot,      \* boot[h][s]: the bootstrap or teardown in slot s
  hosts,     \* the Hosts the Fleet has on this Machine
  faults,    \* faults and events that are left
  events

fleetVars == <<hosts, head, checkout>>
hostVars == <<disk, record, loaded, unit, lock>>
bootVars == <<head, checkout, disk, record, loaded, unit, lock, source, cred,
              read, boot, hosts, faults, events>>

Proc == [pc    : {"none", "status", "guard", "stop", "lock", "apply", "save",
                  "start", "wait", "ok", "failed"},
         mode  : {"bootstrap", "teardown"},
         force : BOOLEAN,          \* --allow-restart
         quick : BOOLEAN,          \* --skip-health-wait
         want  : Tree, todo : SUBSET Paths]

NoProc == [pc |-> "none", mode |-> "bootstrap", force |-> FALSE,
           quick |-> FALSE, want |-> Empty, todo |-> {}]

BootTypeOK ==
  /\ head \in Commits /\ checkout \in Commits
  /\ disk \in [Hosts -> Tree] /\ record \in [Hosts -> Tree]
  /\ loaded \in [Hosts -> BOOLEAN]
  /\ unit \in [Hosts -> {"stopped", "starting", "up"}]
  /\ lock \in [Hosts -> {"free", "agent"} \cup Slots]
  /\ source \in [Hosts -> Creds \cup {NoCred}]
  /\ cred \in [Hosts -> Creds \cup {NoCred}]
  /\ read \in [Hosts -> Creds \cup {NoCred}]
  /\ boot \in [Hosts -> [Slots -> Proc]]
  /\ hosts \in SUBSET Hosts
  /\ faults \in 0..MaxFaults /\ events \in 0..MaxEvents

\* Each Host is fresh, or has an Agent that runs the checked out commit.
BootInit ==
  /\ \E b \in Budgets :
       hosts = b.hosts /\ faults = b.faults /\ events = b.events
  /\ head = 0 /\ checkout = head
  /\ source \in [Hosts -> {NoCred, 1}]
  /\ \A h \in Hosts \ hosts : source[h] = NoCred
  /\ \E agents \in SUBSET {h \in Hosts : source[h] # NoCred} :
       /\ disk = [h \in Hosts |->
                    IF h \in agents THEN Bundle[head] ELSE Empty]
       /\ record = disk
       /\ loaded = [h \in Hosts |-> h \in agents]
       /\ unit = [h \in Hosts |->
                    IF h \in agents THEN "up" ELSE "stopped"]
       /\ lock = [h \in Hosts |-> IF h \in agents THEN "agent" ELSE "free"]
       /\ cred = [h \in Hosts |->
                    IF h \in agents THEN source[h] ELSE NoCred]
       /\ read = cred
  /\ boot = [h \in Hosts |-> [s \in Slots |-> NoProc]]

Fault(k) == k \in Kinds /\ faults > 0 /\ faults' = faults - 1
NoFault  == UNCHANGED faults
Event    == events > 0 /\ events' = events - 1

Running(h, s) == boot[h][s].pc \notin {"none", "ok", "failed"}
Goto(h, s, pc) ==
  boot' = [boot EXCEPT ![h][s] = IF pc \in {"ok", "failed"}
                                 THEN [NoProc EXCEPT !.pc = pc]
                                 ELSE [@ EXCEPT !.pc = pc]]

----------------------------------------------------------------------------
(* The lock, and the Agent's service in systemd. *)

\* Mutant: the lock is taken although somebody holds it.
FreeAlways(h) == TRUE

Free(h)       == lock[h] = "free"
Acquire(h, o) == lock' = [lock EXCEPT ![h] = o]
Release(h, o) == lock' = [lock EXCEPT ![h] = IF @ = o THEN "free" ELSE @]

Service(h, to) == unit' = [unit EXCEPT ![h] = to]

\* StopUnit: the process ends, which closes the lock file.
Stop(h) == Service(h, "stopped") /\ Release(h, "agent")

\* RestartUnit, or Restart=always after the process died.
Restart(h) == Service(h, "starting") /\ Release(h, "agent")

\* StartUnit leaves a unit alone that has been started.
Start(h) == Service(h, IF unit[h] = "up" THEN "up" ELSE "starting")

----------------------------------------------------------------------------
(* The Agent. *)

\* The Agent takes the lock before anything else, then reads its credential
\* files; without them, or when the lock is held, it exits, and systemd starts
\* it again.
AgentStarts(h) ==
  /\ unit[h] = "starting" /\ Free(h) /\ cred[h] # NoCred
  /\ Service(h, "up") /\ Acquire(h, "agent")
  /\ read' = [read EXCEPT ![h] = cred[h]]
  /\ UNCHANGED <<fleetVars, disk, record, loaded, source, cred, boot,
                 faults, events>>

\* Podman refuses to create a secret that exists.
Refused(h, p) == p = "config" /\ record[h][p] = Absent /\ disk[h][p] # Absent

\* One reconciliation: files and state file become those of the head.  A change
\* of the Agent's own files restarts it.
Reconciles(h) ==
  /\ unit[h] = "up" /\ read[h] = source[h]
  /\ record[h] # Bundle[head] /\ ~Refused(h, "config")
  /\ disk' = [disk EXCEPT ![h] = Bundle[head]]
  /\ record' = [record EXCEPT ![h] = Bundle[head]]
  /\ loaded' = [loaded EXCEPT ![h] = TRUE]
  /\ IF \A p \in Scope : record[h][p] = Bundle[head][p]
     THEN UNCHANGED <<unit, lock>> ELSE Restart(h)
  /\ UNCHANGED <<fleetVars, source, cred, read, boot, faults, events>>

AgentDies(h) ==
  /\ unit[h] = "up" /\ Fault("die") /\ Restart(h)
  /\ UNCHANGED <<fleetVars, disk, record, loaded, source, cred, read,
                 boot, events>>

----------------------------------------------------------------------------
(* bootstrap.Run and bootstrap.Teardown, in slot s of Host h. *)

\* The command starts: a bootstrap resolves the Agent's bundle from the
\* checkout (prepare), a teardown needs no Fleet.
Begins(h, s, mode, force, quick) ==
  /\ ~Running(h, s)
  /\ boot' = [boot EXCEPT ![h][s] =
       [pc    |-> IF mode = "teardown" THEN "stop" ELSE "status",
        mode  |-> mode, force |-> force, quick |-> quick, todo |-> {},
        want  |-> IF mode = "teardown" THEN Empty ELSE Bundle[checkout]]]

\* GetUnitStatus: a unit that runs, or is about to, is looked at more closely.
Status(h, s) ==
  /\ boot[h][s].pc = "status"
  /\ Goto(h, s, IF unit[h] = "stopped" THEN "lock" ELSE "guard")
  /\ UNCHANGED <<fleetVars, hostVars, source, cred, read, faults, events>>

\* Mutant: the whole state is compared with the Agent's bundle.
InScopeAll(h, s) == Paths

\* Mutant: a teardown removes the Agent's own files only.
InScopeOwn(h, s) == Scope

\* Files the process changes; a bootstrap looks at the Agent's own only.
InScope(h, s) == IF boot[h][s].mode = "teardown" THEN Paths ELSE Scope
Changes(h, s) == {p \in InScope(h, s) : record[h][p] # boot[h][s].want[p]}

\* handleActiveBootstrap, on a state read without the lock.
Guard(h, s) ==
  /\ boot[h][s].pc = "guard"
  /\ Goto(h, s, CASE Changes(h, s) = {} -> "wait"
                  [] Changes(h, s) # {} /\ boot[h][s].force -> "stop"
                  [] OTHER -> "failed")
  /\ UNCHANGED <<fleetVars, hostVars, source, cred, read, faults, events>>

\* StopUnit of the running Agent.  A teardown goes on when that fails.
Stops(h, s) ==
  /\ boot[h][s].pc = "stop"
  /\ \/ Stop(h) /\ Goto(h, s, "lock") /\ NoFault
     \/ /\ Fault("stop") /\ UNCHANGED <<unit, lock>>
        /\ Goto(h, s, IF boot[h][s].mode = "teardown" THEN "lock"
                                                      ELSE "failed")
  /\ UNCHANGED <<fleetVars, disk, record, loaded, source, cred, read,
                 events>>

\* AcquireLock does not wait: who finds the lock held gives up.  The state is
\* loaded again under the lock.
Locks(h, s) ==
  /\ boot[h][s].pc = "lock"
  /\ IF Free(h)
     THEN /\ Acquire(h, s)
          /\ boot' = [boot EXCEPT ![h][s] =
               [@ EXCEPT !.pc = "apply", !.todo = Changes(h, s)]]
     ELSE Goto(h, s, "failed") /\ UNCHANGED lock
  /\ UNCHANGED <<fleetVars, disk, record, loaded, unit, source, cred,
                 read, faults, events>>

\* Secrets are applied before unit files.
NextPath(h, s, p) ==
  p \in boot[h][s].todo /\ (p = "config" \/ "config" \notin boot[h][s].todo)

Write(h, s, p) == disk' = [disk EXCEPT ![h][p] = boot[h][s].want[p]]

\* One change.  The unit of a quadlet that is deleted is stopped before.
Applies(h, s) ==
  /\ boot[h][s].pc = "apply"
  /\ \E p \in Paths :
       /\ NextPath(h, s, p) /\ ~Refused(h, p)
       /\ Write(h, s, p)
       /\ boot' = [boot EXCEPT ![h][s].todo = @ \ {p}]
       /\ IF p = "quadlet" /\ boot[h][s].want[p] = Absent
          THEN Stop(h) ELSE UNCHANGED <<unit, lock>>
  /\ UNCHANGED <<fleetVars, record, loaded, source, cred, read, faults,
                 events>>

\* An apply that ends early has applied nothing yet, or something.
Cut(h, s) == IF boot[h][s].todo = Changes(h, s) THEN "first" ELSE "later"

\* A change, the daemon-reload, or saving or removing the state file fails.
\* What was applied stays, unrecorded.
ApplyFails(h, s) ==
  /\ boot[h][s].pc \in {"apply", "save"}
  /\ \/ /\ \E p \in Paths : NextPath(h, s, p) /\ Refused(h, p)
        /\ NoFault
     \/ Fault(Cut(h, s))
  /\ Goto(h, s, "failed") /\ Release(h, s)
  /\ UNCHANGED <<fleetVars, disk, record, loaded, unit, source, cred,
                 read, events>>

\* The daemon-reload after the changes; without any it changes nothing.
Reloads(h, s) ==
  /\ boot[h][s].pc = "apply" /\ boot[h][s].todo = {}
  /\ loaded' = [loaded EXCEPT ![h] = disk[h]["quadlet"] # Absent]
  /\ Goto(h, s, "save")
  /\ UNCHANGED <<fleetVars, disk, record, unit, lock, source, cred, read,
                 faults, events>>

\* Mutant: the state is not saved before the lock is released.
MergeNothing(h, s) == record[h]

\* MergeChangeset: the record of the files that were applied.
Merge(h, s) ==
  [p \in Paths |-> IF p \in InScope(h, s) THEN boot[h][s].want[p]
                                          ELSE record[h][p]]

\* Mutant: a bootstrap keeps the lock while it waits for the Agent.
SavesLocked(h, s) ==
  /\ boot[h][s].pc = "save"
  /\ record' = [record EXCEPT ![h] = Merge(h, s)]
  /\ IF boot[h][s].mode = "teardown" THEN Release(h, s) ELSE UNCHANGED lock
  /\ Goto(h, s, IF boot[h][s].mode = "teardown" THEN "ok" ELSE "start")
  /\ UNCHANGED <<fleetVars, disk, loaded, unit, source, cred, read,
                 faults, events>>

\* The state is saved, or removed with the clone by a teardown, and the lock
\* is released: before the Agent is started, which needs it.
Saves(h, s) ==
  /\ boot[h][s].pc = "save"
  /\ record' = [record EXCEPT ![h] = Merge(h, s)]
  /\ Release(h, s)
  /\ Goto(h, s, IF boot[h][s].mode = "teardown" THEN "ok" ELSE "start")
  /\ UNCHANGED <<fleetVars, disk, loaded, unit, source, cred, read,
                 faults, events>>

Starts(h, s) ==
  /\ boot[h][s].pc = "start"
  /\ \/ loaded[h] /\ Start(h) /\ Goto(h, s, "wait") /\ NoFault
     \/ /\ \/ ~loaded[h] /\ NoFault
           \/ Fault("start")
        /\ UNCHANGED unit /\ Goto(h, s, "failed")
  /\ UNCHANGED <<fleetVars, disk, record, loaded, lock, source, cred,
                 read, events>>

\* Something keeps the Agent from serving /health: for a moment, or for long.
Prevented(h) ==
  unit[h] = "stopped" \/ cred[h] = NoCred \/ lock[h] \in Slots

\* WaitForHealth: until the Agent serves /health, or a time has passed.
Waits(h, s) ==
  /\ boot[h][s].pc = "wait"
  /\ \/ (boot[h][s].quick \/ unit[h] = "up") /\ Goto(h, s, "ok") /\ NoFault
     \/ /\ ~boot[h][s].quick /\ unit[h] # "up"
        /\ \/ Prevented(h) /\ NoFault
           \/ Fault("slow")
        /\ Goto(h, s, "failed")
  /\ UNCHANGED <<fleetVars, hostVars, source, cred, read, events>>

Step(h, s) ==
  \/ Status(h, s) \/ Guard(h, s) \/ Stops(h, s) \/ Locks(h, s)
  \/ Applies(h, s) \/ ApplyFails(h, s) \/ Reloads(h, s) \/ Saves(h, s)
  \/ Starts(h, s) \/ Waits(h, s)

----------------------------------------------------------------------------
(* The world. *)

\* A commit that changes the Host's files.
Push == /\ Event
        /\ head' = head + 1
        /\ UNCHANGED <<hosts, checkout, hostVars, source, cred, read, boot,
                       faults>>

\* A credential is rotated: the operator has the new one.
Rotates(h) ==
  /\ Event
  /\ source' = [source EXCEPT ![h] = @ + 1]
  /\ UNCHANGED <<fleetVars, hostVars, cred, read, boot, faults>>

----------------------------------------------------------------------------
(* What holds for a Host. *)

\* One process at a time writes a Host's files and its state file: the Agent
\* from its start on, a bootstrap or a teardown between AcquireLock and the
\* release before StartUnit, whoever is killed, restarted or stopped meanwhile
\* (pkg/agent/lock.go, bootstrap.go:198-244).
OneWriter ==
  \A h \in Hosts :
    LET locked == {s \in Slots : boot[h][s].pc \in {"apply", "save"}}
    IN  /\ \A s, t \in locked : s = t
        /\ unit[h] = "up" => locked = {}

\* The Agent runs on a state file that describes the Host, from the first
\* reconciliation on: a bootstrap saves its state before the Agent it starts
\* can read it, so that the Agent neither creates its own files again nor
\* restarts itself (bootstrap.go:232-246).
AgentKnowsItsHost ==
  \A h \in Hosts : unit[h] = "up" => record[h] = disk[h]

\* A bootstrap touches the Agent's own files only: what else the Agent has
\* deployed stays deployed and recorded (bootstrap.go:419-438).
OthersSpared ==
  [][\A h \in Hosts :
       (\E s \in Slots : /\ boot[h][s].mode = "bootstrap"
                         /\ boot[h][s].pc \in {"apply", "save"})
       => /\ disk'[h]["app"] = disk[h]["app"]
          /\ record'[h]["app"] = record[h]["app"]]_bootVars
=============================================================================
