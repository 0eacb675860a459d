--------------------------- MODULE MachineProofs ---------------------------
(* Theorems about Bootstrap and Machine, for any Hosts, files, faults and    *)
(* numbers of commits, rotations and interruptions.                          *)
EXTENDS Machine, TLAPS

USE BootstrapAssumption, MachineAssumption

Boots == [Hosts -> [Slots -> Proc]]
PCs   == {"none", "status", "guard", "stop", "lock", "apply", "save", "start",
          "wait", "ok", "failed"}

\* Commits and rotations take events, which are counted down.
Counted ==
  /\ head + events <= MaxEvents
  /\ \A h \in Hosts : source[h] + events <= MaxEvents + 1

LEMMA NoProcIsProc == NoProc \in Proc
BY DEF NoProc, Proc, Empty, Tree

LEMMA NoRunIsRun == NoRun \in Run
BY DEF NoRun, Run

LEMMA GotoType ==
  ASSUME boot \in Boots, NEW h \in Hosts, NEW s \in Slots, NEW pc \in PCs,
         Goto(h, s, pc)
  PROVE  boot' \in Boots
<1>1. [NoProc EXCEPT !.pc = pc] \in Proc
  BY NoProcIsProc DEF Proc, PCs
<1>2. boot[h][s] \in Proc
  BY DEF Boots
<1>3. [boot[h][s] EXCEPT !.pc = pc] \in Proc
  BY <1>2 DEF Proc, PCs
<1> DEFINE new == IF pc \in {"ok", "failed"} THEN [NoProc EXCEPT !.pc = pc]
                  ELSE [boot[h][s] EXCEPT !.pc = pc]
<1>4. new \in Proc
  BY <1>1, <1>3
<1>5. boot' = [boot EXCEPT ![h][s] = new]
  BY DEF Goto
<1> QED
  BY <1>4, <1>5 DEF Boots

LEMMA ChangesArePaths ==
  ASSUME NEW h \in Hosts, NEW s \in Slots
  PROVE  Changes(h, s) \subseteq Paths /\ InScope(h, s) \subseteq Paths
BY DEF Changes, InScope, Scope, Paths

LEMMA FaultInBound ==
  ASSUME NEW k, faults \in 0..MaxFaults, Fault(k)
  PROVE  faults' \in 0..MaxFaults
BY DEF Fault

LEMMA EventCounted ==
  ASSUME TypeOK, Counted, Event
  PROVE  /\ events' \in 0..MaxEvents
         /\ events' = events - 1 /\ events > 0
BY DEF TypeOK, BootTypeOK, Event

LEMMA Numbers ==
  ASSUME TypeOK
  PROVE  /\ head \in Nat /\ events \in Nat /\ faults \in Nat
         /\ \A h \in Hosts : source[h] \in Nat
BY DEF TypeOK, BootTypeOK, Commits, Creds, NoCred

LEMMA StaysCounted ==
  ASSUME TypeOK, Counted, UNCHANGED <<head, source>>,
         UNCHANGED events \/ Event
  PROVE  events' \in 0..MaxEvents /\ Counted'
<1>1. events' \in 0..MaxEvents /\ events' <= events
  BY EventCounted, Numbers DEF TypeOK, BootTypeOK
<1> QED
  BY <1>1, Numbers DEF Counted

LEMMA BegunType ==
  ASSUME TypeOK, NEW h \in Hosts, NEW s \in Slots,
         NEW mode \in {"bootstrap", "teardown"},
         NEW force \in BOOLEAN, NEW quick \in BOOLEAN,
         Begins(h, s, mode, force, quick)
  PROVE  boot' \in Boots
<1> DEFINE want == IF mode = "teardown" THEN Empty ELSE Bundle[checkout]
           new  == [pc    |-> IF mode = "teardown" THEN "stop" ELSE "status",
                    mode  |-> mode, force |-> force, quick |-> quick,
                    todo  |-> {}, want |-> want]
<1>1. want \in Tree
  BY DEF TypeOK, BootTypeOK, Tree, Empty
<1>2. new \in Proc
  BY <1>1 DEF Proc
<1>3. boot' = [boot EXCEPT ![h][s] = new]
  BY DEF Begins
<1> QED
  BY <1>2, <1>3 DEF TypeOK, BootTypeOK, Boots

LEMMA GoesOnType ==
  ASSUME TypeOK, NEW r \in Run, NEW s \in Steps, NEW ok \in BOOLEAN,
         GoesOn(r, s, ok)
  PROVE  run' \in Run /\ told' \in SUBSET Hosts
<1>1. CASE run.cancelled
  BY <1>1, NoRunIsRun DEF GoesOn, Ends, TypeOK, Run
<1>2. CASE ~run.cancelled
  <2> DEFINE stopped == IF ok THEN r.stopped ELSE r.stopped \cup {s.host}
  <2>1. stopped \in SUBSET Hosts
    BY DEF Run, Steps
  <2>2. run' = [r EXCEPT !.pc = "step", !.todo = r.todo \ {s},
                         !.stopped = stopped]
    BY <1>2 DEF GoesOn
  <2> QED
    BY <1>2, <2>1, <2>2 DEF GoesOn, TypeOK, Run
<1> QED
  BY <1>1, <1>2

----------------------------------------------------------------------------
(* Types. *)

LEMMA AgentTypes ==
  ASSUME TypeOK, Counted, NEW h \in Hosts,
         AgentStarts(h) \/ Reconciles(h) \/ AgentDies(h)
  PROVE  BootTypeOK' /\ Counted'
<1> USE DEF TypeOK, BootTypeOK, Counted
<1>1. CASE AgentStarts(h)
  BY <1>1 DEF AgentStarts, Service, Acquire, fleetVars
<1>2. CASE Reconciles(h)
  <2>1. Bundle[head] \in Tree
    BY DEF Tree
  <2>2. unit' \in [Hosts -> {"stopped", "starting", "up"}]
        /\ lock' \in [Hosts -> {"free", "agent"} \cup Slots]
    <3>1. UNCHANGED <<unit, lock>> \/ Restart(h)
      BY <1>2, Zenon DEF Reconciles
    <3> QED
      BY <3>1 DEF Restart, Service, Release
  <2> QED
    BY <1>2, <2>1, <2>2 DEF Reconciles, fleetVars
<1>3. CASE AgentDies(h)
  BY <1>3, FaultInBound DEF AgentDies, Restart, Service, Release, fleetVars
<1> QED
  BY <1>1, <1>2, <1>3

LEMMA StepTypes ==
  ASSUME TypeOK, Counted, NEW h \in Hosts, NEW s \in Slots, Step(h, s)
  PROVE  BootTypeOK' /\ Counted'
<1> USE DEF TypeOK, BootTypeOK, Counted, fleetVars, hostVars, NoFault
<1>0. /\ boot \in Boots /\ boot[h][s] \in Proc
      /\ \A pc \in PCs : Goto(h, s, pc) => boot' \in Boots
  BY GotoType DEF Boots
<1> USE DEF Boots, PCs
<1>1. CASE Status(h, s)
  BY <1>0, <1>1 DEF Status
<1>2. CASE Guard(h, s)
  <2>1. \E pc \in PCs : Goto(h, s, pc)
    BY <1>2 DEF Guard
  <2> QED
    BY <1>0, <1>2, <2>1 DEF Guard
<1>3. CASE Stops(h, s)
  <2>1. \E pc \in PCs : Goto(h, s, pc)
    BY <1>3 DEF Stops
  <2>2. boot' \in Boots
    BY <1>0, <2>1
  <2>3. /\ unit' \in [Hosts -> {"stopped", "starting", "up"}]
        /\ lock' \in [Hosts -> {"free", "agent"} \cup Slots]
    <3>1. UNCHANGED <<unit, lock>> \/ Stop(h)
      BY <1>3, Zenon DEF Stops
    <3>2. CASE UNCHANGED <<unit, lock>>
      BY <3>2
    <3>3. CASE Stop(h)
      BY <3>3, SMT DEF Stop, Service, Release
    <3> QED
      BY <3>1, <3>2, <3>3
  <2>4. faults' \in 0..MaxFaults
    BY <1>3, FaultInBound, Zenon DEF Stops
  <2> QED
    BY <1>3, <2>2, <2>3, <2>4 DEF Stops
<1>4. CASE Locks(h, s)
  <2>1. CASE Free(h)
    <3> DEFINE new == [boot[h][s] EXCEPT !.pc = "apply",
                                         !.todo = Changes(h, s)]
    <3>1. new \in Proc
      BY <1>0, ChangesArePaths DEF Proc
    <3>2. boot' = [boot EXCEPT ![h][s] = new]
      BY <1>4, <2>1 DEF Locks
    <3>3. boot' \in Boots
      BY <3>1, <3>2
    <3> QED
      BY <1>4, <2>1, <3>3 DEF Locks, Acquire
  <2>2. CASE ~Free(h)
    BY <1>0, <1>4, <2>2 DEF Locks
  <2> QED
    BY <2>1, <2>2
<1>5. CASE Applies(h, s)
  <2>1. PICK p \in Paths :
          /\ Write(h, s, p)
          /\ boot' = [boot EXCEPT ![h][s].todo = @ \ {p}]
          /\ IF p = "quadlet" /\ boot[h][s].want[p] = Absent
             THEN Stop(h) ELSE UNCHANGED <<unit, lock>>
    BY <1>5 DEF Applies
  <2>2. boot' \in Boots
    <3> DEFINE new == [boot[h][s] EXCEPT !.todo = boot[h][s].todo \ {p}]
    <3>1. new \in Proc
      BY <1>0 DEF Proc
    <3>2. boot' = [boot EXCEPT ![h][s] = new]
      BY <2>1
    <3> QED
      BY <3>1, <3>2
  <2>3. disk' \in [Hosts -> Tree]
    BY <1>0, <2>1 DEF Write, Tree, Proc
  <2>4. unit' \in [Hosts -> {"stopped", "starting", "up"}]
        /\ lock' \in [Hosts -> {"free", "agent"} \cup Slots]
    BY <2>1 DEF Stop, Service, Release
  <2> QED
    BY <1>5, <2>2, <2>3, <2>4 DEF Applies
<1>6. CASE ApplyFails(h, s)
  BY <1>0, <1>6, FaultInBound DEF ApplyFails, Release
<1>7. CASE Reloads(h, s)
  BY <1>0, <1>7 DEF Reloads
<1>8. CASE Saves(h, s)
  <2>1. \E pc \in PCs : Goto(h, s, pc)
    BY <1>8 DEF Saves
  <2>2. Merge(h, s) \in Tree
    BY <1>0 DEF Merge, Tree, Proc
  <2> QED
    BY <1>0, <1>8, <2>1, <2>2 DEF Saves, Release
<1>9. CASE Starts(h, s)
  BY <1>0, <1>9, FaultInBound DEF Starts, Start, Service
<1>10. CASE Waits(h, s)
  BY <1>0, <1>10, FaultInBound DEF Waits
<1> QED
  BY <1>1, <1>2, <1>3, <1>4, <1>5, <1>6, <1>7, <1>8, <1>9, <1>10 DEF Step

LEMMA RunStepTypes ==
  ASSUME TypeOK, Counted, RunStep
  PROVE  TypeOK' /\ Counted'
<1> USE DEF fleetVars, hostVars, bootVars, NoFault
<1>1. CASE Summary
  BY <1>1, NoRunIsRun
  DEF Summary, Ends, Run, TypeOK, BootTypeOK, Counted
<1>2. ASSUME NEW s \in Steps, NextStep(s),
             \/ Passes(s) \/ SetsUp(s) \/ OpensCheckout(s)
             \/ PlacesCredential(s) \/ StartBootstrap(s)
             \/ BootstrapEnds(s) \/ RestartsAgent(s) \/ AwaitsHealth(s)
             \/ Abandons(s) \/ TearsDown(s) \/ TeardownEnds(s)
      PROVE  TypeOK' /\ Counted'
  <2>0. /\ s.host \in Hosts /\ run \in Run
        /\ \A r \in Run, ok \in BOOLEAN :
             GoesOn(r, s, ok) => run' \in Run /\ told' \in SUBSET Hosts
        /\ \A r \in Run : Ends(r) => run' \in Run /\ told' \in SUBSET Hosts
        /\ "run" \in Slots /\ "alone" \in Slots
    BY GoesOnType, NoRunIsRun DEF TypeOK, Steps, Ends, Run
  <2>1. CASE Passes(s)
    BY <2>0, <2>1 DEF Passes, Run, TypeOK, BootTypeOK, Counted
  <2>2. CASE SetsUp(s)
    <3>1. has' \in [Hosts -> SUBSET Setup]
      <4> DEFINE gets == IF s.kind = "user" THEN {"user", "subids"}
                         ELSE {s.kind}
      <4>1. gets \in SUBSET Setup
        BY <2>2 DEF SetsUp, Applied, Setup, UserKinds
      <4>2. UNCHANGED has \/ has' = [has EXCEPT ![s.host] = @ \cup gets]
        BY <2>2, Zenon DEF SetsUp
      <4> HIDE DEF gets
      <4> QED
        BY <2>0, <4>1, <4>2 DEF TypeOK
    <3>2. run' \in Run /\ told' \in SUBSET Hosts /\ faults' \in 0..MaxFaults
      BY <2>0, <2>2, FaultInBound DEF SetsUp, TypeOK, BootTypeOK
    <3> QED
      BY <2>2, <3>1, <3>2 DEF SetsUp, TypeOK, BootTypeOK, Counted
  <2>3. CASE OpensCheckout(s)
    BY <2>0, <2>3, FaultInBound
    DEF OpensCheckout, TypeOK, BootTypeOK, Counted
  <2>4. CASE PlacesCredential(s)
    <3> DEFINE r == IF cred[s.host] = source[s.host] THEN run
                    ELSE [run EXCEPT !.required = @ \cup {s.host}]
    <3>1. r \in Run
      BY <2>0 DEF Run
    <3>2. GoesOn(r, s, TRUE) \/ GoesOn(run, s, FALSE)
      BY <2>4, Zenon DEF PlacesCredential
    <3>3. run' \in Run /\ told' \in SUBSET Hosts
      BY <2>0, <3>1, <3>2
    <3>4. faults' \in 0..MaxFaults
      BY <2>4, FaultInBound, Zenon
      DEF PlacesCredential, TypeOK, BootTypeOK
    <3>5. /\ cred' \in [Hosts -> Creds \cup {NoCred}]
          /\ owned' \in [Hosts -> BOOLEAN]
      <4>1. \/ /\ cred' = [cred EXCEPT ![s.host] = source[s.host]]
               /\ owned' = [owned EXCEPT ![s.host] = TRUE]
            \/ UNCHANGED <<cred, owned>>
        BY <2>4, Zenon DEF PlacesCredential
      <4>2. /\ cred \in [Hosts -> Creds \cup {NoCred}]
            /\ source \in [Hosts -> Creds \cup {NoCred}]
            /\ owned \in [Hosts -> BOOLEAN]
        BY DEF TypeOK, BootTypeOK
      <4>3. s.host \in Hosts
        BY <2>0
      <4>4. CASE UNCHANGED <<cred, owned>>
        BY <4>2, <4>4
      <4>5. CASE /\ cred' = [cred EXCEPT ![s.host] = source[s.host]]
                 /\ owned' = [owned EXCEPT ![s.host] = TRUE]
        <5>1. source[s.host] \in Creds \cup {NoCred}
          BY <4>2, <4>3
        <5>2. cred' \in [Hosts -> Creds \cup {NoCred}]
          BY <4>2, <4>3, <4>5, <5>1, Zenon
        <5>3. owned' \in [Hosts -> BOOLEAN]
          BY <4>2, <4>3, <4>5, Zenon
        <5> QED
          BY <5>2, <5>3
      <4> QED
        BY <4>1, <4>4, <4>5
    <3> QED
      BY <2>4, <3>3, <3>4, <3>5 DEF PlacesCredential, TypeOK, BootTypeOK, Counted
  <2>5. CASE StartBootstrap(s)
    <3>1. boot' \in Boots
      BY <2>0, <2>5, BegunType DEF StartBootstrap, TypeOK, BootTypeOK, Boots
    <3>2. run' \in Run /\ told' \in SUBSET Hosts
      <4>1. CASE run' = [run EXCEPT !.pc = "boot"] /\ UNCHANGED told
        BY <2>0, <4>1 DEF Run, TypeOK
      <4> QED
        BY <2>0, <2>5, <4>1 DEF StartBootstrap
    <3>3. faults' \in 0..MaxFaults
      BY <2>5, FaultInBound DEF StartBootstrap, TypeOK, BootTypeOK
    <3> QED
      BY <2>5, <3>1, <3>2, <3>3
      DEF StartBootstrap, TypeOK, BootTypeOK, Boots, Counted
  <2>6. CASE BootstrapEnds(s)
    <3>1. run' \in Run /\ told' \in SUBSET Hosts
      <4>1. \/ GoesOn(run, s, FALSE)
            \/ run' = [run EXCEPT !.pc = "restart"] /\ UNCHANGED told
            \/ run' = [run EXCEPT !.pc = "wait"] /\ UNCHANGED told
        BY <2>6, Zenon DEF BootstrapEnds
      <4> QED
        BY <2>0, <4>1 DEF Run, TypeOK
    <3> QED
      BY <2>6, <3>1 DEF BootstrapEnds, TypeOK, BootTypeOK, Counted
  <2>7. CASE RestartsAgent(s)
    <3>1. run' \in Run /\ told' \in SUBSET Hosts
      <4>1. \/ GoesOn(run, s, FALSE)
            \/ /\ run' = [run EXCEPT !.pc = "wait",
                                     !.restarted = @ \cup {s.host}]
               /\ UNCHANGED told
        BY <2>7, Zenon DEF RestartsAgent
      <4>2. run.restarted \cup {s.host} \in SUBSET Hosts
        BY <2>0 DEF Run
      <4> QED
        BY <2>0, <4>1, <4>2 DEF Run, TypeOK
    <3>2. /\ unit' \in [Hosts -> {"stopped", "starting", "up"}]
          /\ lock' \in [Hosts -> {"free", "agent"} \cup Slots]
      <4>1. UNCHANGED <<unit, lock>> \/ Restart(s.host)
        BY <2>7, Zenon DEF RestartsAgent
      <4> QED
        <5>1. /\ unit \in [Hosts -> {"stopped", "starting", "up"}]
              /\ lock \in [Hosts -> {"free", "agent"} \cup Slots]
          BY DEF TypeOK, BootTypeOK
        <5>2. CASE UNCHANGED <<unit, lock>>
          BY <5>1, <5>2
        <5>3. CASE Restart(s.host)
          BY <5>1, <5>3 DEF Restart, Service, Release
        <5> QED
          BY <4>1, <5>2, <5>3
    <3>3. faults' \in 0..MaxFaults
      BY <2>7, FaultInBound, Zenon DEF RestartsAgent, TypeOK, BootTypeOK
    <3> QED
      BY <2>7, <3>1, <3>2, <3>3 DEF RestartsAgent, TypeOK, BootTypeOK, Counted
  <2>8. CASE AwaitsHealth(s)
    BY <2>0, <2>8, FaultInBound DEF AwaitsHealth, TypeOK, BootTypeOK, Counted
  <2>9. CASE Abandons(s)
    <3>1. boot' \in Boots
      <4>1. boot \in Boots
        BY DEF TypeOK, BootTypeOK, Boots
      <4>2. CASE Goto(s.host, "run", "failed")
        BY <2>0, <4>1, <4>2, GotoType DEF PCs
      <4>3. CASE boot' = [boot EXCEPT ![s.host]["alone"] = boot[s.host]["run"],
                                      ![s.host]["run"] = NoProc]
        <5>1. [boot EXCEPT ![s.host]["alone"] = boot[s.host]["run"]] \in Boots
          BY <2>0, <4>1 DEF Boots
        <5> QED
          BY <2>0, <4>3, <5>1, NoProcIsProc DEF Boots
      <4> QED
        BY <2>9, <4>2, <4>3, Zenon DEF Abandons
    <3>2. lock' \in [Hosts -> {"free", "agent"} \cup Slots]
      <4>0. lock \in [Hosts -> {"free", "agent"} \cup Slots]
        BY DEF TypeOK, BootTypeOK
      <4>1. CASE Release(s.host, "run")
        BY <2>0, <4>0, <4>1 DEF Release
      <4>2. CASE lock' = [lock EXCEPT ![s.host] =
                            IF @ = "run" THEN "alone" ELSE @]
        BY <2>0, <4>0, <4>2
      <4> QED
        BY <2>9, <4>1, <4>2, Zenon DEF Abandons
    <3>3. faults' \in 0..MaxFaults
      BY <2>9, FaultInBound DEF Abandons, TypeOK, BootTypeOK
    <3> QED
      BY <2>0, <2>9, <3>1, <3>2, <3>3
      DEF Abandons, TypeOK, BootTypeOK, Boots, Counted
  <2>10. CASE TearsDown(s)
    <3>1. boot' \in Boots
      BY <2>0, <2>10, BegunType DEF TearsDown, TypeOK, BootTypeOK, Boots
    <3>2. run' \in Run /\ told' \in SUBSET Hosts
      <4>1. \/ Ends(run)
            \/ run' = [run EXCEPT !.pc = "boot"] /\ UNCHANGED told
            \/ run' = [run EXCEPT !.todo = @ \ {s}] /\ UNCHANGED told
        BY <2>10, Zenon DEF TearsDown
      <4> QED
        BY <2>0, <4>1 DEF Run, TypeOK
    <3> QED
      BY <2>10, <3>1, <3>2 DEF TearsDown, TypeOK, BootTypeOK, Boots, Counted
  <2>11. CASE TeardownEnds(s)
    BY <2>0, <2>11 DEF TeardownEnds, Run, TypeOK, BootTypeOK, Counted
  <2> QED
    BY <1>2, <2>1, <2>2, <2>3, <2>4, <2>5, <2>6, <2>7, <2>8, <2>9, <2>10,
       <2>11, Zenon
<1> QED
  BY <1>1, <1>2, Zenon DEF RunStep

LEMMA CommandTypes ==
  ASSUME TypeOK, Counted, StartRun \/ StartTeardown \/ Interrupt
  PROVE  TypeOK' /\ Counted'
<1> USE DEF fleetVars, hostVars
<1>1. CASE StartRun
  <2>1. run' \in Run
    <3> DEFINE steps == {s \in Steps : /\ s.host \in hosts
                                       /\ s.kind \in Planned(s.host)}
    <3>1. steps \in SUBSET Steps /\ run' = [NoRun EXCEPT !.pc = "step",
                                                         !.todo = steps]
      BY <1>1, Zenon DEF StartRun
    <3> HIDE DEF steps
    <3> QED
      BY <3>1, NoRunIsRun DEF Run
  <2>2. events' \in 0..MaxEvents /\ Counted'
    BY <1>1, StaysCounted DEF StartRun
  <2> QED
    BY <1>1, <2>1, <2>2 DEF StartRun, TypeOK, BootTypeOK
<1>2. CASE StartTeardown
  <2>1. run' \in Run
    <3> DEFINE steps == {s \in Steps : /\ s.host \in hosts
                                       /\ s.kind = "teardown"}
    <3>1. /\ steps \in SUBSET Steps
          /\ run' = [NoRun EXCEPT !.pc = "step", !.mode = "teardown",
                                  !.todo = steps]
      BY <1>2, Zenon DEF StartTeardown
    <3> HIDE DEF steps
    <3> QED
      BY <3>1, NoRunIsRun DEF Run
  <2>2. events' \in 0..MaxEvents /\ Counted'
    BY <1>2, StaysCounted DEF StartTeardown
  <2> QED
    BY <1>2, <2>1, <2>2 DEF StartTeardown, TypeOK, BootTypeOK
<1>3. CASE Interrupt
  <2>1. events' \in 0..MaxEvents /\ Counted'
    BY <1>3, StaysCounted DEF Interrupt
  <2> QED
    BY <1>3, <2>1 DEF Interrupt, Run, TypeOK, BootTypeOK
<1> QED
  BY <1>1, <1>2, <1>3

LEMMA WorldTypes ==
  ASSUME TypeOK, Counted,
         \/ World
         \/ \E h \in Hosts : ManagerStarts(h) \/ OperatorRestarts(h)
  PROVE  TypeOK' /\ Counted'
<1> USE DEF fleetVars, hostVars, bootVars, machineVars
<1>1. CASE Push /\ UNCHANGED machineVars
  <2>1. /\ head' = head + 1 /\ events' = events - 1 /\ events > 0
        /\ events' \in 0..MaxEvents /\ UNCHANGED source
    BY <1>1, EventCounted DEF Push
  <2>2. head' \in Commits /\ Counted'
    <3>1. /\ head \in Nat /\ events \in Nat /\ MaxEvents \in Nat
          /\ head + events <= MaxEvents
          /\ \A h \in Hosts : source[h] \in Nat /\ source[h] + events <= MaxEvents + 1
      BY Numbers, BootstrapAssumption DEF Counted
    <3>2. head' \in 0..MaxEvents /\ head' + events' <= MaxEvents
      BY <2>1, <3>1
    <3>3. ASSUME NEW h \in Hosts
          PROVE  source'[h] + events' <= MaxEvents + 1
      <4>1. source'[h] = source[h]
        BY <2>1
      <4> QED
        BY <2>1, <3>1, <4>1
    <3> QED
      BY <3>2, <3>3 DEF Commits, Counted
  <2> QED
    BY <1>1, <2>1, <2>2 DEF Push, TypeOK, BootTypeOK
<1>2. ASSUME NEW h \in Hosts, Rotates(h) /\ UNCHANGED machineVars
      PROVE  TypeOK' /\ Counted'
  <2>1. /\ source' = [source EXCEPT ![h] = @ + 1]
        /\ events' = events - 1 /\ events > 0
        /\ events' \in 0..MaxEvents /\ UNCHANGED head
    BY <1>2, EventCounted DEF Rotates
  <2>2. /\ source[h] + 1 \in Creds
        /\ source \in [Hosts -> Creds \cup {NoCred}]
    BY <1>2, <2>1, Numbers DEF Creds, NoCred, Counted, TypeOK, BootTypeOK
  <2>3. source' \in [Hosts -> Creds \cup {NoCred}]
    BY <1>2, <2>1, <2>2
  <2>4. Counted'
    <3>1. \A g \in Hosts : source'[g] = source[g] \/ source'[g] = source[g] + 1
      BY <2>1, <2>2
    <3> QED
      BY <2>1, <3>1, Numbers DEF Counted
  <2> QED
    BY <1>2, <2>1, <2>3, <2>4 DEF Rotates, TypeOK, BootTypeOK
<1>3. ASSUME NEW h \in Hosts, AgentDies(h) /\ UNCHANGED machineVars
      PROVE  TypeOK' /\ Counted'
  BY <1>3, AgentTypes DEF TypeOK
<1>4. ASSUME NEW h \in Hosts, AddsSubIDs(h) \/ ManagerStarts(h)
      PROVE  TypeOK' /\ Counted'
  BY <1>4
  DEF AddsSubIDs, ManagerStarts, Setup, UserKinds, TypeOK, BootTypeOK, Counted
<1>5. ASSUME NEW h \in Hosts, Alone(h)
      PROVE  TypeOK' /\ Counted'
  <2>1. boot' \in Boots
    BY <1>5, BegunType DEF Alone
  <2>2. events' \in 0..MaxEvents /\ Counted'
    BY <1>5, StaysCounted DEF Alone
  <2> QED
    BY <1>5, <2>1, <2>2 DEF Alone, TypeOK, BootTypeOK, Boots
<1>6. ASSUME NEW h \in Hosts, OperatorRestarts(h)
      PROVE  TypeOK' /\ Counted'
  BY <1>6 DEF OperatorRestarts, Restart, Service, Release, TypeOK, BootTypeOK,
              Counted
<1>7. hosts \subseteq Hosts
  BY DEF TypeOK, BootTypeOK
<1> QED
  BY <1>1, <1>2, <1>3, <1>4, <1>5, <1>6, <1>7 DEF World

Typed == TypeOK /\ Counted

LEMMA InitTyped == Init => Typed
<1> SUFFICES ASSUME Init PROVE Typed
  OBVIOUS
<1>1. BootTypeOK /\ Counted
  <2> USE DEF Init, BootInit
  <2>1. PICK b \in Budgets :
          hosts = b.hosts /\ faults = b.faults /\ events = b.events
    OBVIOUS
  <2>2. /\ hosts \in SUBSET Hosts
        /\ faults \in 0..MaxFaults /\ events \in 0..MaxEvents
    BY <2>1
  <2>3. /\ head \in Commits /\ checkout \in Commits
        /\ source \in [Hosts -> Creds \cup {NoCred}]
    BY DEF Commits, Creds, NoCred
  <2>4. /\ disk \in [Hosts -> Tree] /\ record \in [Hosts -> Tree]
        /\ loaded \in [Hosts -> BOOLEAN]
        /\ unit \in [Hosts -> {"stopped", "starting", "up"}]
        /\ lock \in [Hosts -> {"free", "agent"} \cup Slots]
        /\ cred \in [Hosts -> Creds \cup {NoCred}]
        /\ read \in [Hosts -> Creds \cup {NoCred}]
    <3>1. Bundle[head] \in Tree /\ Empty \in Tree
      BY <2>3 DEF Tree, Empty
    <3>2. PICK agents \in SUBSET {h \in Hosts : source[h] # NoCred} :
            /\ disk = [h \in Hosts |->
                         IF h \in agents THEN Bundle[head] ELSE Empty]
            /\ record = disk
            /\ loaded = [h \in Hosts |-> h \in agents]
            /\ unit = [h \in Hosts |->
                         IF h \in agents THEN "up" ELSE "stopped"]
            /\ lock = [h \in Hosts |->
                         IF h \in agents THEN "agent" ELSE "free"]
            /\ cred = [h \in Hosts |->
                         IF h \in agents THEN source[h] ELSE NoCred]
            /\ read = cred
      BY Zenon
    <3>3. disk \in [Hosts -> Tree] /\ record \in [Hosts -> Tree]
      BY <3>1, <3>2
    <3>4. /\ loaded \in [Hosts -> BOOLEAN]
          /\ unit \in [Hosts -> {"stopped", "starting", "up"}]
          /\ lock \in [Hosts -> {"free", "agent"} \cup Slots]
      BY <3>2
    <3>5. /\ cred \in [Hosts -> Creds \cup {NoCred}]
          /\ read \in [Hosts -> Creds \cup {NoCred}]
      BY <2>3, <3>2
    <3> QED
      BY <3>3, <3>4, <3>5
  <2>5. boot \in [Hosts -> [Slots -> Proc]]
    BY NoProcIsProc
  <2>6. Counted
    <3>1. head = 0 /\ source \in [Hosts -> {0, 1}]
      BY DEF NoCred
    <3>2. events \in 0..MaxEvents /\ MaxEvents \in Nat
      BY <2>2, BootstrapAssumption
    <3> HIDE DEF Init, BootInit
    <3> QED
      BY <3>1, <3>2 DEF Counted
  <2> QED
    BY <2>2, <2>3, <2>4, <2>5, <2>6 DEF BootTypeOK
<1>2. has \in [Hosts -> SUBSET Setup]
  BY DEF Init, Setup, UserKinds
<1> QED
  BY <1>1, <1>2, NoRunIsRun DEF Init, BootTypeOK, TypeOK, Typed

LEMMA StepTyped == Typed /\ [Next]_vars => Typed'
<1> SUFFICES ASSUME TypeOK, Counted, [Next]_vars PROVE TypeOK' /\ Counted'
  BY DEF Typed
<1>1. CASE StartRun \/ StartTeardown \/ Interrupt
  BY <1>1, CommandTypes
<1>2. CASE RunStep
  BY <1>2, RunStepTypes
<1>3. ASSUME NEW h \in Hosts, AgentSteps(h) PROVE TypeOK' /\ Counted'
  BY <1>3, AgentTypes DEF AgentSteps, machineVars, TypeOK
<1>4. ASSUME NEW h \in Hosts, NEW s \in Slots,
             Step(h, s) /\ UNCHANGED machineVars
      PROVE  TypeOK' /\ Counted'
  BY <1>4, StepTypes DEF machineVars, TypeOK
<1>5. CASE World \/ \E h \in Hosts : ManagerStarts(h) \/ OperatorRestarts(h)
  BY <1>5, WorldTypes
<1>6. CASE UNCHANGED vars
  BY <1>6 DEF vars, bootVars, TypeOK, BootTypeOK, Counted
<1> QED
  BY <1>1, <1>2, <1>3, <1>4, <1>5, <1>6 DEF Next

\* Every variable keeps its type, however many faults and events there are:
\* each commit and each rotation is paid for by an event.
THEOREM TypeCorrect == Spec => []TypeOK
<1>1. Typed => TypeOK
  BY DEF Typed
<1> QED
  BY <1>1, InitTyped, StepTyped, PTL DEF Spec

----------------------------------------------------------------------------
(* The lock. *)

Locked(b, l, h, s) == b[h][s].pc \in {"apply", "save"} => l[h] = s

\* Whoever is past AcquireLock, and an Agent that runs, holds the lock.
Guarded ==
  \A h \in Hosts : /\ \A s \in Slots : Locked(boot, lock, h, s)
                   /\ unit[h] = "up" => lock[h] = "agent"

LEMMA UnitsReleaseTheirOwn ==
  ASSUME TypeOK, Guarded, UNCHANGED boot, NEW h \in Hosts,
         Stop(h) \/ Restart(h)
  PROVE  Guarded'
BY DEF TypeOK, BootTypeOK, Guarded, Locked, Stop, Restart, Service, Release

LEMMA GotoGuarded ==
  ASSUME TypeOK, Guarded, NEW h \in Hosts, NEW s \in Slots,
         NEW pc \in PCs \ {"apply", "save"}, Goto(h, s, pc),
         \/ UNCHANGED <<unit, lock>>
         \/ UNCHANGED unit /\ Release(h, s)
         \/ Stop(h)
         \/ Start(h) /\ UNCHANGED lock
  PROVE  Guarded'
<1> USE DEF TypeOK, BootTypeOK, Guarded, Locked
<1>1. /\ \A g \in Hosts, t \in Slots : g # h \/ t # s => boot'[g][t] = boot[g][t]
      /\ boot'[h][s].pc = pc
  BY DEF Goto, NoProc, Proc
<1>2. CASE UNCHANGED <<unit, lock>>
  <2>1. unit' = unit /\ lock' = lock
    BY <1>2
  <2>2. \A g \in Hosts, t \in Slots :
          boot'[g][t].pc \in {"apply", "save"}
            => boot[g][t].pc \in {"apply", "save"}
    <3> TAKE g \in Hosts, t \in Slots
    <3>1. CASE g = h /\ t = s
      BY <1>1, <3>1
    <3>2. CASE ~(g = h /\ t = s)
      BY <1>1, <3>2
    <3> QED
      BY <3>1, <3>2
  <2> QED
    BY <2>1, <2>2
<1>3. CASE UNCHANGED unit /\ Release(h, s)
  BY <1>1, <1>3 DEF Release
<1>4. CASE Stop(h)
  BY <1>1, <1>4 DEF Stop, Service, Release
<1>5. CASE Start(h) /\ UNCHANGED lock
  BY <1>1, <1>5 DEF Start, Service
<1> QED
  BY <1>2, <1>3, <1>4, <1>5

LEMMA StepGuarded ==
  ASSUME TypeOK, Guarded, NEW h \in Hosts, NEW s \in Slots, Step(h, s)
  PROVE  Guarded'
<1> USE DEF fleetVars, hostVars, NoFault, PCs
<1>1. CASE Status(h, s)
  BY <1>1, GotoGuarded DEF Status
<1>2. CASE Guard(h, s)
  <2>1. \E pc \in {"wait", "stop", "failed"} : Goto(h, s, pc)
    BY <1>2 DEF Guard
  <2> QED
    BY <1>2, <2>1, GotoGuarded DEF Guard
<1>3. CASE Stops(h, s)
  <2>1. \E pc \in {"lock", "failed"} : Goto(h, s, pc)
    BY <1>3 DEF Stops
  <2> QED
    BY <1>3, <2>1, GotoGuarded DEF Stops
<1>4. CASE Locks(h, s)
  <2>1. CASE Free(h)
    <3>1. /\ lock' = [lock EXCEPT ![h] = s] /\ lock[h] = "free"
          /\ UNCHANGED unit
          /\ boot' = [boot EXCEPT ![h][s] =
               [@ EXCEPT !.pc = "apply", !.todo = Changes(h, s)]]
      BY <1>4, <2>1 DEF Locks, Acquire, Free
    <3>2. \A g \in Hosts, t \in Slots :
            g # h \/ t # s => boot'[g][t] = boot[g][t]
      BY <3>1 DEF TypeOK, BootTypeOK
    <3> QED
      BY <3>1, <3>2 DEF TypeOK, BootTypeOK, Guarded, Locked
  <2>2. CASE ~Free(h)
    BY <1>4, <2>2, GotoGuarded DEF Locks
  <2> QED
    BY <2>1, <2>2
<1>5. CASE Applies(h, s)
  <2>1. PICK p \in Paths :
          /\ boot' = [boot EXCEPT ![h][s].todo = @ \ {p}]
          /\ Stop(h) \/ UNCHANGED <<unit, lock>>
    BY <1>5, Zenon DEF Applies
  <2>2. \A g \in Hosts, t \in Slots : boot'[g][t].pc = boot[g][t].pc
    BY <2>1 DEF TypeOK, BootTypeOK, Proc
  <2> QED
    BY <2>1, <2>2
    DEF TypeOK, BootTypeOK, Guarded, Locked, Stop, Service, Release
<1>6. CASE ApplyFails(h, s)
  BY <1>6, GotoGuarded DEF ApplyFails
<1>7. CASE Reloads(h, s)
  <2>1. /\ boot[h][s].pc = "apply" /\ UNCHANGED <<unit, lock>>
        /\ boot' = [boot EXCEPT ![h][s] = [@ EXCEPT !.pc = "save"]]
    BY <1>7 DEF Reloads, Goto
  <2>2. \A g \in Hosts, t \in Slots :
          g # h \/ t # s => boot'[g][t] = boot[g][t]
    BY <2>1 DEF TypeOK, BootTypeOK
  <2> QED
    BY <2>1, <2>2 DEF TypeOK, BootTypeOK, Guarded, Locked
<1>8. CASE Saves(h, s)
  <2>1. \E pc \in {"ok", "start"} : Goto(h, s, pc)
    BY <1>8 DEF Saves
  <2> QED
    BY <1>8, <2>1, GotoGuarded DEF Saves
<1>9. CASE Starts(h, s)
  BY <1>9, GotoGuarded DEF Starts
<1>10. CASE Waits(h, s)
  BY <1>10, GotoGuarded DEF Waits
<1> QED
  BY <1>1, <1>2, <1>3, <1>4, <1>5, <1>6, <1>7, <1>8, <1>9, <1>10 DEF Step

\* A process that has only begun holds nothing.
LEMMA BeginsGuarded ==
  ASSUME TypeOK, Guarded, UNCHANGED <<unit, lock>>, NEW h \in Hosts,
         NEW s \in Slots, NEW mode, NEW force, NEW quick,
         Begins(h, s, mode, force, quick)
  PROVE  Guarded'
<1>1. /\ boot'[h][s].pc \in {"stop", "status"}
      /\ \A g \in Hosts, t \in Slots :
           g # h \/ t # s => boot'[g][t] = boot[g][t]
  BY DEF TypeOK, BootTypeOK, Begins
<1> QED
  BY <1>1 DEF Guarded, Locked

LEMMA NextGuarded == Typed /\ Guarded /\ [Next]_vars => Guarded'
<1> SUFFICES ASSUME TypeOK, Guarded, [Next]_vars PROVE Guarded'
  BY DEF Typed
<1>0. /\ hosts \subseteq Hosts /\ "run" \in Slots /\ "alone" \in Slots
      /\ \A s \in Steps : s.host \in Hosts
  BY DEF TypeOK, BootTypeOK, Steps
<1> USE DEF fleetVars, hostVars, bootVars, machineVars, NoFault
<1>1. CASE UNCHANGED <<unit, lock, boot>>
  BY <1>1 DEF Guarded, Locked
<1>2. ASSUME NEW h \in Hosts, UNCHANGED boot, Stop(h) \/ Restart(h)
      PROVE  Guarded'
  BY <1>2, UnitsReleaseTheirOwn
<1>3. ASSUME NEW h \in Hosts, NEW s \in Slots, NEW mode, NEW force, NEW quick,
             Begins(h, s, mode, force, quick), UNCHANGED <<unit, lock>>
      PROVE  Guarded'
  BY <1>3, BeginsGuarded
<1>4. CASE StartRun \/ StartTeardown \/ Interrupt
  BY <1>1, <1>4 DEF StartRun, StartTeardown, Interrupt
<1>5. CASE RunStep
  <2>1. CASE Summary
    BY <1>1, <2>1 DEF Summary
  <2>2. ASSUME NEW s \in Steps,
               \/ Passes(s) \/ SetsUp(s) \/ OpensCheckout(s)
               \/ PlacesCredential(s) \/ StartBootstrap(s)
               \/ BootstrapEnds(s) \/ RestartsAgent(s) \/ AwaitsHealth(s)
               \/ Abandons(s) \/ TearsDown(s) \/ TeardownEnds(s)
        PROVE  Guarded'
    <3>1. CASE \/ Passes(s) \/ SetsUp(s) \/ OpensCheckout(s)
               \/ PlacesCredential(s) \/ BootstrapEnds(s) \/ AwaitsHealth(s)
               \/ TeardownEnds(s)
      BY <1>1, <3>1 DEF Passes, SetsUp, OpensCheckout, PlacesCredential,
                        BootstrapEnds, AwaitsHealth, TeardownEnds
    <3>2. CASE StartBootstrap(s)
      BY <1>0, <1>1, <1>3, <3>2 DEF StartBootstrap
    <3>3. CASE RestartsAgent(s)
      BY <1>0, <1>1, <1>2, <3>3 DEF RestartsAgent
    <3>4. CASE TearsDown(s)
      BY <1>0, <1>1, <1>3, <3>4 DEF TearsDown
    <3>5. CASE Abandons(s)
      <4>1. CASE Goto(s.host, "run", "failed") /\ Release(s.host, "run")
        BY <1>0, <3>5, <4>1, GotoGuarded DEF Abandons, PCs
      <4>2. CASE /\ ~Running(s.host, "alone")
                 /\ boot' = [boot EXCEPT
                      ![s.host]["alone"] = boot[s.host]["run"],
                      ![s.host]["run"] = NoProc]
                 /\ lock' = [lock EXCEPT
                      ![s.host] = IF @ = "run" THEN "alone" ELSE @]
        <5>1. /\ boot'[s.host]["run"].pc = "none"
              /\ boot'[s.host]["alone"] = boot[s.host]["run"]
              /\ \A g \in Hosts : g # s.host => boot'[g] = boot[g]
          BY <1>0, <4>2 DEF TypeOK, BootTypeOK, NoProc
        <5>2. /\ \A g \in Hosts : g # s.host => lock'[g] = lock[g]
              /\ lock[s.host] = "run" => lock'[s.host] = "alone"
              /\ lock[s.host] = "agent" => lock'[s.host] = "agent"
          BY <1>0, <4>2 DEF TypeOK, BootTypeOK
        <5>3. UNCHANGED unit
          BY <3>5 DEF Abandons
        <5> QED
          BY <1>0, <5>1, <5>2, <5>3 DEF Guarded, Locked
      <4> QED
        BY <3>5, <4>1, <4>2, Zenon DEF Abandons
    <3> QED
      BY <2>2, <3>1, <3>2, <3>3, <3>4, <3>5, Zenon
  <2> QED
    BY <1>5, <2>1, <2>2, Zenon DEF RunStep
<1>6. ASSUME NEW h \in Hosts, AgentSteps(h) PROVE Guarded'
  <2>1. CASE AgentStarts(h)
    BY <2>1 DEF AgentStarts, Free, Service, Acquire, Guarded, Locked, TypeOK,
                BootTypeOK
  <2>2. CASE Reconciles(h)
    <3>1. UNCHANGED boot /\ (UNCHANGED <<unit, lock>> \/ Restart(h))
      BY <2>2, Zenon DEF Reconciles
    <3> QED
      BY <1>1, <1>2, <3>1
  <2> QED
    BY <1>6, <2>1, <2>2 DEF AgentSteps
<1>7. ASSUME NEW h \in Hosts, ManagerStarts(h) \/ AddsSubIDs(h) \/ Rotates(h)
      PROVE  Guarded'
  BY <1>1, <1>7 DEF ManagerStarts, AddsSubIDs, Rotates
<1>8. ASSUME NEW h \in Hosts, OperatorRestarts(h) \/ AgentDies(h)
      PROVE  Guarded'
  BY <1>2, <1>8 DEF OperatorRestarts, AgentDies
<1>9. ASSUME NEW h \in Hosts, Alone(h) PROVE Guarded'
  BY <1>0, <1>3, <1>9 DEF Alone
<1>10. CASE Push
  BY <1>1, <1>10 DEF Push
<1>11. CASE UNCHANGED vars
  BY <1>1, <1>11 DEF vars
<1> QED
  BY <1>0, <1>4, <1>5, <1>6, <1>7, <1>8, <1>9, <1>10, <1>11, StepGuarded
  DEF Next, World

LEMMA InitGuarded == Init => Guarded
<1> SUFFICES ASSUME Init PROVE Guarded
  OBVIOUS
<1>1. /\ \A h \in Hosts, s \in Slots : boot[h][s].pc = "none"
      /\ \A h \in Hosts : unit[h] = "up" => lock[h] = "agent"
  BY DEF Init, BootInit, NoProc
<1> QED
  BY <1>1 DEF Guarded, Locked

\* Bootstraps, teardowns and the Agent never write to one Host at the same
\* time, with any number of Hosts, however they are interrupted or restarted:
\* they hold the lock when they do.
THEOREM WritersAlone == Spec => []OneWriter
<1>1. Guarded => OneWriter
  BY DEF Guarded, Locked, OneWriter
<1> QED
  BY <1>1, InitTyped, StepTyped, InitGuarded, NextGuarded, PTL DEF Spec

----------------------------------------------------------------------------
(* Credentials. *)

Owed(h) == h \in told \/ h \in run.required \ run.restarted

\* An Agent that runs with another credential than the Host has is on the
\* run's list, or was on one a summary printed.  An Agent is taken off the
\* run's list when it is restarted, which happens after all credential steps.
Tracked ==
  /\ run.pc = "idle" => run = NoRun
  /\ \/ run.pc \in {"restart", "wait"}
     \/ run.pc = "boot" /\ run.mode = "run"
     \/ run.restarted # {}
     => \A t \in run.todo : t.kind # "credential"
  /\ \A h \in Hosts : unit[h] = "up" /\ read[h] # cred[h] => Owed(h)

LEMMA QuietTracked ==
  ASSUME Tracked, UNCHANGED <<read, cred, run, told>>,
         \A h \in Hosts : unit'[h] = "up" => unit[h] = "up"
  PROVE  Tracked'
BY DEF Tracked, Owed

LEMMA EndsTracked ==
  ASSUME Tracked, NEW r \in Run, Ends(r),
         \A h \in Hosts : unit'[h] = "up" /\ read'[h] # cred'[h]
                            => h \in told \/ h \in r.required \ r.restarted
  PROVE  Tracked'
BY DEF Tracked, Owed, Ends, NoRun, Run

LEMMA GoesOnTracked ==
  ASSUME TypeOK, Tracked, NEW r \in Run, NEW s \in Steps, NEW ok \in BOOLEAN,
         r.todo = run.todo, r.restarted = run.restarted, GoesOn(r, s, ok),
         \A h \in Hosts : unit'[h] = "up" /\ read'[h] # cred'[h]
                            => h \in told \/ h \in r.required \ r.restarted
  PROVE  Tracked'
<1>1. CASE run.cancelled
  BY <1>1, EndsTracked DEF GoesOn
<1>2. CASE ~run.cancelled
  <2>1. /\ run'.pc = "step" /\ run'.todo = r.todo \ {s}
        /\ run'.required = r.required /\ run'.restarted = r.restarted
        /\ UNCHANGED told
    <3> DEFINE stopped == IF ok THEN r.stopped ELSE r.stopped \cup {s.host}
    <3>1. run' = [r EXCEPT !.pc = "step", !.todo = r.todo \ {s},
                           !.stopped = stopped]
      BY <1>2 DEF GoesOn
    <3> HIDE DEF stopped
    <3> QED
      BY <1>2, <3>1 DEF GoesOn, Run
  <2> QED
    BY <2>1 DEF Tracked, Owed
<1> QED
  BY <1>1, <1>2

LEMMA StepQuiet ==
  ASSUME TypeOK, NEW h \in Hosts, NEW s \in Slots, Step(h, s)
  PROVE  /\ UNCHANGED <<read, cred>>
         /\ \A g \in Hosts : unit'[g] = "up" => unit[g] = "up"
<1> USE DEF fleetVars, hostVars, TypeOK, BootTypeOK
<1>1. CASE Stops(h, s)
  BY <1>1 DEF Stops, Stop, Service
<1>2. CASE Applies(h, s)
  <2>1. Stop(h) \/ UNCHANGED unit
    BY <1>2, Zenon DEF Applies
  <2> QED
    BY <1>2, <2>1 DEF Applies, Stop, Service
<1>3. CASE Starts(h, s)
  BY <1>3 DEF Starts, Start, Service
<1>4. CASE \/ Status(h, s) \/ Guard(h, s) \/ Locks(h, s) \/ ApplyFails(h, s)
           \/ Reloads(h, s) \/ Saves(h, s) \/ Waits(h, s)
  BY <1>4 DEF Status, Guard, Locks, ApplyFails, Reloads, Saves, Waits
<1> QED
  BY <1>1, <1>2, <1>3, <1>4 DEF Step

LEMMA RunStepTracked ==
  ASSUME TypeOK, Tracked, RunStep
  PROVE  Tracked'
<1> USE DEF fleetVars, hostVars, bootVars
<1>0. /\ run \in Run
      /\ \A h \in Hosts : unit[h] = "up" /\ read[h] # cred[h]
                            => h \in told \/ h \in run.required \ run.restarted
  BY DEF TypeOK, Tracked, Owed
<1>1. CASE Summary
  BY <1>0, <1>1, EndsTracked DEF Summary
<1>2. ASSUME NEW s \in Steps, NextStep(s),
             \/ run.pc = "step" /\ \/ Passes(s) \/ SetsUp(s)
                                   \/ OpensCheckout(s) \/ PlacesCredential(s)
                                   \/ StartBootstrap(s)
             \/ BootstrapEnds(s) \/ RestartsAgent(s) \/ AwaitsHealth(s)
             \/ Abandons(s) \/ TearsDown(s) \/ TeardownEnds(s)
      PROVE  Tracked'
  <2>1. ASSUME NEW ok \in BOOLEAN, GoesOn(run, s, ok),
               UNCHANGED <<unit, read, cred>>
        PROVE  Tracked'
    BY <1>0, <2>1, GoesOnTracked
  <2>2. CASE Passes(s) /\ run.pc = "step"
    BY <1>0, <2>2 DEF Passes, Tracked, Owed, Run
  <2>3. CASE SetsUp(s) \/ OpensCheckout(s) \/ AwaitsHealth(s)
    BY <2>1, <2>3 DEF SetsUp, OpensCheckout, AwaitsHealth
  <2>4. CASE PlacesCredential(s)
    <3>1. CASE Fault("op") /\ UNCHANGED <<cred, owned>> /\ GoesOn(run, s, FALSE)
      BY <2>1, <2>4, <3>1 DEF PlacesCredential
    <3>2. CASE /\ cred' = [cred EXCEPT ![s.host] = source[s.host]]
               /\ GoesOn(IF cred[s.host] = source[s.host] THEN run
                         ELSE [run EXCEPT !.required = @ \cup {s.host}],
                         s, TRUE)
      <4>1. run.restarted = {} /\ UNCHANGED <<unit, read>>
        BY <1>2, <2>4 DEF PlacesCredential, NextStep, Tracked
      <4>2. CASE cred[s.host] = source[s.host]
        <5>1. cred' = cred
          BY <3>2, <4>2 DEF TypeOK, BootTypeOK
        <5> QED
          BY <2>1, <3>2, <4>1, <4>2, <5>1
      <4>3. CASE cred[s.host] # source[s.host]
        <5> DEFINE r == [run EXCEPT !.required = @ \cup {s.host}]
        <5>1. /\ r \in Run /\ r.todo = run.todo /\ r.restarted = run.restarted
              /\ r.required = run.required \cup {s.host}
          BY <1>0 DEF Run, Steps
        <5>2. \A h \in Hosts \ {s.host} : cred'[h] = cred[h]
          BY <3>2 DEF TypeOK, BootTypeOK
        <5>3. GoesOn(r, s, TRUE)
          BY <3>2, <4>3
        <5> HIDE DEF r
        <5>4. \A h \in Hosts : unit'[h] = "up" /\ read'[h] # cred'[h]
                                 => h \in told \/ h \in r.required \ r.restarted
          BY <1>0, <4>1, <5>1, <5>2
        <5> QED
          BY <5>1, <5>3, <5>4, GoesOnTracked
      <4> QED
        BY <4>2, <4>3
    <3> QED
      BY <2>4, <3>1, <3>2, Zenon DEF PlacesCredential
  <2>5. CASE StartBootstrap(s)
    <3>1. CASE GoesOn(run, s, FALSE)
      BY <2>1, <2>5, <3>1 DEF StartBootstrap
    <3>2. CASE run' = [run EXCEPT !.pc = "boot"] /\ UNCHANGED told
      <4>1. \A t \in run.todo : t.kind # "credential"
        BY <1>2, <2>5
        DEF StartBootstrap, NextStep, Precedes, Phase, KindRank
      <4> QED
        BY <1>0, <2>5, <3>2, <4>1 DEF StartBootstrap, Tracked, Owed, Run
    <3> QED
      BY <2>5, <3>1, <3>2, Zenon DEF StartBootstrap
  <2>6. CASE BootstrapEnds(s)
    <3>1. \/ GoesOn(run, s, FALSE)
          \/ run' = [run EXCEPT !.pc = "restart"] /\ UNCHANGED told
          \/ run' = [run EXCEPT !.pc = "wait"] /\ UNCHANGED told
      BY <2>6, Zenon DEF BootstrapEnds
    <3> QED
      BY <1>0, <2>1, <2>6, <3>1 DEF BootstrapEnds, Tracked, Owed, Run
  <2>7. CASE RestartsAgent(s)
    <3>1. CASE GoesOn(run, s, FALSE) /\ UNCHANGED <<unit, lock>>
      BY <2>1, <2>7, <3>1 DEF RestartsAgent
    <3>2. CASE /\ Restart(s.host) /\ UNCHANGED told
               /\ run' = [run EXCEPT !.pc = "wait",
                                     !.restarted = @ \cup {s.host}]
      <4>1. /\ unit'[s.host] = "starting"
            /\ \A h \in Hosts \ {s.host} : unit'[h] = unit[h]
        BY <3>2 DEF Restart, Service, Steps, TypeOK, BootTypeOK
      <4>2. /\ run'.pc = "wait" /\ run'.todo = run.todo
            /\ run'.required = run.required
            /\ run'.restarted = run.restarted \cup {s.host}
        BY <1>0, <3>2 DEF Run
      <4> QED
        BY <2>7, <3>2, <4>1, <4>2 DEF RestartsAgent, Tracked, Owed
    <3> QED
      BY <2>7, <3>1, <3>2, Zenon DEF RestartsAgent
  <2>8. CASE Abandons(s)
    BY <1>0, <2>8, EndsTracked DEF Abandons
  <2>9. CASE TearsDown(s)
    <3>1. CASE Ends(run)
      BY <1>0, <2>9, <3>1, EndsTracked DEF TearsDown
    <3>2. CASE \/ run' = [run EXCEPT !.pc = "boot"] /\ UNCHANGED told
               \/ run' = [run EXCEPT !.todo = @ \ {s}] /\ UNCHANGED told
      BY <1>0, <2>9, <3>2 DEF TearsDown, Tracked, Owed, Run
    <3> QED
      BY <2>9, <3>1, <3>2, Zenon DEF TearsDown
  <2>10. CASE TeardownEnds(s)
    BY <1>0, <2>10 DEF TeardownEnds, Tracked, Owed, Run
  <2> QED
    BY <1>2, <2>2, <2>3, <2>4, <2>5, <2>6, <2>7, <2>8, <2>9, <2>10, Zenon
<1> QED
  BY <1>1, <1>2, Zenon DEF RunStep

LEMMA NextTracked == Typed /\ Tracked /\ [Next]_vars => Tracked'
<1> SUFFICES ASSUME TypeOK, Tracked, [Next]_vars PROVE Tracked'
  BY DEF Typed
<1>0. hosts \subseteq Hosts /\ run \in Run
  BY DEF TypeOK, BootTypeOK
<1> USE DEF fleetVars, hostVars, bootVars, machineVars
<1>1. CASE RunStep
  BY <1>1, RunStepTracked
<1>2. CASE StartRun \/ StartTeardown
  <2>1. \E steps \in SUBSET Steps :
          \/ run' = [NoRun EXCEPT !.pc = "step", !.todo = steps]
          \/ run' = [NoRun EXCEPT !.pc = "step", !.mode = "teardown",
                                  !.todo = steps]
    <3> DEFINE planned == {s \in Steps : /\ s.host \in hosts
                                         /\ s.kind \in Planned(s.host)}
               down    == {s \in Steps : /\ s.host \in hosts
                                         /\ s.kind = "teardown"}
    <3>1. planned \in SUBSET Steps /\ down \in SUBSET Steps
      OBVIOUS
    <3>2. \/ run' = [NoRun EXCEPT !.pc = "step", !.todo = planned]
          \/ run' = [NoRun EXCEPT !.pc = "step", !.mode = "teardown",
                                  !.todo = down]
      BY <1>2, Zenon DEF StartRun, StartTeardown
    <3> QED
      BY <3>1, <3>2, Zenon
  <2>2. run'.pc = "step" /\ run'.required = {} /\ run'.restarted = {}
    BY <2>1 DEF NoRun
  <2>3. run.required = {} /\ UNCHANGED <<unit, read, cred, told>>
    BY <1>2 DEF StartRun, StartTeardown, Tracked, NoRun
  <2> QED
    BY <2>2, <2>3 DEF Tracked, Owed
<1>3. CASE Interrupt
  BY <1>0, <1>3 DEF Interrupt, Tracked, Owed, Run
<1>4. ASSUME NEW h \in Hosts, AgentSteps(h) PROVE Tracked'
  <2>1. CASE AgentStarts(h) /\ told' = told \ {h} /\ UNCHANGED run
    <3>1. /\ read'[h] = cred[h] /\ UNCHANGED cred
          /\ \A g \in Hosts \ {h} : read'[g] = read[g] /\ unit'[g] = unit[g]
      BY <2>1 DEF AgentStarts, Service, TypeOK, BootTypeOK
    <3> QED
      BY <2>1, <3>1 DEF Tracked, Owed
  <2>2. CASE Reconciles(h) /\ UNCHANGED machineVars
    <3>1. UNCHANGED unit \/ Restart(h)
      BY <2>2, Zenon DEF Reconciles
    <3>2. \A g \in Hosts : unit'[g] = "up" => unit[g] = "up"
      BY <3>1 DEF Restart, Service, TypeOK, BootTypeOK
    <3> QED
      BY <2>2, <3>2, QuietTracked DEF Reconciles
  <2> QED
    BY <1>4, <2>1, <2>2 DEF AgentSteps
<1>5. ASSUME NEW h \in Hosts, NEW s \in Slots,
             Step(h, s) /\ UNCHANGED machineVars
      PROVE  Tracked'
  BY <1>5, StepQuiet, QuietTracked
<1>6. ASSUME NEW h \in Hosts,
             \/ OperatorRestarts(h)
             \/ AgentDies(h) /\ UNCHANGED machineVars
      PROVE  Tracked'
  <2>1. \A g \in Hosts : unit'[g] = "up" => unit[g] = "up"
    BY <1>6 DEF OperatorRestarts, AgentDies, Restart, Service, TypeOK,
                BootTypeOK
  <2> QED
    BY <1>6, <2>1, QuietTracked DEF OperatorRestarts, AgentDies
<1>7. ASSUME NEW h \in Hosts,
             \/ ManagerStarts(h) \/ AddsSubIDs(h) \/ Alone(h)
             \/ Rotates(h) /\ UNCHANGED machineVars
      PROVE  Tracked'
  BY <1>7, QuietTracked DEF ManagerStarts, AddsSubIDs, Alone, Rotates
<1>8. CASE Push /\ UNCHANGED machineVars
  BY <1>8, QuietTracked DEF Push
<1>9. CASE UNCHANGED vars
  BY <1>9, QuietTracked DEF vars
<1>10. CASE World
  <2>1. CASE \E h \in hosts : \/ AgentDies(h) /\ UNCHANGED machineVars
                              \/ Rotates(h) /\ UNCHANGED machineVars
                              \/ AddsSubIDs(h) \/ Alone(h)
    <3>1. PICK h \in Hosts : \/ AgentDies(h) /\ UNCHANGED machineVars
                             \/ Rotates(h) /\ UNCHANGED machineVars
                             \/ AddsSubIDs(h) \/ Alone(h)
      BY <1>0, <2>1, Zenon
    <3> QED
      BY <1>6, <1>7, <3>1, Zenon
  <2> QED
    BY <1>8, <1>10, <2>1, Zenon DEF World
<1>11. CASE \E h \in Hosts :
              \/ AgentSteps(h) \/ ManagerStarts(h) \/ OperatorRestarts(h)
              \/ \E s \in Slots : Step(h, s) /\ UNCHANGED machineVars
  <2>1. PICK h \in Hosts :
          \/ AgentSteps(h) \/ ManagerStarts(h) \/ OperatorRestarts(h)
          \/ \E s \in Slots : Step(h, s) /\ UNCHANGED machineVars
    BY <1>11, Zenon
  <2>2. CASE \E s \in Slots : Step(h, s) /\ UNCHANGED machineVars
    BY <1>5, <2>2, Zenon
  <2>3. CASE AgentSteps(h)
    BY <1>4, <2>3, Zenon
  <2>4. CASE ManagerStarts(h)
    BY <1>7, <2>4, Zenon
  <2>5. CASE OperatorRestarts(h)
    BY <1>6, <2>5, Zenon
  <2> QED
    BY <2>1, <2>2, <2>3, <2>4, <2>5, Zenon
<1> QED
  BY <1>1, <1>2, <1>3, <1>9, <1>10, <1>11, Zenon DEF Next

\* No credential write is lost, for any number of Hosts, credentials, failing
\* steps and interruptions: between runs, every Agent that runs with another
\* credential than its Host has was named in a summary.
THEOREM NoRestartLost == Spec => []CredentialsReach
<1>1. Init => Tracked
  BY DEF Init, BootInit, Tracked, Owed, NoRun
<1>2. Tracked => CredentialsReach
  BY DEF Tracked, Owed, CredentialsReach, NoRun
<1> QED
  BY <1>1, <1>2, InitTyped, StepTyped, NextTracked, PTL DEF Spec

----------------------------------------------------------------------------
(* What a process in the middle of an apply has done. *)

Writing(h, s) == boot[h][s].pc \in {"apply", "save"}

\* It has written some of its changes, and reloads systemd when it has written
\* all of them. A teardown wants nothing.
Underway(h, s) ==
  /\ Writing(h, s) =>
       /\ boot[h][s].todo \subseteq Changes(h, s)
       /\ \A p \in Changes(h, s) \ boot[h][s].todo :
            disk[h][p] = boot[h][s].want[p]
  /\ boot[h][s].pc = "save" =>
       boot[h][s].todo = {} /\ (loaded[h] <=> disk[h]["quadlet"] # Absent)
  /\ boot[h][s].mode = "teardown" => boot[h][s].want = Empty

\* No process ends between the first of its writes and the save of the state.
WholeApplies == "later" \notin Kinds

\* The state file describes the Host, but for what a process has written.
Described(h) ==
  /\ (\A s \in Slots : ~Writing(h, s)) => disk[h] = record[h]
  /\ \A s \in Slots : Writing(h, s) =>
       \A p \in Paths : p \notin Changes(h, s) \ boot[h][s].todo =>
         disk[h][p] = record[h][p]

Coherent ==
  /\ \A h \in Hosts, s \in Slots : Underway(h, s)
  /\ WholeApplies => \A h \in Hosts : Described(h)

LEMMA WritesAlone ==
  ASSUME Guarded, NEW h \in Hosts, NEW s \in Slots, Writing(h, s)
  PROVE  unit[h] # "up" /\ \A t \in Slots : Writing(h, t) => t = s
BY DEF Guarded, Locked, Writing

LEMMA GotoEffect ==
  ASSUME TypeOK, NEW h \in Hosts, NEW s \in Slots, NEW pc \in PCs, Goto(h, s, pc)
  PROVE  /\ boot'[h][s].pc = pc
         /\ \A g \in Hosts, t \in Slots :
              ~(g = h /\ t = s) => boot'[g][t] = boot[g][t]
         /\ pc \notin {"ok", "failed"} =>
              /\ boot'[h][s].mode = boot[h][s].mode
              /\ boot'[h][s].want = boot[h][s].want
              /\ boot'[h][s].todo = boot[h][s].todo
         /\ pc \in {"ok", "failed"} => boot'[h][s].mode = "bootstrap"
BY DEF Goto, NoProc, Proc, TypeOK, BootTypeOK

\* The plan of a process follows from what it wants and the state file.
LEMMA ChangesKept ==
  ASSUME NEW h \in Hosts, NEW s \in Slots, record'[h] = record[h],
         boot'[h][s].want = boot[h][s].want, boot'[h][s].mode = boot[h][s].mode
  PROVE  Changes(h, s)' = Changes(h, s)
BY DEF Changes, InScope

\* Where nothing is written, only the processes that write are to be looked at.
LEMMA QuietCoherent ==
  ASSUME Coherent, NEW h \in Hosts, disk'[h] = disk[h], record'[h] = record[h],
         loaded'[h] = loaded[h],
         \A s \in Slots :
           \/ boot'[h][s] = boot[h][s]
           \/ /\ ~Writing(h, s) /\ ~Writing(h, s)'
              /\ boot'[h][s].mode = "teardown" => boot'[h][s].want = Empty
  PROVE  (\A s \in Slots : Underway(h, s)') /\ (WholeApplies => Described(h)')
<1>1. ASSUME NEW s \in Slots PROVE Underway(h, s)'
  <2>1. CASE boot'[h][s] = boot[h][s]
    <3>1. Changes(h, s)' = Changes(h, s)
      BY <2>1, ChangesKept
    <3> QED
      BY <2>1, <3>1 DEF Coherent, Underway, Writing
  <2>2. CASE /\ ~Writing(h, s)'
             /\ boot'[h][s].mode = "teardown" => boot'[h][s].want = Empty
    BY <2>2 DEF Underway, Writing
  <2> QED
    BY <2>1, <2>2
<1>2. \A s \in Slots : Writing(h, s)' <=> Writing(h, s)
  BY DEF Writing
<1>3. ASSUME WholeApplies, NEW s \in Slots, Writing(h, s)',
             NEW p \in Paths, p \notin (Changes(h, s) \ boot[h][s].todo)'
      PROVE  disk'[h][p] = record'[h][p]
  <2>1. boot'[h][s] = boot[h][s] /\ Writing(h, s)
    BY <1>3 DEF Writing
  <2>2. Changes(h, s)' = Changes(h, s)
    BY <2>1, ChangesKept
  <2> QED
    BY <1>3, <2>1, <2>2 DEF Coherent, Described
<1> QED
  BY <1>1, <1>2, <1>3 DEF Coherent, Described

\* A process is there that does not write, or no longer does, having undone or
\* recorded what it wrote; no other one writes.
LEMMA LeavesCoherent ==
  ASSUME NEW h \in Hosts, NEW s \in Slots, Coherent, Guarded, Writing(h, s),
         ~Writing(h, s)',
         boot'[h][s].mode = "teardown" => boot'[h][s].want = Empty,
         \A t \in Slots : t # s => boot'[h][t] = boot[h][t],
         WholeApplies => disk'[h] = record'[h]
  PROVE  (\A t \in Slots : Underway(h, t)') /\ (WholeApplies => Described(h)')
<1>1. \A t \in Slots : ~Writing(h, t)'
  BY WritesAlone DEF Writing
<1>2. \A t \in Slots :
        boot'[h][t].mode = "teardown" => boot'[h][t].want = Empty
  BY DEF Coherent, Underway
<1> QED
  BY <1>1, <1>2 DEF Underway, Described, Writing

\* What ends an apply early, where applies are whole, comes before its writes.
LEMMA CutShort ==
  ASSUME TypeOK, Coherent, NEW h \in Hosts, NEW s \in Slots, Writing(h, s),
         WholeApplies,
         \/ \E p \in Paths : NextPath(h, s, p) /\ Refused(h, p)
         \/ Fault(Cut(h, s))
  PROVE  disk[h] = record[h]
<1>1. \A p \in Paths : p \notin Changes(h, s) \ boot[h][s].todo =>
        disk[h][p] = record[h][p]
  BY DEF Coherent, Described
<1>2. ~\E p \in Paths : NextPath(h, s, p) /\ Refused(h, p)
  BY <1>1 DEF NextPath, Refused
<1>3. boot[h][s].todo = Changes(h, s)
  BY <1>2 DEF Fault, Cut, WholeApplies
<1>4. \A p \in Paths : disk[h][p] = record[h][p]
  BY <1>1, <1>3
<1>5. disk[h] \in Tree /\ record[h] \in Tree
  BY DEF TypeOK, BootTypeOK
<1> QED
  BY <1>4, <1>5 DEF Tree

LEMMA StepCoherent ==
  ASSUME TypeOK, Guarded, Coherent, NEW h \in Hosts, NEW s \in Slots, Step(h, s)
  PROVE  Coherent'
<1> USE DEF fleetVars, hostVars, NoFault, PCs
<1> SUFFICES /\ \A g \in Hosts, t \in Slots : Underway(g, t)'
             /\ \A g \in Hosts : WholeApplies => Described(g)'
  BY DEF Coherent, WholeApplies
<1>0. boot[h][s] \in Proc
  BY DEF TypeOK, BootTypeOK
<1>1. ASSUME NEW g \in Hosts, g # h
      PROVE  (\A t \in Slots : Underway(g, t)') /\ (WholeApplies => Described(g)')
  <2>1. /\ disk'[g] = disk[g] /\ record'[g] = record[g] /\ loaded'[g] = loaded[g]
        /\ \A t \in Slots : boot'[g][t] = boot[g][t]
    <3>1. /\ boot \in [Hosts -> [Slots -> Proc]]
          /\ disk \in [Hosts -> Tree] /\ record \in [Hosts -> Tree]
          /\ loaded \in [Hosts -> BOOLEAN]
      BY DEF TypeOK, BootTypeOK
    <3>2. \A pc : Goto(h, s, pc) => \A t \in Slots : boot'[g][t] = boot[g][t]
      BY <1>1, <3>1 DEF Goto
    <3>3. CASE Status(h, s) \/ Guard(h, s) \/ Stops(h, s) \/ Waits(h, s)
      BY <3>2, <3>3 DEF Status, Guard, Stops, Waits
    <3>4. CASE Locks(h, s) \/ Applies(h, s) \/ ApplyFails(h, s)
      BY <1>1, <3>1, <3>2, <3>4 DEF Locks, Applies, ApplyFails, Write
    <3>5. CASE Reloads(h, s) \/ Saves(h, s) \/ Starts(h, s)
      BY <1>1, <3>1, <3>2, <3>5 DEF Reloads, Saves, Starts
    <3> QED
      BY <3>3, <3>4, <3>5 DEF Step
  <2> QED
    BY <2>1, QuietCoherent
<1>2. ASSUME NEW pc \in PCs \ {"apply", "save"}, Goto(h, s, pc), ~Writing(h, s),
             UNCHANGED <<disk, record, loaded>>
      PROVE  (\A t \in Slots : Underway(h, t)') /\ (WholeApplies => Described(h)')
  <2>1. /\ ~Writing(h, s)'
        /\ boot'[h][s].mode = "teardown" => boot'[h][s].want = Empty
        /\ \A t \in Slots : t # s => boot'[h][t] = boot[h][t]
    <3>1. /\ boot'[h][s].pc = pc
          /\ boot[h][s].mode = "teardown" => boot[h][s].want = Empty
      BY <1>2, GotoEffect DEF Coherent, Underway
    <3>2. \/ boot'[h][s].mode = boot[h][s].mode /\ boot'[h][s].want = boot[h][s].want
          \/ boot'[h][s].mode = "bootstrap"
      BY <1>2, GotoEffect
    <3>3. \A t \in Slots : t # s => boot'[h][t] = boot[h][t]
      BY <1>2, GotoEffect
    <3> QED
      BY <1>2, <3>1, <3>2, <3>3 DEF Writing
  <2> QED
    BY <1>2, <2>1, QuietCoherent
<1>3. CASE Status(h, s) \/ Guard(h, s) \/ Stops(h, s) \/ Starts(h, s)
           \/ Waits(h, s) \/ (Locks(h, s) /\ ~Free(h))
  <2>1. /\ ~Writing(h, s) /\ UNCHANGED <<disk, record, loaded>>
        /\ \E pc \in PCs \ {"apply", "save"} : Goto(h, s, pc)
    BY <1>3 DEF Status, Guard, Stops, Starts, Waits, Locks, Writing
  <2> QED
    BY <1>1, <1>2, <2>1
<1>4. CASE Locks(h, s) /\ Free(h)
  <2>1. /\ UNCHANGED <<disk, record, loaded>>
        /\ boot'[h][s].pc = "apply" /\ boot'[h][s].todo = Changes(h, s)
        /\ boot'[h][s].want = boot[h][s].want
        /\ boot'[h][s].mode = boot[h][s].mode
        /\ \A t \in Slots : t # s => boot'[h][t] = boot[h][t]
    <3> DEFINE new == [boot[h][s] EXCEPT !.pc = "apply", !.todo = Changes(h, s)]
    <3>1. boot' = [boot EXCEPT ![h][s] = new] /\ UNCHANGED <<disk, record, loaded>>
      BY <1>4 DEF Locks
    <3>2. /\ new.pc = "apply" /\ new.todo = Changes(h, s)
          /\ new.want = boot[h][s].want /\ new.mode = boot[h][s].mode
      BY <1>0 DEF Proc
    <3> HIDE DEF new
    <3>3. boot'[h][s] = new /\ \A t \in Slots : t # s => boot'[h][t] = boot[h][t]
      BY <3>1 DEF TypeOK, BootTypeOK
    <3> QED
      BY <3>1, <3>2, <3>3
  <2>2. Changes(h, s)' = Changes(h, s)
    BY <2>1, ChangesKept
  <2>3. \A t \in Slots : ~Writing(h, t)
    BY <1>4 DEF Free, Guarded, Locked, Writing
  <2>4. Underway(h, s)'
    BY <2>1, <2>2 DEF Coherent, Underway
  <2>5. ASSUME NEW t \in Slots, t # s PROVE Underway(h, t)' /\ ~Writing(h, t)'
    BY <2>1, <2>3, <2>5 DEF Coherent, Underway, Writing
  <2>6. WholeApplies => Described(h)'
    BY <2>1, <2>2, <2>3, <2>5 DEF Coherent, Described
  <2> QED
    BY <1>1, <2>4, <2>5, <2>6
<1>5. CASE Applies(h, s)
  <2> PICK p \in Paths : /\ NextPath(h, s, p) /\ Write(h, s, p)
                         /\ boot' = [boot EXCEPT ![h][s].todo = @ \ {p}]
    BY <1>5 DEF Applies
  <2>1. /\ UNCHANGED <<record, loaded>> /\ boot[h][s].pc = "apply"
        /\ p \in boot[h][s].todo
        /\ boot'[h][s].pc = "apply" /\ boot'[h][s].todo = boot[h][s].todo \ {p}
        /\ boot'[h][s].want = boot[h][s].want
        /\ boot'[h][s].mode = boot[h][s].mode
        /\ \A t \in Slots : t # s => boot'[h][t] = boot[h][t]
    BY <1>0, <1>5 DEF Applies, NextPath, TypeOK, BootTypeOK, Proc
  <2>2. Changes(h, s)' = Changes(h, s)
    BY <2>1, ChangesKept
  <2>3. /\ disk'[h][p] = boot[h][s].want[p]
        /\ \A q \in Paths : q # p => disk'[h][q] = disk[h][q]
    BY DEF Write, TypeOK, BootTypeOK, Tree
  <2>4. Underway(h, s)'
    BY <2>1, <2>2, <2>3, ChangesArePaths DEF Coherent, Underway, Writing
  <2>5. ASSUME NEW t \in Slots, t # s PROVE Underway(h, t)' /\ ~Writing(h, t)'
    BY <2>1, <2>5, WritesAlone DEF Coherent, Underway, Writing
  <2>6. ASSUME WholeApplies PROVE Described(h)'
    <3>1. p \in Changes(h, s)
      BY <2>1 DEF Coherent, Underway, Writing
    <3>2. ASSUME NEW q \in Paths,
                 q \notin Changes(h, s) \ (boot[h][s].todo \ {p})
          PROVE  disk'[h][q] = record[h][q]
      BY <2>1, <2>3, <2>6, <3>1, <3>2 DEF Coherent, Described, Writing
    <3> QED
      BY <2>1, <2>2, <2>5, <3>2 DEF Described, Writing
  <2> QED
    BY <1>1, <2>4, <2>5, <2>6
<1>6. CASE ApplyFails(h, s)
  <2>1. Writing(h, s) /\ Goto(h, s, "failed") /\ UNCHANGED <<disk, record>>
    BY <1>6 DEF ApplyFails, Writing
  <2>2. /\ ~Writing(h, s)' /\ boot'[h][s].mode = "bootstrap"
        /\ \A t \in Slots : t # s => boot'[h][t] = boot[h][t]
    BY <2>1, GotoEffect DEF Writing
  <2>3. WholeApplies => disk[h] = record[h]
    BY <1>6, <2>1, CutShort DEF ApplyFails
  <2> QED
    BY <1>1, <2>1, <2>2, <2>3, LeavesCoherent
<1>7. CASE Reloads(h, s)
  <2>1. /\ UNCHANGED <<disk, record>> /\ boot[h][s].pc = "apply"
        /\ boot[h][s].todo = {} /\ Goto(h, s, "save")
        /\ loaded' = [loaded EXCEPT ![h] = disk[h]["quadlet"] # Absent]
    BY <1>7 DEF Reloads
  <2>2. /\ boot'[h][s].pc = "save" /\ boot'[h][s].todo = {}
        /\ boot'[h][s].want = boot[h][s].want
        /\ boot'[h][s].mode = boot[h][s].mode
        /\ \A t \in Slots : t # s => boot'[h][t] = boot[h][t]
    BY <2>1, GotoEffect
  <2>3. Changes(h, s)' = Changes(h, s)
    BY <2>1, <2>2, ChangesKept
  <2>4. Underway(h, s)'
    <3>1. loaded'[h] <=> disk[h]["quadlet"] # Absent
      BY <2>1 DEF TypeOK, BootTypeOK
    <3>2. \A p \in Changes(h, s) \ {} : disk[h][p] = boot[h][s].want[p]
      BY <2>1 DEF Coherent, Underway, Writing
    <3>3. boot'[h][s].mode = "teardown" => boot'[h][s].want = Empty
      <4>1. boot[h][s].mode = "teardown" => boot[h][s].want = Empty
        BY DEF Coherent, Underway
      <4> QED
        BY <2>2, <4>1
    <3> QED
      BY <2>1, <2>2, <2>3, <3>1, <3>2, <3>3 DEF Underway, Writing
  <2>5. ASSUME NEW t \in Slots, t # s PROVE Underway(h, t)' /\ ~Writing(h, t)'
    BY <2>1, <2>2, <2>5, WritesAlone DEF Coherent, Underway, Writing
  <2>6. WholeApplies => Described(h)'
    BY <2>1, <2>2, <2>3, <2>5 DEF Coherent, Described, Writing
  <2> QED
    BY <1>1, <2>4, <2>5, <2>6
<1>8. CASE Saves(h, s)
  <2>1. /\ boot[h][s].pc = "save" /\ UNCHANGED disk
        /\ record'[h] = Merge(h, s) /\ \E pc \in {"ok", "start"} : Goto(h, s, pc)
    BY <1>8 DEF Saves, TypeOK, BootTypeOK
  <2>2. /\ ~Writing(h, s)'
        /\ boot'[h][s].mode = "teardown" => boot'[h][s].want = Empty
        /\ \A t \in Slots : t # s => boot'[h][t] = boot[h][t]
    BY <2>1, GotoEffect DEF Writing, Coherent, Underway
  <2>3. ASSUME WholeApplies PROVE disk[h] = Merge(h, s)
    <3>1. ASSUME NEW p \in Paths PROVE disk[h][p] = Merge(h, s)[p]
      <4>1. CASE p \in Changes(h, s)
        BY <2>1, <4>1 DEF Coherent, Underway, Writing, Changes, Merge
      <4>2. CASE p \notin Changes(h, s)
        BY <2>1, <2>3, <4>2 DEF Coherent, Described, Writing, Changes, Merge
      <4> QED
        BY <4>1, <4>2
    <3>2. disk[h] \in Tree
      BY DEF TypeOK, BootTypeOK
    <3> QED
      BY <3>1, <3>2 DEF Merge, Tree
  <2>4. Writing(h, s)
    BY <2>1 DEF Writing
  <2> QED
    BY <1>1, <2>1, <2>2, <2>3, <2>4, LeavesCoherent
<1> QED
  BY <1>3, <1>4, <1>5, <1>6, <1>7, <1>8 DEF Step

\* Who changes files, records and processes.
LEMMA Movers ==
  ASSUME TypeOK, [Next]_vars
  PROVE  \/ \E h \in Hosts, s \in Slots : Step(h, s)
         \/ \E h \in Hosts : Reconciles(h)
         \/ /\ UNCHANGED <<disk, record, loaded>>
            /\ \/ UNCHANGED boot
               \/ \E h \in Hosts, s \in Slots, mode \in {"bootstrap", "teardown"},
                     force \in BOOLEAN, quick \in BOOLEAN :
                    Begins(h, s, mode, force, quick)
               \/ \E s \in Steps : Abandons(s)
<1> USE DEF fleetVars, hostVars, bootVars, machineVars
<1>0. /\ hosts \subseteq Hosts /\ "run" \in Slots /\ "alone" \in Slots
      /\ \A s \in Steps : s.host \in Hosts
  BY DEF TypeOK, BootTypeOK, Steps
<1>1. CASE StartRun \/ StartTeardown \/ Interrupt
  BY <1>1 DEF StartRun, StartTeardown, Interrupt
<1>2. CASE RunStep
  <2>1. CASE Summary
    BY <2>1 DEF Summary
  <2>2. ASSUME NEW s \in Steps,
               \/ Passes(s) \/ SetsUp(s) \/ OpensCheckout(s)
               \/ PlacesCredential(s) \/ StartBootstrap(s)
               \/ BootstrapEnds(s) \/ RestartsAgent(s) \/ AwaitsHealth(s)
               \/ Abandons(s) \/ TearsDown(s) \/ TeardownEnds(s)
        PROVE  /\ UNCHANGED <<disk, record, loaded>>
               /\ \/ UNCHANGED boot
                  \/ \E mode \in {"bootstrap", "teardown"}, force \in BOOLEAN,
                        quick \in BOOLEAN :
                       Begins(s.host, "run", mode, force, quick)
                  \/ Abandons(s)
    BY <2>2
    DEF Passes, SetsUp, OpensCheckout, PlacesCredential, StartBootstrap,
        BootstrapEnds, RestartsAgent, AwaitsHealth, Abandons, TearsDown,
        TeardownEnds
  <2>3. CASE \E s \in Steps :
               \/ Passes(s) \/ SetsUp(s) \/ OpensCheckout(s)
               \/ PlacesCredential(s) \/ StartBootstrap(s)
               \/ BootstrapEnds(s) \/ RestartsAgent(s) \/ AwaitsHealth(s)
               \/ Abandons(s) \/ TearsDown(s) \/ TeardownEnds(s)
    BY <1>0, <2>2, <2>3
  <2> QED
    BY <1>2, <2>1, <2>3, Zenon DEF RunStep
<1>3. ASSUME NEW h \in Hosts, AgentSteps(h)
      PROVE  Reconciles(h) \/ UNCHANGED <<disk, record, loaded, boot>>
  BY <1>3 DEF AgentSteps, AgentStarts
<1>4. ASSUME NEW h \in Hosts, ManagerStarts(h) \/ OperatorRestarts(h)
      PROVE  UNCHANGED <<disk, record, loaded, boot>>
  BY <1>4 DEF ManagerStarts, OperatorRestarts
<1>5. ASSUME NEW h \in Hosts,
             \/ AgentDies(h) \/ Rotates(h) \/ AddsSubIDs(h)
      PROVE  UNCHANGED <<disk, record, loaded, boot>>
  BY <1>5 DEF AgentDies, Rotates, AddsSubIDs
<1>6. ASSUME NEW h \in Hosts, Alone(h)
      PROVE  /\ UNCHANGED <<disk, record, loaded>>
             /\ \E force \in BOOLEAN : Begins(h, "alone", "bootstrap", force, FALSE)
  BY <1>6 DEF Alone
<1>7. CASE Push
  BY <1>7 DEF Push
<1>8. CASE UNCHANGED vars
  BY <1>8 DEF vars
<1>9. CASE World
  <2>1. CASE \E h \in Hosts : AgentDies(h) \/ Rotates(h) \/ AddsSubIDs(h)
    BY <1>5, <2>1
  <2>2. CASE \E h \in Hosts : Alone(h)
    BY <1>0, <1>6, <2>2
  <2> QED
    BY <1>0, <1>7, <1>9, <2>1, <2>2 DEF World
<1>10. CASE \E h \in Hosts : \/ AgentSteps(h) \/ ManagerStarts(h)
                             \/ OperatorRestarts(h)
                             \/ \E s \in Slots : Step(h, s) /\ UNCHANGED machineVars
  BY <1>3, <1>4, <1>10
<1> QED
  BY <1>1, <1>2, <1>8, <1>9, <1>10, Zenon DEF Next

LEMMA NextCoherent == Typed /\ Guarded /\ Coherent /\ [Next]_vars => Coherent'
<1> SUFFICES ASSUME TypeOK, Guarded, Coherent, [Next]_vars PROVE Coherent'
  BY DEF Typed
<1>a. ASSUME \A h \in Hosts : /\ \A s \in Slots : Underway(h, s)'
                              /\ WholeApplies => Described(h)'
      PROVE  Coherent'
  BY <1>a DEF Coherent, WholeApplies
<1>1. CASE \E h \in Hosts, s \in Slots : Step(h, s)
  BY <1>1, StepCoherent
<1>2. CASE \E h \in Hosts : Reconciles(h)
  <2> PICK h \in Hosts : Reconciles(h)
    BY <1>2
  <2>1. /\ unit[h] = "up" /\ UNCHANGED boot
        /\ disk'[h] = Bundle[head] /\ record'[h] = Bundle[head]
        /\ \A g \in Hosts : g # h => /\ disk'[g] = disk[g] /\ record'[g] = record[g]
                                     /\ loaded'[g] = loaded[g]
    BY DEF Reconciles, TypeOK, BootTypeOK
  <2>2. \A s \in Slots : ~Writing(h, s)
    BY <2>1, WritesAlone
  <2>3. ASSUME NEW s \in Slots PROVE Underway(h, s)'
    BY <2>1, <2>2 DEF Coherent, Underway, Writing
  <2>4. WholeApplies => Described(h)'
    BY <2>1, <2>2 DEF Described, Writing
  <2>5. ASSUME NEW g \in Hosts, g # h
        PROVE  (\A s \in Slots : Underway(g, s)') /\ (WholeApplies => Described(g)')
    BY <2>1, <2>5, QuietCoherent
  <2> QED
    BY <1>a, <2>3, <2>4, <2>5
<1>3. CASE UNCHANGED <<disk, record, loaded, boot>>
  <2>1. ASSUME NEW g \in Hosts
        PROVE  (\A s \in Slots : Underway(g, s)') /\ (WholeApplies => Described(g)')
    BY <1>3, QuietCoherent
  <2> QED
    BY <1>a, <2>1
<1>4. ASSUME UNCHANGED <<disk, record, loaded>>,
             NEW h \in Hosts, NEW s \in Slots,
             NEW mode \in {"bootstrap", "teardown"},
             NEW force, NEW quick, Begins(h, s, mode, force, quick)
      PROVE  Coherent'
  <2>1. /\ ~Writing(h, s) /\ ~Writing(h, s)'
        /\ boot'[h][s].mode = "teardown" => boot'[h][s].want = Empty
        /\ \A g \in Hosts, t \in Slots :
             ~(g = h /\ t = s) => boot'[g][t] = boot[g][t]
    BY <1>4 DEF Begins, Running, Writing, TypeOK, BootTypeOK
  <2>2. ASSUME NEW g \in Hosts
        PROVE  (\A t \in Slots : Underway(g, t)') /\ (WholeApplies => Described(g)')
    BY <1>4, <2>1, QuietCoherent
  <2> QED
    BY <1>a, <2>2
<1>5. ASSUME UNCHANGED <<disk, record, loaded>>, NEW step \in Steps, Abandons(step)
      PROVE  Coherent'
  <2> DEFINE h == step.host
  <2>0. h \in Hosts /\ "run" \in Slots /\ "alone" \in Slots
    BY DEF Steps
  <2>1. CASE /\ Goto(h, "run", "failed")
             /\ Writing(h, "run") => Fault(Cut(h, "run"))
    <3>1. /\ ~Writing(h, "run")' /\ boot'[h]["run"].mode = "bootstrap"
          /\ \A g \in Hosts, t \in Slots :
               ~(g = h /\ t = "run") => boot'[g][t] = boot[g][t]
      BY <2>0, <2>1, GotoEffect DEF Writing, PCs
    <3>2. CASE Writing(h, "run")
      <4>1. WholeApplies => disk[h] = record[h]
        BY <2>0, <2>1, <3>2, CutShort
      <4>2. (\A t \in Slots : Underway(h, t)') /\ (WholeApplies => Described(h)')
        BY <1>5, <2>0, <3>1, <3>2, <4>1, LeavesCoherent
      <4>3. ASSUME NEW g \in Hosts, g # h
            PROVE  /\ \A t \in Slots : Underway(g, t)'
                   /\ WholeApplies => Described(g)'
        BY <1>5, <2>0, <3>1, <4>3, QuietCoherent
      <4> QED
        BY <1>a, <4>2, <4>3
    <3>3. CASE ~Writing(h, "run")
      <4>1. ASSUME NEW g \in Hosts
            PROVE  /\ \A t \in Slots : Underway(g, t)'
                   /\ WholeApplies => Described(g)'
        BY <1>5, <2>0, <3>1, <3>3, QuietCoherent
      <4> QED
        BY <1>a, <4>1
    <3> QED
      BY <3>2, <3>3
  <2>2. CASE /\ ~Running(h, "alone")
             /\ boot' = [boot EXCEPT ![h]["alone"] = boot[h]["run"],
                                     ![h]["run"] = NoProc]
    <3>1. /\ boot'[h]["run"] = NoProc /\ boot'[h]["alone"] = boot[h]["run"]
          /\ \A g \in Hosts : g # h => boot'[g] = boot[g]
          /\ ~Writing(h, "alone")
      BY <2>0, <2>2 DEF TypeOK, BootTypeOK, Running, Writing
    <3>2. ~Writing(h, "run")' /\ (Writing(h, "alone")' <=> Writing(h, "run"))
      BY <3>1 DEF Writing, NoProc
    <3>3. Changes(h, "alone")' = Changes(h, "run")
      BY <1>5, <2>0, <3>1 DEF Changes, InScope
    <3>4. Underway(h, "run")' /\ Underway(h, "alone")'
      <4>1. Underway(h, "run")'
        BY <3>1, <3>2 DEF Underway, NoProc
      <4>2. Underway(h, "run")
        BY <2>0 DEF Coherent
      <4>3. Underway(h, "alone")'
        BY <1>5, <3>1, <3>2, <3>3, <4>2 DEF Underway
      <4> QED
        BY <4>1, <4>3
    <3>5. WholeApplies => Described(h)'
      <4> SUFFICES ASSUME WholeApplies PROVE Described(h)'
        OBVIOUS
      <4>1. Described(h)
        BY <2>0 DEF Coherent
      <4> QED
        BY <1>5, <3>1, <3>2, <3>3, <4>1 DEF Described
    <3>6. ASSUME NEW g \in Hosts, g # h
          PROVE  /\ \A t \in Slots : Underway(g, t)'
                 /\ WholeApplies => Described(g)'
      BY <1>5, <3>1, <3>6, QuietCoherent
    <3> QED
      BY <1>a, <3>4, <3>5, <3>6
  <2> QED
    BY <1>5, <2>1, <2>2 DEF Abandons, Writing
<1> QED
  BY <1>1, <1>2, <1>3, <1>4, <1>5, Movers

LEMMA InitCoherent == Init => Coherent
<1> SUFFICES ASSUME Init PROVE Coherent
  OBVIOUS
<1>1. /\ record = disk
      /\ \A h \in Hosts, s \in Slots : boot[h][s] = NoProc
  BY DEF Init, BootInit
<1> QED
  BY <1>1 DEF Coherent, Underway, Described, Writing, NoProc

\* Where no apply ends in its middle, an Agent that runs finds a state file that
\* describes its Host, for any number of Hosts, commands, crashes and
\* interruptions (bootstrap.go:232-246).
THEOREM AgentAlwaysKnowsItsHost ==
  ASSUME WholeApplies PROVE Spec => []AgentKnowsItsHost
<1>1. Guarded /\ Coherent => AgentKnowsItsHost
  <2> SUFFICES ASSUME Guarded, Coherent, NEW h \in Hosts, unit[h] = "up"
               PROVE  record[h] = disk[h]
    BY DEF AgentKnowsItsHost
  <2>1. \A s \in Slots : ~Writing(h, s)
    BY WritesAlone
  <2> QED
    BY <2>1 DEF Coherent, Described
<1> QED
  BY <1>1, InitTyped, StepTyped, InitGuarded, NextGuarded, InitCoherent,
     NextCoherent, PTL
  DEF Spec

\* A bootstrap writes and records the Agent's own files and no other, whoever
\* commits, deploys, crashes or is interrupted beside it (bootstrap.go:419-438).
THEOREM OthersAlwaysSpared == Spec => OthersSpared
<1>1. Typed /\ Guarded /\ Coherent /\ [Next]_vars =>
        [\A h \in Hosts :
           (\E s \in Slots : /\ boot[h][s].mode = "bootstrap"
                             /\ boot[h][s].pc \in {"apply", "save"})
           => /\ disk'[h]["app"] = disk[h]["app"]
              /\ record'[h]["app"] = record[h]["app"]]_bootVars
  <2> SUFFICES ASSUME TypeOK, Guarded, Coherent, [Next]_vars, NEW h \in Hosts,
                      NEW s \in Slots, boot[h][s].mode = "bootstrap", Writing(h, s)
               PROVE  /\ disk'[h]["app"] = disk[h]["app"]
                      /\ record'[h]["app"] = record[h]["app"]
    BY DEF Typed, Writing
  <2>1. unit[h] # "up" /\ \A t \in Slots : Writing(h, t) => t = s
    BY WritesAlone
  <2>2. CASE UNCHANGED <<disk, record>>
    BY <2>2
  <2>3. CASE \E g \in Hosts : Reconciles(g)
    BY <2>1, <2>3 DEF Reconciles, TypeOK, BootTypeOK
  <2>4. ASSUME NEW g \in Hosts, NEW t \in Slots, Step(g, t)
        PROVE  /\ disk'[h]["app"] = disk[h]["app"]
               /\ record'[h]["app"] = record[h]["app"]
    <3>1. CASE Applies(g, t)
      <4> PICK p \in Paths : NextPath(g, t, p) /\ Write(g, t, p)
        BY <3>1 DEF Applies
      <4>1. UNCHANGED record /\ Writing(g, t) /\ p \in boot[g][t].todo
        BY <3>1 DEF Applies, NextPath, Writing
      <4>2. g = h => p \in Changes(h, s)
        BY <2>1, <4>1 DEF Coherent, Underway
      <4>3. g = h => p # "app"
        BY <4>2 DEF Changes, InScope, Scope
      <4> QED
        BY <4>1, <4>3 DEF Write, TypeOK, BootTypeOK, Tree
    <3>2. CASE Saves(g, t)
      <4>1. UNCHANGED disk /\ Writing(g, t) /\ record' = [record EXCEPT ![g] = Merge(g, t)]
        BY <3>2 DEF Saves, Writing
      <4>2. g = h => Merge(g, t)["app"] = record[h]["app"]
        BY <2>1, <4>1 DEF Merge, InScope, Scope, Paths
      <4> QED
        BY <4>1, <4>2 DEF TypeOK, BootTypeOK
    <3>3. CASE UNCHANGED <<disk, record>>
      BY <3>3
    <3> QED
      BY <2>4, <3>1, <3>2, <3>3
      DEF Step, Status, Guard, Stops, Locks, ApplyFails, Reloads, Starts, Waits,
          hostVars
  <2> QED
    BY <2>2, <2>3, <2>4, Movers
<1> QED
  BY <1>1, InitTyped, StepTyped, InitGuarded, NextGuarded, InitCoherent,
     NextCoherent, PTL
  DEF Spec, OthersSpared

\* Where no apply ends in its middle, a bootstrap keeps to the Agent's own files
\* and a teardown that has removed the state file leaves no file, no unit and no
\* lock behind (bootstrap.go:276-329, 419-438).
THEOREM AlwaysStaysInScope ==
  ASSUME WholeApplies PROVE Spec => StaysInScope
<1>1. Typed /\ Guarded /\ Coherent /\ [Next]_vars =>
        [\A h \in Hosts :
           /\ boot[h]["run"].mode = "teardown" /\ boot[h]["run"].pc = "save"
           /\ boot'[h]["run"].pc = "ok"
           => disk'[h] = Empty /\ ~loaded'[h] /\ lock'[h] = "free"]_vars
  <2> SUFFICES ASSUME TypeOK, Guarded, Coherent, [Next]_vars, NEW h \in Hosts,
                      boot[h]["run"].mode = "teardown",
                      boot[h]["run"].pc = "save", boot'[h]["run"].pc = "ok"
               PROVE  disk'[h] = Empty /\ ~loaded'[h] /\ lock'[h] = "free"
    BY DEF Typed
  <2>0. "run" \in Slots /\ Writing(h, "run")
    BY DEF Writing
  <2>1. disk[h] = Empty /\ ~loaded[h] /\ lock[h] = "run"
    <3>1. boot[h]["run"].want = Empty /\ boot[h]["run"].todo = {}
          /\ (loaded[h] <=> disk[h]["quadlet"] # Absent)
      BY <2>0 DEF Coherent, Underway
    <3>2. ASSUME NEW p \in Paths PROVE disk[h][p] = Absent
      <4>1. CASE p \in Changes(h, "run")
        BY <2>0, <3>1, <4>1 DEF Coherent, Underway, Empty
      <4>2. CASE p \notin Changes(h, "run")
        BY <2>0, <3>1, <4>2 DEF Coherent, Described, Changes, InScope, Empty
      <4> QED
        BY <4>1, <4>2
    <3>3. disk[h] \in Tree
      BY DEF TypeOK, BootTypeOK
    <3>4. disk[h] = Empty
      BY <3>2, <3>3 DEF Tree, Empty
    <3> QED
      BY <2>0, <3>1, <3>2, <3>4 DEF Guarded, Locked, Paths, Scope
  <2>2. ASSUME NEW g \in Hosts, NEW t \in Slots, Step(g, t)
        PROVE  Saves(h, "run")
    <3>1. g = h /\ t = "run"
      BY <2>2
      DEF Step, Status, Guard, Stops, Locks, Applies, ApplyFails, Reloads, Saves,
          Starts, Waits, Goto, TypeOK, BootTypeOK
    <3> QED
      BY <2>2, <3>1, GotoEffect
      DEF Step, Status, Guard, Stops, Locks, Applies, ApplyFails, Reloads, Starts,
          Waits, PCs
  <2>3. CASE Saves(h, "run")
    BY <2>1, <2>3 DEF Saves, Release, TypeOK, BootTypeOK
  <2>4. ~\E s \in Steps : Abandons(s)
    <3> SUFFICES ASSUME NEW s \in Steps, Abandons(s) PROVE FALSE
      OBVIOUS
    <3>1. s.host \in Hosts
      BY DEF Steps
    <3>2. CASE Goto(s.host, "run", "failed")
      <4>1. "failed" \in PCs
        BY DEF PCs
      <4> QED
        BY <2>0, <3>1, <3>2, <4>1, GotoEffect
    <3>3. CASE boot' = [boot EXCEPT ![s.host]["alone"] = boot[s.host]["run"],
                                    ![s.host]["run"] = NoProc]
      BY <3>1, <3>3 DEF TypeOK, BootTypeOK, NoProc
    <3> QED
      BY <3>2, <3>3 DEF Abandons
  <2>5. ASSUME NEW g \in Hosts, NEW t \in Slots, NEW mode, NEW force, NEW quick,
               Begins(g, t, mode, force, quick)
        PROVE  FALSE
    BY <2>0, <2>5 DEF Begins, TypeOK, BootTypeOK
  <2>6. CASE \E g \in Hosts : Reconciles(g)
    BY <2>6 DEF Reconciles
  <2> QED
    BY <2>2, <2>3, <2>4, <2>5, <2>6, Movers
<1>2. Spec => TornDownIsGone
  BY <1>1, InitTyped, StepTyped, InitGuarded, NextGuarded, InitCoherent,
     NextCoherent, PTL
  DEF Spec, TornDownIsGone
<1> QED
  BY <1>2, OthersAlwaysSpared DEF StaysInScope

----------------------------------------------------------------------------
(* A second run. *)

LEMMA NextUnique ==
  ASSUME run \in Run, NEW s \in Steps, NEW t \in Steps, NextStep(s), NextStep(t)
  PROVE  s = t
<1>1. Precedes(s, t) /\ Precedes(t, s) /\ s.host \in Hosts /\ t.host \in Hosts
      /\ s.kind \in StepKinds /\ t.kind \in StepKinds
  BY DEF NextStep, Steps
<1>2. /\ Phase(s.kind) \in Nat /\ KindRank[s.kind] \in Nat
      /\ Phase(t.kind) \in Nat /\ KindRank[t.kind] \in Nat
  BY <1>1 DEF StepKinds, Phase, KindRank
<1>3. HostRank[s.host] \in Nat /\ HostRank[t.host] \in Nat
  BY <1>1
<1>4. s.host = t.host /\ KindRank[s.kind] = KindRank[t.kind]
  <2> DEFINE i == Phase(s.kind)    m == KindRank[s.kind]    a == HostRank[s.host]
             j == Phase(t.kind)    n == KindRank[t.kind]    b == HostRank[t.host]
  <2>1. i < j \/ (i = j /\ (a < b \/ (s.host = t.host /\ m <= n)))
    BY <1>1 DEF Precedes
  <2>2. j < i \/ (j = i /\ (b < a \/ (t.host = s.host /\ n <= m)))
    BY <1>1 DEF Precedes
  <2>3. s.host = t.host => a = b
    OBVIOUS
  <2> HIDE DEF i, j, m, n, a, b
  <2>4. s.host = t.host /\ m = n
    <3>1. i \in Nat /\ j \in Nat /\ m \in Nat /\ n \in Nat /\ a \in Nat /\ b \in Nat
      BY <1>2, <1>3 DEF i, j, m, n, a, b
    <3> QED
      BY <2>1, <2>2, <2>3, <3>1
  <2> QED
    BY <2>4 DEF m, n
<1>5. s.kind = t.kind
  BY <1>1, <1>4 DEF StepKinds, KindRank
<1> QED
  BY <1>4, <1>5 DEF Steps

\* A run has the steps its Hosts need and no other, waits for the Agent of the
\* Host whose bootstrap comes next, and restarts it once, for a credential. What
\* a rootful Host has of a user it had from the start.
RunBook ==
  /\ \A h \in Rootful : has[h] \cap UserKinds # {} => has[h] = Setup
  /\ run.mode = "run" =>
       /\ \A s \in run.todo : s.kind \in Setup => s.kind \in Planned(s.host)
       /\ \A s \in run.todo :
            s.kind = "bootstrap" /\ s.host \in run.restarted =>
              run.pc = "wait" /\ NextStep(s)
       /\ run.pc \in {"boot", "restart", "wait"} =>
            \A s \in Steps : NextStep(s) => s.kind = "bootstrap"
       /\ run.pc = "restart" =>
            \A s \in Steps : NextStep(s) => s.host \in run.required

\* The setup of a Host is planned whatever credentials there are.
LEMMA PlannedSetup ==
  ASSUME NEW h \in Hosts, NEW k \in Setup
  PROVE  /\ k \in Planned(h) <=> (h \in Rootful => k \in {"socket", "dirs"})
         /\ k \in Planned(h)' <=> (h \in Rootful => k \in {"socket", "dirs"})
BY DEF Planned, Setup, UserKinds

\* The run's record of what is to be done stays, or gets shorter.
LEMMA RunBookKept ==
  ASSUME TypeOK, RunBook, UNCHANGED has, run'.mode = run.mode,
         run'.todo = run.todo, run'.required = run.required,
         run'.restarted = run.restarted, run'.pc = run.pc
  PROVE  RunBook'
<1>1. \A s \in Steps : NextStep(s)' <=> NextStep(s)
  BY DEF NextStep
<1>2. \A s \in run.todo : s \in Steps /\ s.host \in Hosts
  BY DEF TypeOK, Run, Steps
<1> QED
  BY <1>1, <1>2, PlannedSetup DEF RunBook

LEMMA GoesOnRunBook ==
  ASSUME TypeOK, RunBook, NEW r \in Run, NEW s \in Steps, NEW ok \in BOOLEAN,
         r.todo = run.todo, r.restarted = run.restarted, r.mode = run.mode,
         NextStep(s), GoesOn(r, s, ok),
         \A h \in Rootful : has'[h] \cap UserKinds # {} => has'[h] = Setup
  PROVE  RunBook'
<1>1. CASE run.cancelled
  BY <1>1 DEF GoesOn, Ends, NoRun, RunBook
<1>2. CASE ~run.cancelled
  <2>1. /\ run'.pc = "step" /\ run'.todo = run.todo \ {s}
        /\ run'.restarted = run.restarted /\ run'.mode = run.mode
    <3> DEFINE stopped == IF ok THEN r.stopped ELSE r.stopped \cup {s.host}
    <3>1. run' = [r EXCEPT !.pc = "step", !.todo = r.todo \ {s},
                           !.stopped = stopped]
      BY <1>2 DEF GoesOn
    <3> HIDE DEF stopped
    <3> QED
      BY <3>1 DEF Run
  <2>2. \A t \in run.todo : t \in Steps /\ t.host \in Hosts
    BY DEF TypeOK, Run, Steps
  <2>3. \A t \in run.todo \ {s} : ~NextStep(t)
    BY <2>2, NextUnique DEF TypeOK
  <2> QED
    BY <2>1, <2>2, <2>3, PlannedSetup DEF RunBook
<1> QED
  BY <1>1, <1>2

LEMMA RunStepBook ==
  ASSUME TypeOK, RunBook, RunStep
  PROVE  RunBook'
<1> USE DEF fleetVars, hostVars, bootVars
<1>0. run \in Run /\ \A s \in run.todo : s \in Steps /\ s.host \in Hosts
  BY DEF TypeOK, Run, Steps
<1>1. CASE Summary
  BY <1>1 DEF Summary, Ends, NoRun, RunBook
<1>2. ASSUME NEW s \in Steps, NextStep(s),
             \/ run.pc = "step" /\ \/ Passes(s) \/ SetsUp(s)
                                   \/ OpensCheckout(s) \/ PlacesCredential(s)
                                   \/ StartBootstrap(s)
             \/ BootstrapEnds(s) \/ RestartsAgent(s) \/ AwaitsHealth(s)
             \/ Abandons(s) \/ TearsDown(s) \/ TeardownEnds(s)
      PROVE  RunBook'
  <2>1. ASSUME NEW ok \in BOOLEAN, GoesOn(run, s, ok), UNCHANGED has
        PROVE  RunBook'
    BY <1>0, <1>2, <2>1, GoesOnRunBook DEF RunBook
  <2>2. CASE Passes(s) /\ run.pc = "step"
    <3>1. /\ run'.mode = run.mode /\ run'.todo = run.todo \ {s} /\ run'.pc = "step"
          /\ run'.restarted = run.restarted /\ UNCHANGED has
      BY <1>0, <2>2 DEF Passes, Run
    <3> QED
      BY <1>0, <2>2, <3>1, PlannedSetup DEF RunBook
  <2>3. CASE SetsUp(s) /\ run.pc = "step"
    <3>1. \A h \in Rootful : has'[h] \cap UserKinds # {} => has'[h] = Setup
      <4>1. s.kind \in Setup /\ s.kind \in Planned(s.host) /\ s.host \in Hosts
        BY <1>0, <1>2, <2>3 DEF SetsUp, Applied, NextStep, RunBook, Steps
      <4> DEFINE gets == IF s.kind = "user" THEN {"user", "subids"} ELSE {s.kind}
      <4>2. UNCHANGED has \/ has' = [has EXCEPT ![s.host] = @ \cup gets]
        BY <2>3, Zenon DEF SetsUp
      <4>3. s.host \in Rootful => gets \cap UserKinds = {} /\ gets \subseteq Setup
        BY <4>1, PlannedSetup DEF UserKinds
      <4> HIDE DEF gets
      <4>4. ASSUME NEW h \in Rootful, has'[h] \cap UserKinds # {}
            PROVE  has'[h] = Setup
        <5>1. has'[h] = has[h] \/ (h = s.host /\ has'[h] = has[h] \cup gets)
          BY <4>1, <4>2 DEF TypeOK
        <5>2. has[h] \cap UserKinds # {}
          BY <4>3, <4>4, <5>1
        <5>3. has[h] = Setup
          BY <5>2 DEF RunBook
        <5> QED
          BY <4>3, <5>1, <5>3
      <4> QED
        BY <4>4
    <3>2. (\E ok \in BOOLEAN : GoesOn(run, s, ok)) /\ run.mode = "run"
      BY <2>3, Zenon DEF SetsUp, Applied
    <3> QED
      BY <1>0, <1>2, <3>1, <3>2, GoesOnRunBook
  <2>4. CASE OpensCheckout(s)
    BY <2>1, <2>4 DEF OpensCheckout, Applied
  <2>5. CASE PlacesCredential(s)
    <3> DEFINE r == IF cred[s.host] = source[s.host] THEN run
                    ELSE [run EXCEPT !.required = @ \cup {s.host}]
    <3>1. /\ r \in Run /\ r.todo = run.todo /\ r.restarted = run.restarted
          /\ r.mode = run.mode
      BY <1>0 DEF Run, Steps
    <3>2. GoesOn(r, s, TRUE) \/ GoesOn(run, s, FALSE)
      BY <2>5, Zenon DEF PlacesCredential
    <3>3. run.mode = "run" /\ UNCHANGED has
      BY <2>5 DEF PlacesCredential, Applied
    <3> HIDE DEF r
    <3> QED
      BY <1>0, <1>2, <2>1, <3>1, <3>2, <3>3, GoesOnRunBook DEF RunBook
  <2>6. CASE StartBootstrap(s) /\ run.pc = "step"
    <3>1. CASE GoesOn(run, s, FALSE)
      BY <2>1, <2>6, <3>1 DEF StartBootstrap, Applied
    <3>2. CASE run' = [run EXCEPT !.pc = "boot"]
      <4>1. /\ run'.mode = run.mode /\ run'.todo = run.todo /\ run'.pc = "boot"
            /\ run'.restarted = run.restarted /\ UNCHANGED has
            /\ s.kind = "bootstrap"
        BY <1>0, <2>6, <3>2 DEF StartBootstrap, Run
      <4>2. \A t \in Steps : NextStep(t)' => t = s
        BY <1>0, <1>2, <4>1, NextUnique DEF NextStep
      <4> QED
        BY <1>0, <2>6, <4>1, <4>2, PlannedSetup DEF RunBook
    <3> QED
      BY <2>6, <3>1, <3>2, Zenon DEF StartBootstrap
  <2>7. CASE BootstrapEnds(s)
    <3>0. run.pc = "boot" /\ run.mode = "run" /\ UNCHANGED has
      BY <2>7 DEF BootstrapEnds
    <3>1. CASE GoesOn(run, s, FALSE)
      BY <2>1, <3>0, <3>1
    <3>2. CASE \/ s.host \in run.required /\ run' = [run EXCEPT !.pc = "restart"]
               \/ run' = [run EXCEPT !.pc = "wait"]
      <4>1. /\ run'.mode = run.mode /\ run'.todo = run.todo
            /\ run'.restarted = run.restarted /\ run'.required = run.required
            /\ run'.pc = "wait" \/ (run'.pc = "restart" /\ s.host \in run.required)
        BY <1>0, <3>2 DEF Run
      <4>2. \A t \in Steps : NextStep(t)' => t = s
        BY <1>0, <1>2, <4>1, NextUnique DEF NextStep
      <4>3. s.kind = "bootstrap"
        BY <1>2, <3>0 DEF RunBook
      <4> QED
        BY <1>0, <3>0, <4>1, <4>2, <4>3, PlannedSetup DEF RunBook
    <3> QED
      BY <2>7, <3>1, <3>2, Zenon DEF BootstrapEnds
  <2>8. CASE RestartsAgent(s)
    <3>0. run.pc = "restart" /\ UNCHANGED has
      BY <2>8 DEF RestartsAgent
    <3>1. CASE GoesOn(run, s, FALSE)
      BY <2>1, <3>0, <3>1
    <3>2. CASE run' = [run EXCEPT !.pc = "wait", !.restarted = @ \cup {s.host}]
      <4>1. /\ run'.mode = run.mode /\ run'.todo = run.todo /\ run'.pc = "wait"
            /\ run'.restarted = run.restarted \cup {s.host}
        BY <1>0, <3>2 DEF Run
      <4>2. \A t \in Steps : NextStep(t)' <=> t = s
        BY <1>0, <1>2, <4>1, NextUnique DEF NextStep
      <4>3. ASSUME run.mode = "run", NEW t \in run.todo, t.kind = "bootstrap",
                   t.host \in run.restarted \cup {s.host}
            PROVE  t = s
        <5>1. s.kind = "bootstrap" /\ t.host \notin run.restarted
          BY <1>2, <3>0, <4>3 DEF RunBook
        <5> QED
          BY <1>0, <4>3, <5>1 DEF Steps
      <4>4. run.mode = "run" => s.kind = "bootstrap"
        BY <1>2, <3>0 DEF RunBook
      <4> QED
        BY <1>0, <3>0, <4>1, <4>2, <4>3, <4>4, PlannedSetup DEF RunBook
    <3> QED
      BY <2>8, <3>1, <3>2, Zenon DEF RestartsAgent
  <2>9. CASE AwaitsHealth(s)
    <3>1. (\E ok \in BOOLEAN : GoesOn(run, s, ok)) /\ UNCHANGED has
      BY <2>9, Zenon DEF AwaitsHealth
    <3> QED
      BY <2>1, <3>1
  <2>10. CASE Ends(run) /\ UNCHANGED has
    BY <2>10 DEF Ends, NoRun, RunBook
  <2>11. CASE TearsDown(s)
    <3>1. \/ Ends(run)
          \/ run' = [run EXCEPT !.pc = "boot"]
          \/ run' = [run EXCEPT !.todo = @ \ {s}]
      BY <2>11, Zenon DEF TearsDown
    <3>2. run.mode = "teardown" /\ UNCHANGED has
      BY <2>11 DEF TearsDown
    <3>3. CASE run'.mode = "teardown"
      BY <3>2, <3>3 DEF RunBook
    <3> QED
      BY <1>0, <2>10, <3>1, <3>2, <3>3 DEF Run
  <2>12. CASE TeardownEnds(s)
    BY <1>0, <2>12 DEF TeardownEnds, RunBook, Run
  <2>13. CASE Abandons(s)
    BY <2>10, <2>13 DEF Abandons
  <2> QED
    BY <1>2, <2>2, <2>3, <2>4, <2>5, <2>6, <2>7, <2>8, <2>9, <2>11, <2>12,
       <2>13, Zenon
<1> QED
  BY <1>1, <1>2, Zenon DEF RunStep

LEMMA InitRunBook == Init => RunBook
BY DEF Init, RunBook, NoRun, UserKinds

\* What the managers and the operator add is not for a rootful Host.
LEMMA NextRunBook == Typed /\ RunBook /\ [Next]_vars => RunBook'
<1> SUFFICES ASSUME TypeOK, RunBook, [Next]_vars PROVE RunBook'
  BY DEF Typed
<1> USE DEF fleetVars, hostVars, bootVars, machineVars
<1>0. hosts \subseteq Hosts /\ run \in Run
  BY DEF TypeOK, BootTypeOK
<1>1. CASE UNCHANGED <<run, has>>
  BY <1>1, RunBookKept
<1>2. CASE StartRun
  <2>1. /\ run'.mode = "run" /\ run'.pc = "step" /\ run'.restarted = {}
        /\ run'.todo = {s \in Steps : /\ s.host \in hosts
                                      /\ s.kind \in Planned(s.host)}
        /\ UNCHANGED has
    BY <1>2 DEF StartRun, NoRun
  <2>2. \A s \in run'.todo : s.kind \in Setup => s.kind \in Planned(s.host)'
    BY <2>1, PlannedSetup DEF Steps
  <2> QED
    BY <2>1, <2>2 DEF RunBook
<1>3. CASE StartTeardown
  BY <1>3 DEF StartTeardown, NoRun, RunBook
<1>4. CASE Interrupt
  BY <1>0, <1>4, RunBookKept DEF Interrupt, Run
<1>5. ASSUME NEW h \in Hosts, ManagerStarts(h) \/ AddsSubIDs(h)
      PROVE  RunBook'
  <2>1. h \notin Rootful
    BY <1>5 DEF ManagerStarts, AddsSubIDs, RunBook, UserKinds, Setup
  <2>2. UNCHANGED <<run, source>> /\ \A g \in Rootful : has'[g] = has[g]
    BY <1>5, <2>1 DEF ManagerStarts, AddsSubIDs, TypeOK
  <2>3. \A s \in Steps : NextStep(s)' <=> NextStep(s)
    BY <2>2 DEF NextStep
  <2>4. \A s \in run.todo : s \in Steps /\ s.host \in Hosts
    BY <1>0 DEF Run, Steps
  <2> QED
    BY <2>2, <2>3, <2>4, PlannedSetup DEF RunBook
<1>6. CASE World \/ \E h \in Hosts : AgentSteps(h) \/ OperatorRestarts(h)
  BY <1>0, <1>1, <1>5, <1>6
  DEF World, AgentSteps, OperatorRestarts, Reconciles, AgentStarts, AgentDies,
      Push, Rotates, Alone
<1> QED
  BY <1>1, <1>2, <1>3, <1>4, <1>5, <1>6, RunStepBook DEF Next, vars

Kept == UNCHANGED <<hostVars, cred, read, has, readable, owned>>

\* What a run does with a step, where everything is as it should be.
LEMMA IdleRunStep ==
  ASSUME TypeOK, Guarded, RunBook, AllCurrent, RunStep
  PROVE  Kept
<1> USE DEF fleetVars, hostVars, bootVars, Kept
<1>0. run \in Run /\ run.mode = "run" /\ "run" \in Slots
  BY DEF TypeOK, AllCurrent
<1>1. CASE Summary
  BY <1>1 DEF Summary
<1>2. ASSUME NEW s \in Steps, NextStep(s),
             \/ run.pc = "step" /\ \/ Passes(s) \/ SetsUp(s)
                                   \/ OpensCheckout(s) \/ PlacesCredential(s)
                                   \/ StartBootstrap(s)
             \/ BootstrapEnds(s) \/ RestartsAgent(s) \/ AwaitsHealth(s)
             \/ Abandons(s) \/ TearsDown(s) \/ TeardownEnds(s)
      PROVE  Kept
  <2>0. s.host \in Hosts /\ s \in run.todo
    BY <1>2 DEF Steps, NextStep
  <2>1. ~SetsUp(s)
    <3> SUFFICES ASSUME SetsUp(s) PROVE FALSE
      OBVIOUS
    <3>1. s.kind \in Setup /\ ~Done(s.host, s.kind)
      BY DEF SetsUp, Applied
    <3>2. s.kind \in Planned(s.host)
      BY <1>0, <2>0, <3>1 DEF RunBook
    <3>3. s.kind \in has[s.host]
      BY <2>0, <3>1, <3>2 DEF AllCurrent
    <3> QED
      BY <3>1, <3>3 DEF Done, Setup, UserKinds
  <2>2. ~OpensCheckout(s) /\ ~PlacesCredential(s)
    <3>1. s.kind = "checkout" => Done(s.host, s.kind)
      BY DEF Done, AllCurrent, Setup, UserKinds
    <3>2. s.kind = "credential" => Done(s.host, s.kind)
      BY <2>0 DEF Done, AllCurrent, Setup, UserKinds
    <3> QED
      BY <3>1, <3>2 DEF OpensCheckout, PlacesCredential, Applied
  <2>3. ~RestartsAgent(s)
    <3> SUFFICES ASSUME RestartsAgent(s) PROVE FALSE
      OBVIOUS
    <3>1. run.pc = "restart"
      BY DEF RestartsAgent
    <3>2. s.kind = "bootstrap" /\ s.host \in run.required
      BY <1>0, <1>2, <3>1 DEF RunBook
    <3> QED
      BY <1>0, <2>0, <3>1, <3>2 DEF AllCurrent, RunBook
  <2>4. CASE Abandons(s)
    <3>1. lock[s.host] = "agent" /\ s.host \in Hosts
      BY <2>0 DEF Guarded, AllCurrent
    <3>2. "run" # "agent" /\ lock = [h \in Hosts |-> lock[h]]
      BY DEF TypeOK, BootTypeOK
    <3>3. lock' = lock
      BY <2>4, <3>1, <3>2 DEF Abandons, Release
    <3> QED
      BY <2>4, <3>3 DEF Abandons
  <2>5. CASE TearsDown(s) \/ TeardownEnds(s)
    BY <1>0, <2>5 DEF TearsDown, TeardownEnds
  <2> QED
    BY <1>2, <2>1, <2>2, <2>3, <2>4, <2>5
    DEF Passes, StartBootstrap, BootstrapEnds, AwaitsHealth
<1> QED
  BY <1>1, <1>2, Zenon DEF RunStep

\* Once every Host is current, a run of the Machine, and the processes still on
\* it, change nothing and restart nobody, however a run was interrupted and
\* whatever it had done by then (run.go:37-41, README.md:143-144).
THEOREM SecondRunAlwaysIdle == Spec => SecondRunIdle
<1>1. Typed /\ Guarded /\ RunBook /\ [Next]_vars =>
        [AllCurrent /\ UNCHANGED <<faults, events>> => Kept]_vars
  <2> SUFFICES ASSUME TypeOK, Guarded, RunBook, [Next]_vars, AllCurrent,
                      UNCHANGED <<faults, events>>
               PROVE  Kept
    BY DEF Typed
  <2> USE DEF fleetVars, hostVars, bootVars, machineVars, Kept
  <2>0. hosts \subseteq Hosts /\ faults \in Nat
    BY DEF TypeOK, BootTypeOK
  <2>1. CASE StartRun \/ StartTeardown \/ Interrupt \/ UNCHANGED vars
    BY <2>1 DEF StartRun, StartTeardown, Interrupt, vars
  <2>2. CASE RunStep
    BY <2>2, IdleRunStep
  <2>3. ASSUME NEW h \in Hosts, NEW s \in Slots, Step(h, s), UNCHANGED machineVars
        PROVE  Kept
    <3>1. s = "run" \/ s = "alone"
      OBVIOUS
    <3>2. boot[h][s].pc \notin {"stop", "lock", "apply", "save", "start"}
      BY <3>1 DEF AllCurrent, Running
    <3> QED
      BY <2>3, <3>2
      DEF Step, Status, Guard, Stops, Locks, Applies, ApplyFails, Reloads, Saves,
          Starts, Waits
  <2>4. ASSUME NEW h \in Hosts
        PROVE  ~AgentSteps(h) /\ ~OperatorRestarts(h) /\ ~AgentDies(h)
    <3>1. ~AgentSteps(h)
      BY DEF AgentSteps, AgentStarts, Reconciles, AllCurrent
    <3>2. ~OperatorRestarts(h)
      BY DEF OperatorRestarts, AllCurrent
    <3>3. ~AgentDies(h)
      BY <2>0 DEF AgentDies, Fault
    <3> QED
      BY <3>1, <3>2, <3>3
  <2>5. ASSUME NEW h \in Hosts
        PROVE  ~ManagerStarts(h) /\ ~AddsSubIDs(h)
    <3>1. CASE h \in Rootful
      BY <3>1 DEF ManagerStarts, AddsSubIDs, RunBook, UserKinds, Setup
    <3>2. CASE h \notin Rootful
      BY <3>2 DEF ManagerStarts, AddsSubIDs, AllCurrent, Planned, UserKinds, Setup
    <3> QED
      BY <3>1, <3>2
  <2>6. CASE World
    BY <2>0, <2>4, <2>5, <2>6 DEF World, Push, Rotates, Alone
  <2> QED
    BY <2>1, <2>2, <2>3, <2>4, <2>5, <2>6 DEF Next
<1> QED
  BY <1>1, InitTyped, StepTyped, InitGuarded, NextGuarded, InitRunBook,
     NextRunBook, PTL
  DEF Spec, SecondRunIdle, Kept
=============================================================================
