------------------------------- MODULE Health -------------------------------
(***************************************************************************)
(* The health pass of every tick (Checker.Enforce) over time: units that   *)
(* failed are restarted, each at most once in a cooldown, and the units    *)
(* whose restart failed, in a pass or in an apply, are on the pending      *)
(* record of the state file until they converge or nobody retries them.    *)
(* The cooldowns are in the Agent's memory, the record outlives it.        *)
(*                                                                         *)
(* Times are ages: how long ago something happened, at most Cooldown.      *)
(***************************************************************************)
EXTENDS Naturals, FiniteSets

CONSTANTS
  Units,
  Kind,        \* Kind[u]: which of UnitKinds u is
  Cooldown,    \* restartCooldown
  None,        \* no record
  Faults,      \* the kinds of fault that can happen
  MaxFaults,   \* bound on the faults of a behaviour
  MaxApplies   \* bound on the applies of a behaviour

\* "image": a one-shot only an apply restarts (HealthReportOnly,
\* RestartChanged); "build": one nothing restarts; "job": a one-shot systemd
\* activates; "passive": a timer, socket, target or path.
UnitKinds == {"daemon", "image", "build", "job", "passive"}

FaultKinds == {"query", "fails", "restart", "save", "crash"}

ASSUME HealthAssumption ==
  /\ Kind \in [Units -> UnitKinds]
  /\ Cooldown \in Nat \ {0}
  /\ None \notin 0..Cooldown
  /\ Faults \subseteq FaultKinds /\ MaxFaults \in Nat /\ MaxApplies \in Nat

VARIABLES
  mode,         \* ActiveState of each unit
  saved,        \* the state file: its units and its pending record
  st,           \* the state of the tick
  pc,           \* where the tick is
  todo,         \* units the pass still has to look at
  lastRestart,  \* age of the last restart of a unit, as far as the Agent knows
  tried,        \* age of the last restart by this Agent's health passes
  faults, applies

vars == <<mode, saved, st, pc, todo, lastRestart, tried, faults, applies>>

Ages   == 0..Cooldown
Record == [Units -> Ages \cup {None}]     \* LastAttemptAt of a pending unit
State  == [units : SUBSET Units, pending : Record]
Modes  == {"active", "inactive", "failed"}
PCs    == {"down", "idle", "enforce", "checked", "merged"}

NoRecord == [u \in Units |-> None]
Expired  == [u \in Units |-> Cooldown]

Pending(s) == {u \in Units : s.pending[u] # None}

Init ==
  /\ mode \in [Units -> {"active", "inactive"}]
  /\ \E units \in SUBSET Units : saved = [units |-> units, pending |-> NoRecord]
  /\ st = saved /\ pc = "down" /\ todo = {}
  /\ lastRestart = Expired /\ tried = Expired
  /\ faults = 0 /\ applies = 0

TypeOK ==
  /\ mode \in [Units -> Modes]
  /\ saved \in State /\ st \in State
  /\ pc \in PCs /\ todo \subseteq Units
  /\ lastRestart \in [Units -> Ages] /\ tried \in [Units -> Ages]
  /\ faults \in 0..MaxFaults /\ applies \in 0..MaxApplies

----------------------------------------------------------------------------
(* The environment. *)

Fault(k) == k \in Faults /\ faults < MaxFaults /\ faults' = faults + 1

Older(age) == IF age = Cooldown THEN age ELSE age + 1

OlderRecord(pending) ==
  [u \in Units |-> IF pending[u] = None THEN None ELSE Older(pending[u])]

Elapse ==
  /\ lastRestart' = [u \in Units |-> Older(lastRestart[u])]
  /\ tried' = [u \in Units |-> Older(tried[u])]
  /\ saved' = [saved EXCEPT !.pending = OlderRecord(@)]
  /\ st' = [st EXCEPT !.pending = OlderRecord(@)]
  /\ UNCHANGED <<mode, pc, todo, faults, applies>>

\* A unit fails by itself.
Fails(u) ==
  /\ Kind[u] # "passive" /\ mode[u] # "failed" /\ Fault("fails")
  /\ mode' = [mode EXCEPT ![u] = "failed"]
  /\ UNCHANGED <<saved, st, pc, todo, lastRestart, tried, applies>>

\* A timer, a consumer or an operator starts a unit, or it ends as it should.
Moves(u, m) ==
  /\ mode[u] # m /\ m # "failed"
  /\ Kind[u] # "daemon" \/ mode[u] = "inactive"
  /\ mode' = [mode EXCEPT ![u] = m]
  /\ UNCHANGED <<saved, st, pc, todo, lastRestart, tried, faults, applies>>

----------------------------------------------------------------------------
(* The Agent. *)

Start ==
  /\ pc = "down"
  /\ lastRestart' = Expired /\ tried' = Expired
  /\ pc' = "idle"
  /\ UNCHANGED <<mode, saved, st, todo, faults, applies>>

Crash ==
  /\ pc # "down" /\ Fault("crash")
  /\ pc' = "down" /\ todo' = {} /\ st' = saved
  /\ UNCHANGED <<mode, saved, lastRestart, tried, applies>>

\* Mutant: the record is not consulted.
ForgetsRecord(u, s) == lastRestart[u]

\* Enforce takes over an attempt that is later than those it remembers.
LatestAttempt(u, s) ==
  IF s.pending[u] # None /\ s.pending[u] < lastRestart[u]
  THEN s.pending[u] ELSE lastRestart[u]

\* A tick loads the state file; the pass first forgets units that left.
Tick ==
  /\ pc = "idle"
  /\ st' = [saved EXCEPT !.pending = [u \in Units |-> IF u \in saved.units
                                                      THEN @[u] ELSE None]]
  /\ lastRestart' = [u \in Units |-> IF u \in saved.units
                                     THEN LatestAttempt(u, saved)
                                     ELSE Cooldown]
  /\ tried' = [u \in Units |-> IF u \in saved.units THEN tried[u]
                               ELSE Cooldown]
  /\ todo' = saved.units /\ pc' = "enforce"
  /\ UNCHANGED <<mode, saved, faults, applies>>

\* Mutant: an image is like a daemon.
RestartsOneShots(u) == Kind[u] \in {"daemon", "image"}

\* Not ExternallyActivated, and restartableByHealth: a daemon, or an image
\* whose restart in an apply failed.
Restartable(u) ==
  \/ Kind[u] = "daemon"
  \/ Kind[u] = "image" /\ st.pending[u] # None

\* Mutant: only units on the record have a cooldown that ends.
CooledOnRecord(u) == st.pending[u] = Cooldown

Cooled(u) == lastRestart[u] = Cooldown

Visits(u) == pc = "enforce" /\ u \in todo /\ todo' = todo \ {u}

\* The status query fails: the unit is left for the next pass.
QueryFails(u) ==
  /\ Visits(u) /\ Fault("query")
  /\ UNCHANGED <<mode, saved, st, pc, lastRestart, tried, applies>>

NotRetried(u) ==
  Kind[u] = "passive" \/ mode[u] # "failed" \/ ~Restartable(u)

\* Mutant: only a unit seen to run leaves the record.
SettleActive(u) ==
  /\ Visits(u) /\ NotRetried(u)
  /\ st' = IF mode[u] = "active" THEN [st EXCEPT !.pending[u] = None] ELSE st
  /\ UNCHANGED <<mode, saved, pc, lastRestart, tried, faults, applies>>

\* A passive unit, one that runs or rests, and one nobody retries are not
\* pending any longer.
Settle(u) ==
  /\ Visits(u) /\ NotRetried(u)
  /\ st' = [st EXCEPT !.pending[u] = None]
  /\ UNCHANGED <<mode, saved, pc, lastRestart, tried, faults, applies>>

\* maybeRestart, within the cooldown.
CoolDown(u) ==
  /\ Visits(u) /\ ~NotRetried(u) /\ ~Cooled(u)
  /\ UNCHANGED <<mode, saved, st, pc, lastRestart, tried, faults, applies>>

\* maybeRestart: the attempt counts before its result is known. A restart that
\* fails leaves the unit failed, or inactive if a dependency failed.
Retry(u) ==
  /\ Visits(u) /\ ~NotRetried(u) /\ Cooled(u)
  /\ lastRestart' = [lastRestart EXCEPT ![u] = 0]
  /\ tried' = [tried EXCEPT ![u] = 0]
  /\ \/ /\ mode' = [mode EXCEPT ![u] = "active"]
        /\ UNCHANGED <<st, faults>>
     \/ /\ Fault("restart")
        /\ \/ UNCHANGED mode
           \/ mode' = [mode EXCEPT ![u] = "inactive"]
        /\ st' = [st EXCEPT !.pending[u] = 0]
  /\ UNCHANGED <<saved, pc, applies>>

\* The record is saved when the pass changed it; an error is only logged.
EndPass ==
  /\ pc = "enforce" /\ todo = {} /\ pc' = "checked"
  /\ \/ saved' = st /\ UNCHANGED faults
     \/ st # saved /\ Fault("save") /\ UNCHANGED saved
  /\ UNCHANGED <<mode, st, todo, lastRestart, tried, applies>>

\* The tick applies nothing: paused, nothing to do, or it failed.
EndTick ==
  /\ pc = "checked" /\ pc' = "idle" /\ st' = saved
  /\ UNCHANGED <<mode, saved, todo, lastRestart, tried, faults, applies>>

\* An apply: the Fleet's units, those it restarted, those it could not (which
\* may be in any state). A failed build fails the apply (mergePendingUnits,
\* prunePendingUnits).
Apply(units, restarted, broken, left) ==
  /\ pc = "checked" /\ applies < MaxApplies /\ applies' = applies + 1
  /\ restarted \cup broken \subseteq units
  /\ restarted \cap broken = {}
  /\ \A u \in broken : Kind[u] # "build"
  /\ IF broken = {} THEN UNCHANGED faults ELSE Fault("restart")
  /\ mode' = [u \in Units |-> IF u \in restarted THEN "active"
                              ELSE IF u \in broken THEN left[u]
                              ELSE IF u \in units THEN mode[u]
                              ELSE "inactive"]
  /\ st' = [units   |-> units,
            pending |-> [u \in Units |->
                           IF u \in broken THEN 0
                           ELSE IF u \in restarted \/ u \notin units THEN None
                           ELSE st.pending[u]]]
  /\ pc' = "merged"
  /\ UNCHANGED <<saved, todo, lastRestart, tried>>

SaveApply ==
  /\ pc = "merged" /\ pc' = "idle"
  /\ \/ saved' = st /\ UNCHANGED faults
     \/ Fault("save") /\ UNCHANGED saved
  /\ st' = saved'
  /\ UNCHANGED <<mode, todo, lastRestart, tried, applies>>

Pass(u) == QueryFails(u) \/ Settle(u) \/ CoolDown(u) \/ Retry(u)

Agent == \/ Start \/ Tick \/ EndPass \/ EndTick \/ SaveApply
         \/ \E u \in Units : Pass(u)

Environment ==
  \/ Elapse \/ Crash
  \/ \E u \in Units : Fails(u) \/ \E m \in Modes : Moves(u, m)
  \/ \E units, restarted, broken \in SUBSET Units :
       \E left \in [broken -> Modes] : Apply(units, restarted, broken, left)

Next == Agent \/ Environment

Spec == Init /\ [][Next]_vars

\* Ticks follow one another, every call in them has a timeout, and time passes.
FairSpec == Spec /\ WF_vars(Agent) /\ WF_vars(Elapse)

----------------------------------------------------------------------------
(* Properties. *)

\* A health pass restarts a unit only when a cooldown has passed since the
\* last time it did, as long as the Agent runs, and since the attempt on
\* the pending record, whoever made it and whichever Agent recorded it.
CooldownHeld ==
  [][\A u \in Units : Retry(u) =>
        /\ tried[u] = Cooldown
        /\ saved.pending[u] \in {None, Cooldown}]_vars

\* A one-shot that failed by itself is never put on the pending record: it
\* gets there by a failed restart of an apply (restartableByHealth).
OneShotsPendByApply ==
  [][\A u \in Pending(saved)' \ Pending(saved) :
        Kind[u] # "daemon" => pc = "merged"]_vars

\* A failed daemon is restarted in the end, or leaves the Fleet.
Recovers ==
  \A u \in Units : Kind[u] = "daemon" =>
    (u \in saved.units /\ mode[u] = "failed")
      ~> (u \notin saved.units \/ mode[u] # "failed")

\* No unit is on the record forever when failures are finite: the tick does
\* not stay in retry_pending (enforceUnit).
PendingSettles == <>[](Pending(saved) = {})
=============================================================================
