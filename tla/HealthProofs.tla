---------------------------- MODULE HealthProofs ----------------------------
(* Theorems about Health, for any units, kinds, cooldown and faults. *)
EXTENDS Health, TLAPS

LEMMA OlderAge == \A age \in Ages : Older(age) \in Ages /\ age <= Older(age)
BY HealthAssumption DEF Older, Ages

LEMMA OlderMonotone ==
  ASSUME NEW a \in Ages, NEW b \in Ages, a <= b
  PROVE  Older(a) <= Older(b)
BY HealthAssumption DEF Older, Ages

LEMMA OlderRecordIsRecord ==
  ASSUME NEW p \in Record
  PROVE  /\ OlderRecord(p) \in Record
         /\ \A u \in Units : OlderRecord(p)[u] = None <=> p[u] = None
<1>1. \A age \in Ages : Older(age) \in Ages /\ Older(age) # None
  BY OlderAge, HealthAssumption DEF Ages
<1> QED
  BY <1>1 DEF Record, OlderRecord

LEMMA FaultInBound ==
  ASSUME NEW k, faults \in 0..MaxFaults, Fault(k)
  PROVE  faults' \in 0..MaxFaults
BY HealthAssumption DEF Fault

\* Every variable keeps its type: no age exceeds the cooldown, and the record
\* holds ages of attempts only.
THEOREM TypeCorrect == Spec => []TypeOK
<1>1. Init => TypeOK
  BY HealthAssumption
  DEF Init, TypeOK, State, Record, NoRecord, Expired, Ages, Modes, PCs
<1>2. TypeOK /\ [Next]_vars => TypeOK'
  <2> SUFFICES ASSUME TypeOK, [Next]_vars PROVE TypeOK'
    OBVIOUS
  <2> USE DEF TypeOK, State, PCs
  <2>1. CASE Elapse
    <3>1. /\ OlderRecord(saved.pending) \in Record
          /\ OlderRecord(st.pending) \in Record
      BY OlderRecordIsRecord
    <3> QED BY <2>1, <3>1, OlderAge DEF Elapse
  <2>2. CASE Crash
    BY <2>2, FaultInBound DEF Crash
  <2>3. ASSUME NEW u \in Units, Fails(u) PROVE TypeOK'
    BY <2>3, FaultInBound DEF Fails, Modes
  <2>4. ASSUME NEW u \in Units, NEW m \in Modes, Moves(u, m) PROVE TypeOK'
    BY <2>4 DEF Moves
  <2>5. ASSUME NEW units \in SUBSET Units, NEW restarted \in SUBSET Units,
               NEW broken \in SUBSET Units, NEW left \in [broken -> Modes],
               Apply(units, restarted, broken, left)
        PROVE  TypeOK'
    <3>1. applies' \in 0..MaxApplies
      BY <2>5, HealthAssumption DEF Apply
    <3>2. faults' \in 0..MaxFaults
      BY <2>5, FaultInBound DEF Apply
    <3>3. mode' \in [Units -> Modes]
      BY <2>5 DEF Apply, Modes
    <3>4. st' \in State
      BY <2>5, HealthAssumption DEF Apply, Record, Ages
    <3> QED BY <2>5, <3>1, <3>2, <3>3, <3>4 DEF Apply
  <2>6. CASE Start
    BY <2>6, HealthAssumption DEF Start, Expired, Ages
  <2>7. CASE Tick
    <3>1. \A u \in Units : LatestAttempt(u, saved) \in Ages
      BY DEF LatestAttempt, Record
    <3>2. Cooldown \in Ages
      BY HealthAssumption DEF Ages
    <3>3. st' \in State
      BY <2>7 DEF Tick, Record
    <3> QED BY <2>7, <3>1, <3>2, <3>3 DEF Tick
  <2>8. CASE EndPass
    BY <2>8, FaultInBound DEF EndPass
  <2>9. CASE EndTick
    BY <2>9 DEF EndTick
  <2>10. CASE SaveApply
    BY <2>10, FaultInBound DEF SaveApply
  <2>11. ASSUME NEW u \in Units, Pass(u) PROVE TypeOK'
    <3>1. CASE QueryFails(u)
      BY <3>1, FaultInBound DEF QueryFails, Visits
    <3>2. CASE Settle(u)
      BY <3>2 DEF Settle, Visits, Record
    <3>3. CASE CoolDown(u)
      BY <3>3 DEF CoolDown, Visits
    <3>4. CASE Retry(u)
      <4>1. 0 \in Ages
        BY HealthAssumption DEF Ages
      <4>2. faults' \in 0..MaxFaults
        BY <3>4, FaultInBound DEF Retry
      <4>3. mode' \in [Units -> Modes]
        BY <3>4 DEF Retry, Modes
      <4>4. st' \in State
        BY <3>4, <4>1 DEF Retry, Record
      <4> QED BY <3>4, <4>1, <4>2, <4>3, <4>4 DEF Retry, Visits
    <3> QED BY <2>11, <3>1, <3>2, <3>3, <3>4 DEF Pass
  <2>12. CASE UNCHANGED vars
    BY <2>12 DEF vars
  <2> QED
    BY <2>1, <2>2, <2>3, <2>4, <2>5, <2>6, <2>7, <2>8, <2>9, <2>10, <2>11,
       <2>12 DEF Next, Agent, Environment
<1> QED BY <1>1, <1>2, PTL DEF Spec

----------------------------------------------------------------------------
(* What the Agent remembers of a unit is at least as recent as its own last *)
(* attempt and, while the pass has yet to look at it, as the record's.      *)

Remembers ==
  /\ \A u \in Units : lastRestart[u] <= tried[u]
  /\ pc = "enforce" =>
       \A u \in todo : saved.pending[u] # None =>
                         lastRestart[u] <= saved.pending[u]

LEMMA RemembersInductive ==
  ASSUME TypeOK, TypeOK', Remembers, [Next]_vars
  PROVE  Remembers'
<1> USE DEF TypeOK, State, Remembers
<1>1. CASE Elapse
  <2>1. \A u \in Units : Older(lastRestart[u]) <= Older(tried[u])
    BY OlderMonotone
  <2>2. ASSUME NEW u \in todo, pc = "enforce",
               OlderRecord(saved.pending)[u] # None
        PROVE  Older(lastRestart[u]) <= OlderRecord(saved.pending)[u]
    <3>1. saved.pending[u] # None
      BY <2>2, OlderRecordIsRecord
    <3>2. saved.pending[u] \in Ages
      BY <3>1 DEF Record
    <3>3. Older(lastRestart[u]) <= Older(saved.pending[u])
      BY <2>2, <3>1, <3>2, OlderMonotone
    <3> QED BY <3>1, <3>3 DEF OlderRecord
  <2> QED BY <1>1, <2>1, <2>2 DEF Elapse
<1>2. CASE Start
  BY <1>2, HealthAssumption DEF Start, Expired
<1>3. CASE Tick
  <2>1. ASSUME NEW u \in Units
        PROVE  /\ LatestAttempt(u, saved) <= lastRestart[u]
               /\ LatestAttempt(u, saved) <= Cooldown
               /\ saved.pending[u] # None =>
                    LatestAttempt(u, saved) <= saved.pending[u]
    <3>1. lastRestart[u] \in Ages /\ saved.pending[u] \in Ages \cup {None}
      BY DEF Record
    <3> QED BY <3>1, HealthAssumption DEF LatestAttempt, Ages
  <2>2. ASSUME NEW u \in Units
        PROVE  lastRestart'[u] <= tried'[u]
    <3>1. lastRestart[u] \in Ages /\ tried[u] \in Ages
          /\ LatestAttempt(u, saved) \in Ages
      BY DEF LatestAttempt, Record
    <3>2. CASE u \in saved.units
      BY <1>3, <2>1, <3>1, <3>2, HealthAssumption DEF Tick, Ages
    <3>3. CASE u \notin saved.units
      BY <1>3, <3>3, HealthAssumption DEF Tick
    <3> QED BY <3>2, <3>3
  <2>3. \A u \in todo' : saved'.pending[u] # None =>
                           lastRestart'[u] <= saved'.pending[u]
    BY <1>3, <2>1 DEF Tick
  <2> QED BY <2>2, <2>3
<1>4. CASE EndPass \/ EndTick \/ SaveApply \/ Crash
  BY <1>4 DEF EndPass, EndTick, SaveApply, Crash
<1>5. ASSUME NEW u \in Units, Pass(u) PROVE Remembers'
  <2>1. CASE QueryFails(u) \/ Settle(u) \/ CoolDown(u)
    BY <2>1 DEF QueryFails, Settle, CoolDown, Visits
  <2>2. CASE Retry(u)
    <3>1. \A v \in todo' : lastRestart'[v] = lastRestart[v]
      BY <2>2 DEF Retry, Visits
    <3>2. ASSUME NEW v \in Units PROVE lastRestart'[v] <= tried'[v]
      BY <2>2, HealthAssumption DEF Retry, Ages
    <3> QED BY <2>2, <3>1, <3>2 DEF Retry, Visits
  <2> QED BY <1>5, <2>1, <2>2 DEF Pass
<1>6. ASSUME NEW u \in Units, Fails(u) \/ \E m \in Modes : Moves(u, m)
      PROVE  Remembers'
  BY <1>6 DEF Fails, Moves
<1>7. ASSUME NEW units \in SUBSET Units, NEW restarted \in SUBSET Units,
             NEW broken \in SUBSET Units, NEW left \in [broken -> Modes],
             Apply(units, restarted, broken, left)
      PROVE  Remembers'
  BY <1>7 DEF Apply
<1>8. CASE UNCHANGED vars
  BY <1>8 DEF vars
<1> QED
  BY <1>1, <1>2, <1>3, <1>4, <1>5, <1>6, <1>7, <1>8
     DEF Next, Agent, Environment

\* The cooldown holds for every unit: of the Agent's own attempts while it runs,
\* and of the attempts on the pending record over its restarts (maybeRestart).
THEOREM CooldownAlwaysHeld == Spec => CooldownHeld
<1>1. Init => Remembers
  BY HealthAssumption DEF Init, Remembers, Expired
<1>2. TypeOK /\ TypeOK' /\ Remembers /\ [Next]_vars => Remembers'
  BY RemembersInductive
<1>3. TypeOK /\ Remembers =>
        [\A u \in Units : Retry(u) =>
           /\ tried[u] = Cooldown
           /\ saved.pending[u] \in {None, Cooldown}]_vars
  <2> SUFFICES ASSUME TypeOK, Remembers, NEW u \in Units, Retry(u)
               PROVE  /\ tried[u] = Cooldown
                      /\ saved.pending[u] \in {None, Cooldown}
    OBVIOUS
  <2>1. /\ lastRestart[u] = Cooldown /\ pc = "enforce" /\ u \in todo
    BY DEF Retry, Visits, Cooled
  <2>2. tried[u] \in Ages /\ saved.pending[u] \in Ages \cup {None}
    BY DEF TypeOK, State, Record
  <2> QED BY <2>1, <2>2, HealthAssumption DEF Remembers, Ages
<1> QED BY <1>1, <1>2, <1>3, TypeCorrect, PTL DEF Spec, CooldownHeld

----------------------------------------------------------------------------
(* In the middle of a pass no one-shot is on the tick's record that is not  *)
(* on the saved one.                                                        *)

PassAddsDaemonsOnly ==
  pc = "enforce" =>
    \A u \in Pending(st) \ Pending(saved) : Kind[u] = "daemon"

LEMMA PassAddsDaemonsOnlyInductive ==
  ASSUME TypeOK, PassAddsDaemonsOnly, [Next]_vars
  PROVE  PassAddsDaemonsOnly'
<1> USE DEF TypeOK, State, PassAddsDaemonsOnly, Pending
<1>1. CASE Elapse
  BY <1>1, OlderRecordIsRecord DEF Elapse
<1>2. CASE Tick
  BY <1>2 DEF Tick, Record
<1>3. CASE Start \/ EndPass \/ EndTick \/ SaveApply \/ Crash
  BY <1>3 DEF Start, EndPass, EndTick, SaveApply, Crash
<1>4. ASSUME NEW u \in Units, Pass(u) PROVE PassAddsDaemonsOnly'
  <2>1. CASE QueryFails(u) \/ CoolDown(u)
    BY <2>1 DEF QueryFails, CoolDown, Visits
  <2>2. CASE Settle(u)
    BY <2>2 DEF Settle, Visits, Record
  <2>3. CASE Retry(u)
    <3>1. Kind[u] = "daemon" \/ st.pending[u] # None
      BY <2>3 DEF Retry, NotRetried, Restartable
    <3>2. \A v \in Units : v # u => st'.pending[v] = st.pending[v]
      BY <2>3 DEF Retry, Record
    <3> QED BY <2>3, <3>1, <3>2 DEF Retry, Visits
  <2> QED BY <1>4, <2>1, <2>2, <2>3 DEF Pass
<1>5. ASSUME NEW u \in Units, Fails(u) \/ \E m \in Modes : Moves(u, m)
      PROVE  PassAddsDaemonsOnly'
  BY <1>5 DEF Fails, Moves
<1>6. ASSUME NEW units \in SUBSET Units, NEW restarted \in SUBSET Units,
             NEW broken \in SUBSET Units, NEW left \in [broken -> Modes],
             Apply(units, restarted, broken, left)
      PROVE  PassAddsDaemonsOnly'
  BY <1>6 DEF Apply
<1>7. CASE UNCHANGED vars
  BY <1>7 DEF vars
<1> QED
  BY <1>1, <1>2, <1>3, <1>4, <1>5, <1>6, <1>7 DEF Next, Agent, Environment

\* A one-shot gets on the saved record only by a failed restart of an apply
\* (restartableByHealth).
THEOREM OneShotsAlwaysPendByApply == Spec => OneShotsPendByApply
<1>1. Init => PassAddsDaemonsOnly
  BY DEF Init, PassAddsDaemonsOnly
<1>2. TypeOK /\ PassAddsDaemonsOnly /\ [Next]_vars => PassAddsDaemonsOnly'
  BY PassAddsDaemonsOnlyInductive
<1>3. TypeOK /\ PassAddsDaemonsOnly /\ [Next]_vars =>
        [\A u \in Pending(saved)' \ Pending(saved) :
           Kind[u] # "daemon" => pc = "merged"]_vars
  <2> SUFFICES ASSUME TypeOK, PassAddsDaemonsOnly, Next,
                      NEW u \in Units, saved'.pending[u] # None,
                      saved.pending[u] = None, Kind[u] # "daemon"
               PROVE  pc = "merged"
    BY DEF Pending, vars
  <2>1. CASE Elapse
    BY <2>1, OlderRecordIsRecord DEF Elapse, TypeOK, State
  <2>2. CASE EndPass
    BY <2>2 DEF EndPass, PassAddsDaemonsOnly, Pending
  <2>3. CASE SaveApply
    BY <2>3 DEF SaveApply
  <2>4. CASE Start \/ Tick \/ EndTick \/ Crash
    BY <2>4 DEF Start, Tick, EndTick, Crash
  <2>5. ASSUME NEW v \in Units,
               Pass(v) \/ Fails(v) \/ \E m \in Modes : Moves(v, m)
        PROVE  FALSE
    BY <2>5 DEF Pass, QueryFails, Settle, CoolDown, Retry, Fails, Moves
  <2>6. ASSUME NEW units \in SUBSET Units, NEW restarted \in SUBSET Units,
               NEW broken \in SUBSET Units, NEW left \in [broken -> Modes],
               Apply(units, restarted, broken, left)
        PROVE  FALSE
    BY <2>6 DEF Apply
  <2> QED
    BY <2>1, <2>2, <2>3, <2>4, <2>5, <2>6 DEF Next, Agent, Environment
<1> QED BY <1>1, <1>2, <1>3, TypeCorrect, PTL DEF Spec, OneShotsPendByApply
=============================================================================
