--------------------------- MODULE ApplierProofs ---------------------------
(***************************************************************************)
(* What holds of the Applier for every Fleet, every set of units, hooks    *)
(* and builds, and any number of applies and faults.                       *)
(***************************************************************************)
EXTENDS Applier, TLAPS

\* What one unit loaded.
Loaded == [def : Text, data : [Data -> Text], image : Images]

LEMMA Sorts ==
  /\ Units \subseteq Paths /\ Data \subseteq Paths
  /\ Builds \subseteq Units /\ Raw \subseteq Units /\ Self \subseteq Units
  /\ Absent \in Text /\ NoUnit \in Images /\ NoUnit \notin Units
  /\ Self \cap Raw = {} /\ Self \cap Builds = {} /\ Raw \cap Builds = {}
<1>1. Units \subseteq Paths /\ Data \subseteq Paths
  BY DEF Paths
<1>2. Builds \subseteq Units /\ Raw \subseteq Units /\ Self \subseteq Units
  BY FleetAssumption DEF Builds, Raw
<1>3. Absent \in Text /\ NoUnit \in Images /\ NoUnit \notin Units
  BY FleetAssumption DEF Text, Images
<1>4. Self \cap Raw = {} /\ Self \cap Builds = {} /\ Raw \cap Builds = {}
  BY FleetAssumption DEF Builds, Raw
<1> QED
  BY <1>1, <1>2, <1>3, <1>4

LEMMA FleetType == ASSUME NEW c \in Shas PROVE Fleet[c] \in Tree
BY FleetAssumption

LEMMA ImageType ==
  ASSUME NEW b \in Builds, NEW files \in Tree
  PROVE  Image(b, files) \in Images
<1>1. Inputs[b] \cup {b} \subseteq Paths
  BY Sorts, FleetAssumption
<1>2. \A p \in Inputs[b] \cup {b} : files[p] \in Text
  BY <1>1 DEF Tree, Text
<1>3. Image(b, files) \in [Inputs[b] \cup {b} -> Text]
  BY <1>2 DEF Image
<1> QED
  BY <1>3 DEF Images

LEMMA LoadsType ==
  ASSUME NEW u \in Units, NEW files \in Tree, NEW ds \in [Units -> Text],
         NEW tags \in Tags
  PROVE  Loads(u, files, ds, tags) \in Loaded
<1>1. [p \in Data |-> files[p]] \in [Data -> Text]
  BY Sorts DEF Tree, Text
<1>2. ds[u] \in Text
  OBVIOUS
<1>3. (IF Requires[u] = NoUnit THEN NoUnit ELSE tags[Requires[u]]) \in Images
  BY Sorts, FleetAssumption DEF Tags
<1> QED
  BY <1>1, <1>2, <1>3 DEF Loads, Loaded

LEMMA NothingType == Nothing \in Loaded
BY Sorts DEF Nothing, Loaded

----------------------------------------------------------------------------
(* What systemd does to the units. *)

LEMMA StartedType ==
  ASSUME TypeOK, NEW u \in Units, Started(u)
  PROVE  run' \in Runs /\ view' \in Views /\ tag' \in Tags
<1>1. disk \in Tree /\ defs \in [Units -> Text]
  BY DEF TypeOK
<1>2. tag' \in Tags
  BY <1>1, ImageType DEF TypeOK, Started, Tags
<1>3. run' \in Runs
  BY DEF TypeOK, Started, AfterStart, Runs
<1>4. \A m \in Units : Loads(m, disk, defs, tag') \in Loaded
  BY <1>1, <1>2, LoadsType
<1>5. view' \in Views
  BY <1>4 DEF TypeOK, Started, Views, Loaded
<1> QED
  BY <1>2, <1>3, <1>5

LEMMA StartFailsType ==
  ASSUME TypeOK, NEW u \in Units, NEW s \in {"inactive", "failed"},
         StartFails(u, s)
  PROVE  run' \in Runs /\ view' \in Views /\ tag' \in Tags
BY NothingType DEF TypeOK, StartFails, Runs, Views, Loaded

LEMMA StopsType ==
  ASSUME TypeOK, NEW u \in Units, Stops(u)
  PROVE  run' \in Runs /\ view' \in Views
BY NothingType DEF TypeOK, Stops, Runs, Views, Loaded

LEMMA FaultType ==
  ASSUME TypeOK, NEW k, Fault(k) \/ NoFault
  PROVE  faults' \in 0..MaxFaults
BY BoundsAssumption DEF TypeOK, Fault, NoFault

LEMMA RestartType ==
  ASSUME TypeOK, NEW u \in Units, RestartsUnit(u) \/ RestartFails(u)
  PROVE  /\ run' \in Runs /\ view' \in Views /\ tag' \in Tags
         /\ faults' \in 0..MaxFaults
<1>1. CASE RestartsUnit(u)
  BY <1>1, StartedType, FaultType DEF RestartsUnit
<1>2. CASE ~Present(u) /\ NoFault /\ UNCHANGED <<run, view, tag>>
  BY <1>2, FaultType DEF TypeOK
<1>3. CASE Fault("refused") /\ UNCHANGED <<run, view, tag>>
  BY <1>3, FaultType DEF TypeOK
<1>4. CASE Fault("died") /\ StartFails(u, "failed")
  BY <1>4, FaultType, StartFailsType
<1>5. CASE Fault("dependency") /\ StartFails(u, "inactive")
  BY <1>5, FaultType, StartFailsType
<1>6. CASE Fault("timeout") /\ Started(u)
  BY <1>6, FaultType, StartedType
<1> QED
  BY <1>1, <1>2, <1>3, <1>4, <1>5, <1>6 DEF RestartFails

LEMMA RestartsIgnoringDependenciesType ==
  ASSUME TypeOK, NEW u \in Units, RestartsIgnoringDependencies(u)
  PROVE  /\ run' \in Runs /\ view' \in Views /\ tag' \in Tags
         /\ faults' \in 0..MaxFaults
<1>1. Loads(u, disk, defs, tag) \in Loaded
  BY LoadsType DEF TypeOK
<1> QED
  BY <1>1, FaultType
  DEF RestartsIgnoringDependencies, TypeOK, Runs, Views, Loaded

LEMMA AgentRestartsType ==
  ASSUME TypeOK, NEW units, AgentRestarts(units)
  PROVE  /\ disk' \in Tree /\ defs' \in [Units -> Text]
         /\ run' \in Runs /\ view' \in Views
<1> DEFINE kept == [p \in Paths |-> IF managed[p] = Absent THEN Absent
                                    ELSE disk[p]]
<1>1. kept \in Tree
  BY DEF TypeOK, Tree
<1>2. [u \in Units |-> kept[u]] \in [Units -> Text]
  BY <1>1, Sorts DEF Tree, Text
<1>3. \A u \in Units : Loads(u, disk, defs, tag) \in Loaded
  BY LoadsType DEF TypeOK
<1>4. disk' = kept /\ (defs' = defs \/ defs' = [u \in Units |-> kept[u]])
  BY DEF AgentRestarts
<1> HIDE DEF kept
<1>5. run' \in Runs /\ view' \in Views
  BY <1>3 DEF AgentRestarts, TypeOK, Runs, Views, Loaded
<1> QED
  BY <1>1, <1>2, <1>4, <1>5 DEF TypeOK

LEMMA ReloadedType ==
  ASSUME TypeOK, NEW h \in Hooks, Reloaded(h) \/ UNCHANGED view
  PROVE  view' \in Views
<1>1. HookUnit[h] \in Units
  BY HooksAssumption
<1> DEFINE u == HookUnit[h]
           data == [p \in Data |-> IF p \in Delivers(h) THEN disk[p]
                                   ELSE view[u].data[p]]
<1>2. data \in [Data -> Text]
  BY <1>1, Sorts DEF TypeOK, Tree, Text, Views
<1>3. CASE Reloaded(h)
  <2>1. view' = [view EXCEPT ![u] = [@ EXCEPT !.data = data]]
    BY <1>3, <1>1 DEF Reloaded, TypeOK, Views
  <2> HIDE DEF data, u
  <2> QED
    BY <2>1, <1>2 DEF TypeOK, Views
<1> QED
  BY <1>3 DEF TypeOK

----------------------------------------------------------------------------
(* Types. *)

LEMMA TriggeredType ==
  /\ TriggeredBuilds \subseteq Builds /\ BuildConsumers \subseteq Units
  /\ Changes \subseteq Paths /\ ChangedUnits \subseteq Units
  /\ {h \in Hooks : Matches(h)} \subseteq Hooks /\ Written \subseteq Changes
BY DEF TriggeredBuilds, BuildConsumers, Changes, ChangedUnits, Written

\* What an apply still has to do is some of what it set out to do.
Stage ==
  /\ pc = "write" => todo \subseteq Changes
  /\ pc = "build" => todo \subseteq TriggeredBuilds
  /\ pc = "activate" => todo \subseteq Raw \cap Written
  /\ pc = "restart" => todo \subseteq restarts
  /\ pc = "consume" => todo \subseteq BuildConsumers

Typed == TypeOK /\ Stage

\* The plan of an apply follows from its commit and the state file.
LEMMA Frame ==
  ASSUME UNCHANGED <<want, managed>>
  PROVE  /\ Changes' = Changes /\ Written' = Written
         /\ ChangedUnits' = ChangedUnits /\ TriggeredBuilds' = TriggeredBuilds
         /\ BuildConsumers' = BuildConsumers
         /\ \A h : Matches(h)' = Matches(h)
<1>1. Changes' = Changes
  BY DEF Changes
<1>2. Written' = Written
  BY <1>1 DEF Written
<1>3. ChangedUnits' = ChangedUnits
  BY <1>2 DEF ChangedUnits
<1>4. TriggeredBuilds' = TriggeredBuilds
  BY <1>1 DEF TriggeredBuilds
<1>5. BuildConsumers' = BuildConsumers
  BY <1>3, <1>4 DEF BuildConsumers, PodStarted
<1>6. \A h : Matches(h)' = Matches(h)
  BY <1>2 DEF Matches
<1> QED
  BY <1>1, <1>2, <1>3, <1>4, <1>5, <1>6

LEMMA StageInit == Init => Stage
BY DEF Init, Stage

LEMMA StageStep == Stage /\ [Next]_vars => Stage'
<1> SUFFICES ASSUME Stage, [Next]_vars PROVE Stage'
  OBVIOUS
<1> USE DEF Stage, host, state, work
<1>1. CASE UNCHANGED vars
  BY <1>1, Frame DEF vars
<1>2. ASSUME NEW commit \in Follows[sha], Begin(commit) PROVE Stage'
  BY <1>2 DEF Begin, Changes
<1>3. CASE Apply
  BY <1>3, Frame
  DEF Apply, Write, WriteFails, WritesDone, RunHook, DaemonReload, DaemonReloadFails,
      Build, BuildFails, Built, ActivateRaw, Activated, Restart, RestartsDone,
      Consume, Consumed, Save, RetryRestart, RetryDone, RollBack
<1>4. CASE SelfOp
  BY <1>4, Frame DEF SelfOp, SelfOpsScheduled
<1>5. ASSUME NEW u \in Units, Dies(u) \/ JobFails(u) \/ Health(u) PROVE Stage'
  BY <1>5, Frame DEF Dies, JobFails, Health
<1> QED
  BY <1>1, <1>2, <1>3, <1>4, <1>5 DEF Next

LEMMA TypeInit == Init => TypeOK
<1> SUFFICES ASSUME Init PROVE TypeOK
  OBVIOUS
<1>1. disk \in Tree /\ managed = disk /\ want = disk /\ sha \in Shas
  BY FleetType DEF Init, Deployed
<1>2. defs \in [Units -> Text]
  BY <1>1, Sorts DEF Init, Deployed, Tree, Text
<1>3. tag \in Tags
  BY <1>1, ImageType DEF Init, Deployed, Tags
<1>4. run \in Runs
  BY DEF Init, Deployed, Runs
<1>5. \A u \in Units : Loads(u, disk, defs, tag) \in Loaded
  BY <1>1, <1>2, <1>3, LoadsType
<1>6. view \in Views
  BY <1>5, NothingType DEF Init, Deployed, Views, Loaded
<1>7. enabled \subseteq Raw
  BY DEF Init, Deployed
<1>8. was \in [disk : Tree, run : Runs, view : Views, tag : Tags]
  BY <1>1, <1>3, <1>4, <1>6 DEF Init
<1> QED
  BY <1>1, <1>2, <1>3, <1>4, <1>6, <1>7, <1>8, BoundsAssumption
  DEF Init, TypeOK, PCs, Outcomes

LEMMA StopForDeleteType ==
  ASSUME TypeOK, NEW u \in Units, StopForDelete(u)
  PROVE  /\ run' \in Runs /\ view' \in Views /\ enabled' \subseteq Raw
         /\ selfOps' \subseteq Self /\ faults' \in 0..MaxFaults
<1>1. ~StopsBeforeDelete(u) => u \in Self
  BY DEF StopsBeforeDelete
<1> QED
  BY <1>1, StopsType, FaultType DEF StopForDelete, TypeOK

LEMMA TypeStep == Typed /\ [Next]_vars => TypeOK'
<1> SUFFICES ASSUME TypeOK, Stage, [Next]_vars PROVE TypeOK'
  BY DEF Typed
<1> USE DEF TypeOK, host, state, work, PCs
<1>1. CASE UNCHANGED vars
  BY <1>1 DEF vars
<1>2. ASSUME NEW commit \in Follows[sha], Begin(commit) PROVE TypeOK'
  <2>1. sha' \in Shas /\ want' \in Tree
    BY <1>2, FleetType, FleetAssumption DEF Begin
  <2>2. was' \in [disk : Tree, run : Runs, view : Views, tag : Tags]
    BY <1>2 DEF Begin
  <2>3. applies' \in 0..MaxApplies
    BY <1>2, BoundsAssumption DEF Begin
  <2> QED
    BY <1>2, <2>1, <2>2, <2>3 DEF Begin
<1>3. CASE Write
  <2> PICK p \in Paths :
        /\ todo' = todo \ {p} /\ disk' = [disk EXCEPT ![p] = want[p]]
        /\ IF p \in Units /\ want[p] = Absent
           THEN StopForDelete(p)
           ELSE UNCHANGED <<run, view, enabled, selfOps, faults>>
    BY <1>3 DEF Write
  <2>1. disk' \in Tree
    BY DEF Tree
  <2>2. /\ run' \in Runs /\ view' \in Views /\ enabled' \subseteq Raw
        /\ selfOps' \subseteq Self /\ faults' \in 0..MaxFaults
    BY StopForDeleteType
  <2> QED
    BY <1>3, <2>1, <2>2 DEF Write
<1>4. CASE WriteFails
  BY <1>4, FaultType DEF WriteFails
<1>5. CASE WritesDone
  BY <1>5, TriggeredType DEF WritesDone
<1>6. CASE RunHook
  <2> PICK h \in Hooks : RunOneHook(h)
    BY <1>6 DEF RunHook
  <2>1. view' \in Views /\ faults' \in 0..MaxFaults
    BY ReloadedType, FaultType DEF RunOneHook, ReloadFails
  <2>2. restarts' \subseteq Units /\ failed' \subseteq Hooks
    BY HooksAssumption DEF RunOneHook
  <2> QED
    BY <1>6, <2>1, <2>2 DEF RunHook
<1>7. CASE DaemonReload
  <2>1. defs' \in [Units -> Text]
    BY <1>7, Sorts DEF DaemonReload, Tree, Text
  <2> QED
    BY <1>7, <2>1, TriggeredType, Sorts DEF DaemonReload
<1>8. CASE DaemonReloadFails
  BY <1>8, FaultType DEF DaemonReloadFails
<1>9. CASE Build
  <2> PICK b \in todo : BuildRuns(b)
    BY <1>9 DEF Build
  <2>1. run' \in Runs
    BY DEF BuildRuns, Runs
  <2>2. tag' \in Tags
    BY ImageType DEF BuildRuns, Tags
  <2> QED
    BY <1>9, <2>1, <2>2 DEF Build
<1>10. CASE BuildFails
  <2>1. run' \in Runs
    BY <1>10 DEF BuildFails, Runs
  <2>2. tag' \in Tags
    BY <1>10 DEF BuildFails, RestoredTags, Tags
  <2> QED
    BY <1>10, <2>1, <2>2, FaultType DEF BuildFails
<1>11. CASE Built
  <2>1. Restarting \subseteq Units
    BY DEF Restarting
  <2> QED
    BY <1>11, <2>1, TriggeredType, Sorts DEF Built
<1>12. CASE ActivateRaw
  <2> PICK u \in todo : ActivateUnit(u)
    BY <1>12 DEF ActivateRaw
  <2>1. u \in Raw
    BY <1>12 DEF ActivateRaw, Stage
  <2>2. /\ run' \in Runs /\ view' \in Views /\ tag' \in Tags
        /\ faults' \in 0..MaxFaults
    BY <2>1, Sorts, RestartType, StartedType, FaultType DEF ActivateUnit
  <2>3. enabled' \subseteq Raw
    BY <2>1 DEF ActivateUnit
  <2> QED
    BY <1>12, <2>2, <2>3 DEF ActivateRaw
<1>13. CASE Activated
  BY <1>13, Sorts DEF Activated
<1>14. CASE Restart
  <2> PICK u \in todo : RestartChangedUnit(u)
    BY <1>14 DEF Restart
  <2>1. u \in Units
    BY <1>14 DEF Restart, Stage
  <2>2. /\ run' \in Runs /\ view' \in Views /\ tag' \in Tags
        /\ faults' \in 0..MaxFaults
    BY <2>1, RestartType, FaultType
    DEF RestartChangedUnit, Defer, LeaveAlone, StatusUnknown, RestartUnit
  <2>3. /\ selfOps' \subseteq Self /\ restarted' \subseteq Units
        /\ broken' \subseteq Units
    BY <2>1 DEF RestartChangedUnit, Defer, Deferred, LeaveAlone, RestartUnit
  <2> QED
    BY <1>14, <2>2, <2>3 DEF Restart
<1>15. CASE RestartsDone
  BY <1>15, TriggeredType, Sorts DEF RestartsDone
<1>16. CASE Consume
  <2> PICK u \in todo : RestartConsumer(u)
    BY <1>16 DEF Consume
  <2>1. u \in Units
    BY <1>16, TriggeredType DEF Consume, Stage
  <2>2. /\ run' \in Runs /\ view' \in Views /\ tag' \in Tags
        /\ faults' \in 0..MaxFaults
    BY <2>1, RestartType, RestartsIgnoringDependenciesType, FaultType
    DEF RestartConsumer, Defer, LeaveAlone, RestartUnit
  <2>3. /\ selfOps' \subseteq Self /\ restarted' \subseteq Units
        /\ broken' \subseteq Units
    BY <2>1 DEF RestartConsumer, Defer, Deferred, LeaveAlone, RestartUnit
  <2> QED
    BY <1>16, <2>2, <2>3 DEF Consume
<1>17. CASE Consumed
  BY <1>17 DEF Consumed
<1>18. CASE Save
  BY <1>18 DEF Save, Outcomes
<1>19. CASE RetryRestart
  <2> PICK u \in restarts :
        \/ /\ RestartsUnit(u) \/ RestartFails(u)
           /\ restarts' \subseteq restarts
           /\ UNCHANGED <<disk, defs, pc, outcome>>
        \/ /\ AgentRestarts({u}) /\ NoFault
           /\ pc' = "idle" /\ outcome' = "died" /\ UNCHANGED <<tag, restarts>>
    BY <1>19 DEF RetryRestart
  <2>1. /\ run' \in Runs /\ view' \in Views /\ tag' \in Tags
        /\ faults' \in 0..MaxFaults
    BY RestartType, AgentRestartsType, FaultType
  <2>2. disk' \in Tree /\ defs' \in [Units -> Text]
    BY AgentRestartsType
  <2> QED
    BY <1>19, <2>1, <2>2 DEF RetryRestart, Outcomes
<1>20. CASE RetryDone
  BY <1>20 DEF RetryDone, Outcomes
<1>21. CASE RollBack
  <2>1. disk' \in Tree
    BY <1>21, Sorts DEF RollBack, Tree, Text
  <2>2. defs' \in [Units -> Text] /\ faults' \in 0..MaxFaults
    BY <1>21, <2>1, FaultType, Sorts DEF RollBack, Tree, Text
  <2> QED
    BY <1>21, <2>1, <2>2 DEF RollBack, Outcomes
<1>22. CASE SelfOp
  <2>1. CASE Fault("selfop") /\ UNCHANGED <<host, pc, todo, queue, outcome>>
    BY <1>22, <2>1, FaultType DEF SelfOp
  <2>2. CASE /\ AgentRestarts(selfOps) /\ NoFault
             /\ pc' = "idle" /\ todo' = {} /\ queue' = {}
             /\ outcome' = IF pc = "idle" THEN outcome ELSE "died"
             /\ UNCHANGED <<tag, enabled>>
    BY <1>22, <2>2, AgentRestartsType, FaultType DEF SelfOp, Outcomes
  <2>3. CASE /\ \E u \in selfOps : want[u] = Absent /\ Stops(u)
             /\ NoFault
             /\ pc' = "idle" /\ todo' = {} /\ queue' = {} /\ outcome' = "gone"
             /\ UNCHANGED <<disk, defs, tag, enabled>>
    BY <1>22, <2>3, StopsType, FaultType, Sorts DEF SelfOp, Outcomes
  <2> QED
    BY <1>22, <2>1, <2>2, <2>3 DEF SelfOp
<1>23. ASSUME NEW u \in Units, Dies(u) PROVE TypeOK'
  BY <1>23, StartFailsType, FaultType DEF Dies
<1>24. ASSUME NEW u \in Units, Health(u) PROVE TypeOK'
  <2>1. /\ run' \in Runs /\ view' \in Views /\ tag' \in Tags
        /\ faults' \in 0..MaxFaults
    BY <1>24, RestartType DEF Health
  <2> QED
    BY <1>24, <2>1 DEF Health
<1>25. ASSUME NEW u \in Units, JobFails(u) PROVE TypeOK'
  BY <1>25, FaultType DEF JobFails, Runs
<1> QED
  BY <1>25, <1>1, <1>2, <1>3, <1>4, <1>5, <1>6, <1>7, <1>8, <1>9, <1>10, <1>11,
     <1>12, <1>13, <1>14, <1>15, <1>16, <1>17, <1>18, <1>19, <1>20, <1>21,
     <1>22, <1>23, <1>24
  DEF Next, Apply

\* Type correctness of the Applier, the systemd it drives included.
THEOREM TypeCorrect == Spec => []TypeOK
<1>1. Init => Typed
  BY TypeInit, StageInit DEF Typed
<1>2. Typed /\ [Next]_vars => Typed'
  BY TypeStep, StageStep DEF Typed
<1>3. Typed => TypeOK
  BY DEF Typed
<1> QED
  BY <1>1, <1>2, <1>3, PTL DEF Spec

----------------------------------------------------------------------------
(* What an apply hands over. *)

Afoot == pc \in {"hooks", "build", "activate", "restart", "consume", "save"}

\* The hooks of this apply, and those pending from earlier ones.
Attempted == pendHooks \cup {h \in Hooks : Matches(h)}

\* A hook is still to be run, or it failed, or it did not; one that failed is
\* about a unit that no change restarts. What is to be restarted changed or
\* has such a hook.
HookBook ==
  Afoot =>
    /\ queue \subseteq Attempted /\ failed \subseteq Attempted
    /\ queue \cap failed = {}
    /\ \A h \in failed : HookUnit[h] \notin ChangedUnits
    /\ \A u \in restarts \ ChangedUnits :
         \E h \in Attempted \ (failed \cup queue) : HookUnit[h] = u
    /\ pc \in {"hooks", "build"} => ChangedUnits \subseteq restarts

\* Nothing is restarted twice: the units that changed or that hooks restart, the
\* builds, and the consumers of the builds are three disjoint sets.
RestartBook ==
  /\ pc \in {"write", "hooks", "build"} => restarted = {} /\ broken = {}
  /\ pc = "write" => failed = {} /\ restarts = {}
  /\ pc = "activate" => restarted = TriggeredBuilds /\ broken = {}
  /\ pc \in {"activate", "restart", "consume", "save"} =>
       restarts \cap (TriggeredBuilds \cup BuildConsumers) = {}
  /\ pc = "restart" =>
       broken \cup (restarted \ TriggeredBuilds) \subseteq restarts \ todo
  /\ pc \in {"consume", "save"} =>
       restarted \cup broken
         \subseteq TriggeredBuilds \cup restarts \cup BuildConsumers
  /\ pc = "consume" => todo \cap (restarted \cup broken) = {}
  /\ restarted \cap broken = {}

Booked == HookBook /\ RestartBook

LEMMA ConsumersAreNoBuilds == BuildConsumers \cap TriggeredBuilds = {}
<1> SUFFICES ASSUME NEW u \in BuildConsumers, u \in Builds PROVE FALSE
  BY TriggeredType
<1>1. Requires[u] \in Builds /\ u \in Units
  BY TriggeredType DEF BuildConsumers
<1>2. Requires[u] # NoUnit /\ Kind[u] = "build"
  BY <1>1, Sorts DEF Builds
<1> QED
  BY <1>1, <1>2, UnitsAssumption

LEMMA BookedInit == Init => Booked
BY DEF Init, Booked, HookBook, RestartBook, Afoot

\* In the middle of an apply the plan of its hooks is fixed.
LEMMA AttemptedFrame ==
  ASSUME UNCHANGED <<want, managed, pendHooks>>
  PROVE  Attempted' = Attempted
BY Frame DEF Attempted

LEMMA HookBookStep == Typed /\ Booked /\ [Next]_vars => HookBook'
<1> SUFFICES ASSUME Typed, HookBook, RestartBook, [Next]_vars PROVE HookBook'
  BY DEF Booked
<1> USE DEF HookBook, Afoot, host, state, work
<1>1. CASE UNCHANGED vars
  BY <1>1, Frame, AttemptedFrame DEF vars
<1>2. CASE WritesDone
  BY <1>2, Frame, AttemptedFrame DEF WritesDone, Attempted, RestartBook
<1>3. CASE RunHook
  <2> PICK h \in Hooks : NextHook(h) /\ queue' = queue \ {h} /\ RunOneHook(h)
    BY <1>3 DEF RunHook
  <2> SUFFICES ASSUME pc = "hooks" PROVE HookBook'
    BY <1>3 DEF RunHook
  <2>1. h \in queue /\ h \in Attempted /\ h \notin failed
    BY DEF NextHook
  <2>2. UNCHANGED pc /\ Attempted' = Attempted /\ ChangedUnits' = ChangedUnits
    BY <1>3, Frame, AttemptedFrame DEF RunHook
  <2>3. CASE UNCHANGED <<restarts, failed>>
    BY <2>1, <2>2, <2>3
  <2>4. CASE restarts' = restarts \cup {HookUnit[h]} /\ UNCHANGED failed
    BY <2>1, <2>2, <2>4
  <2>5. CASE /\ failed' = failed \cup {h} /\ UNCHANGED restarts
             /\ ~Skipped(h) /\ Action[h] = "reload"
    <3>1. HookUnit[h] \notin ChangedUnits
      BY <2>5 DEF Skipped
    <3> QED
      BY <2>1, <2>2, <2>5, <3>1
  <2> QED
    BY <2>3, <2>4, <2>5 DEF RunOneHook
<1>4. CASE DaemonReload \/ Build \/ ActivateRaw \/ Activated \/ Restart
           \/ RestartsDone \/ Consume \/ Consumed
  <2>1. /\ UNCHANGED <<want, managed, pendHooks, queue, failed, restarts>>
        /\ Afoot /\ pc' # "hooks"
        /\ pc' = "build" => pc \in {"hooks", "build"}
    BY <1>4 DEF DaemonReload, Build, ActivateRaw, Activated, Restart,
                RestartsDone, Consume, Consumed
  <2> QED
    BY <2>1, Frame, AttemptedFrame
<1>5. CASE Built
  <2>1. restarts' \subseteq restarts
    BY <1>5 DEF Built, Restarting
  <2> QED
    BY <1>5, <2>1, Frame, AttemptedFrame DEF Built
<1>6. CASE SelfOp
  BY <1>6, Frame, AttemptedFrame DEF SelfOp, SelfOpsScheduled
<1> QED
  BY <1>1, <1>2, <1>3, <1>4, <1>5, <1>6
  DEF Next, Apply, Begin, Write, WriteFails, DaemonReloadFails, BuildFails, Save,
      RetryRestart, RetryDone, RollBack, Dies, JobFails, Health

LEMMA RestartBookStep == Typed /\ Booked /\ [Next]_vars => RestartBook'
<1> SUFFICES ASSUME TypeOK, Stage, HookBook, RestartBook, [Next]_vars
             PROVE  RestartBook'
  BY DEF Booked, Typed
<1> USE DEF RestartBook, host, state, work
<1>1. CASE UNCHANGED vars
  BY <1>1, Frame DEF vars
<1>2. ASSUME NEW commit \in Follows[sha], Begin(commit) PROVE RestartBook'
  BY <1>2 DEF Begin
<1>3. CASE Built
  BY <1>3, Frame DEF Built, Restarting
<1>4. CASE Activated
  BY <1>4, Frame DEF Activated
<1>5. CASE Restart
  <2> PICK u \in todo : todo' = todo \ {u} /\ RestartChangedUnit(u)
    BY <1>5 DEF Restart
  <2>1. pc = "restart" /\ UNCHANGED <<pc, want, managed, restarts, failed>>
    BY <1>5 DEF Restart
  <2>2. u \in restarts /\ u \notin restarted /\ u \notin broken
    BY <2>1 DEF Stage
  <2>3. \/ UNCHANGED <<restarted, broken>>
        \/ restarted' = restarted \cup {u} /\ UNCHANGED broken
        \/ broken' = broken \cup {u} /\ UNCHANGED restarted
    BY DEF RestartChangedUnit, Defer, LeaveAlone, RestartUnit
  <2> QED
    BY <2>1, <2>2, <2>3, Frame DEF Stage
<1>6. CASE RestartsDone
  BY <1>6, Frame, ConsumersAreNoBuilds DEF RestartsDone
<1>7. CASE Consume
  <2> PICK u \in todo : todo' = todo \ {u} /\ RestartConsumer(u)
    BY <1>7 DEF Consume
  <2>1. pc = "consume" /\ UNCHANGED <<pc, want, managed, restarts, failed>>
    BY <1>7 DEF Consume
  <2>2. u \in BuildConsumers /\ u \notin restarted /\ u \notin broken
    BY <2>1 DEF Stage
  <2>3. \/ UNCHANGED <<restarted, broken>>
        \/ restarted' = restarted \cup {u} /\ UNCHANGED broken
        \/ broken' = broken \cup {u} /\ UNCHANGED restarted
    BY DEF RestartConsumer, Defer, LeaveAlone, RestartUnit
  <2> QED
    BY <2>1, <2>2, <2>3, Frame
<1>8. CASE Consumed
  BY <1>8, Frame DEF Consumed
<1>9. CASE Write \/ WriteFails \/ WritesDone \/ RunHook \/ DaemonReload
           \/ DaemonReloadFails \/ Build \/ BuildFails \/ ActivateRaw
  BY <1>9, Frame
  DEF Write, WriteFails, WritesDone, RunHook, DaemonReload, DaemonReloadFails,
      Build, BuildFails, ActivateRaw
<1>10. CASE Save \/ RetryRestart \/ RetryDone \/ RollBack \/ SelfOp
            \/ \E u \in Units : Dies(u) \/ JobFails(u) \/ Health(u)
  BY <1>10, Frame
  DEF Save, RetryRestart, RetryDone, RollBack, SelfOp, SelfOpsScheduled, Dies, JobFails,
      Health
<1> QED
  BY <1>1, <1>2, <1>3, <1>4, <1>5, <1>6, <1>7, <1>8, <1>9, <1>10 DEF Next, Apply

\* What an apply hands over to Reconcile is among what Reconcile allows, whatever
\* failed, fell back, was skipped or was left to another restart on the way:
\* what recordApply saves is right about every hook and unit.
THEOREM OutcomeAlwaysAsInReconcile == Spec => []OutcomeAsInReconcile
<1>1. Init => Typed /\ Booked
  BY TypeInit, StageInit, BookedInit DEF Typed
<1>2. Typed /\ Booked /\ [Next]_vars => (Typed /\ Booked)'
  BY TypeStep, StageStep, HookBookStep, RestartBookStep DEF Typed, Booked
<1>3. Typed /\ Booked => OutcomeAsInReconcile
  <2> SUFFICES ASSUME Typed, HookBook, RestartBook, pc = "save"
               PROVE  OutcomeAsInReconcile
    BY DEF Booked, OutcomeAsInReconcile
  <2>1. \A u \in restarts \ ChangedUnits :
          u \in {HookUnit[h] : h \in Attempted \ failed}
    BY DEF HookBook, Afoot
  <2> QED
    BY <2>1, TriggeredType
    DEF HookBook, RestartBook, Afoot, OutcomeAsInReconcile, Attempted, Typed, TypeOK
<1> QED
  BY <1>1, <1>2, <1>3, PTL DEF Spec

----------------------------------------------------------------------------
(* The Agent's own units. *)

LEMMA StartsSparesSelf ==
  ASSUME NEW u \in Units \ Self
  PROVE  Starts(u) \cap Self = {}
<1>1. \A m \in Self : Member[m] = NoUnit
  BY Sorts, UnitsAssumption
<1> QED
  BY <1>1, Sorts DEF Starts

LEMMA RestartSparesSelf ==
  ASSUME TypeOK, NEW u \in Units \ Self, NEW m \in Self,
         \/ RestartsUnit(u) \/ RestartFails(u) \/ Started(u) \/ Stops(u)
         \/ RestartsIgnoringDependencies(u)
  PROVE  view'[m] = view[m]
<1>1. m \in Units /\ m \notin Starts(u) /\ m # u
  BY Sorts, StartsSparesSelf
<1>2. ASSUME Started(u) PROVE view'[m] = view[m]
  BY <1>1, <1>2 DEF Started
<1>3. ASSUME NEW s, StartFails(u, s) PROVE view'[m] = view[m]
  BY <1>1, <1>3 DEF StartFails
<1>4. CASE Stops(u)
  BY <1>1, <1>4 DEF Stops
<1>5. CASE RestartsIgnoringDependencies(u)
  BY <1>1, <1>5 DEF RestartsIgnoringDependencies, TypeOK, Views
<1> QED
  BY <1>2, <1>3, <1>4, <1>5 DEF RestartsUnit, RestartFails

\* The Agent that performs an apply is neither stopped nor restarted by it before
\* everything else was handled: deletes, hooks that restart, raw units, changed
\* units and the consumers of a build all leave the Agent's own units to the
\* deferred operations (selfUnits, stopUnitForDelete, restartEach).
THEOREM AgentNotInTurn == Spec => NotInTurn
<1>1. Init => Typed
  BY TypeInit, StageInit DEF Typed
<1>2. Typed /\ [Next]_vars => Typed'
  BY TypeStep, StageStep DEF Typed
<1>3. Typed /\ [Next]_vars =>
        [\A u \in Self : view'[u] # view[u] =>
           pc \in {"save", "idle", "retry"} \/ queue # {}]_vars
  <2> SUFFICES ASSUME TypeOK, Stage, [Next]_vars, NEW m \in Self,
                      pc \notin {"save", "idle", "retry"}, queue = {}
               PROVE  view'[m] = view[m]
    BY DEF Typed
  <2> USE DEF host, state, work
  <2>1. CASE Write
    <3> PICK u \in Paths :
          IF u \in Units /\ want[u] = Absent
          THEN StopForDelete(u)
          ELSE UNCHANGED <<run, view, enabled, selfOps, faults>>
      BY <2>1 DEF Write
    <3>1. CASE UNCHANGED view
      BY <3>1
    <3>2. CASE u \in Units \ Self /\ Stops(u)
      BY <3>2, RestartSparesSelf
    <3> QED
      BY <3>1, <3>2, Sorts DEF StopForDelete, StopsBeforeDelete
  <2>2. CASE RunHook
    BY <2>2 DEF RunHook, NextHook
  <2>3. CASE ActivateRaw
    <3> PICK u \in todo : ActivateUnit(u)
      BY <2>3 DEF ActivateRaw
    <3>1. u \in Units \ Self
      BY <2>3, Sorts DEF ActivateRaw, Stage
    <3> QED
      BY <3>1, RestartSparesSelf DEF ActivateUnit
  <2>4. CASE Restart
    <3> PICK u \in todo : RestartChangedUnit(u)
      BY <2>4 DEF Restart
    <3>1. u \in Units
      BY <2>4 DEF Restart, Stage, TypeOK
    <3> QED
      BY <3>1, RestartSparesSelf
      DEF RestartChangedUnit, Defer, Deferred, LeaveAlone, RestartUnit
  <2>5. CASE Consume
    <3> PICK u \in todo : RestartConsumer(u)
      BY <2>5 DEF Consume
    <3>1. u \in Units
      BY <2>5, TriggeredType DEF Consume, Stage
    <3> QED
      BY <3>1, RestartSparesSelf
      DEF RestartConsumer, Defer, Deferred, LeaveAlone, RestartUnit
  <2>6. CASE WriteFails \/ WritesDone \/ DaemonReload \/ DaemonReloadFails
             \/ Build \/ BuildFails \/ Built \/ Activated \/ RestartsDone
             \/ Consumed \/ Save \/ RetryRestart \/ RetryDone \/ RollBack
    BY <2>6
    DEF WriteFails, WritesDone, DaemonReload, DaemonReloadFails, Build, BuildFails,
        Built, Activated, RestartsDone, Consumed, Save, RetryRestart, RetryDone,
        RollBack
  <2>7. CASE UNCHANGED vars
    BY <2>7 DEF vars
  <2>8. CASE SelfOp \/ \E u \in Units : Dies(u) \/ JobFails(u) \/ Health(u)
    BY <2>8 DEF SelfOp, SelfOpsScheduled, Dies, JobFails, Health
  <2>9. CASE \E commit \in Follows[sha] : Begin(commit)
    BY <2>9 DEF Begin
  <2> QED
    BY <2>1, <2>2, <2>3, <2>4, <2>5, <2>6, <2>7, <2>8, <2>9 DEF Next, Apply
<1> QED
  BY <1>1, <1>2, <1>3, PTL DEF Spec, NotInTurn

----------------------------------------------------------------------------
(* The files, and the images made of them. *)

\* Where the files of the Host are in an apply: those it has not handled yet, and
\* those it does not touch, are as they were when it began. No file is there that
\* the state file does not know, but in the middle of an apply.
DiskBook ==
  /\ want = Fleet[sha] /\ \E c \in Shas : managed = Fleet[c]
  /\ outcome = "gone" => pc = "idle" /\ selfOps = {}
  /\ pc = "idle" /\ outcome # "gone" =>
       \A p \in Paths : managed[p] = Absent => disk[p] = Absent
  /\ pc # "idle" =>
       \A p \in Paths : managed[p] = Absent => was.disk[p] = Absent
  /\ pc = "write" => \A p \in Paths :
       disk[p] = IF p \in Changes \ todo THEN want[p] ELSE was.disk[p]
  /\ Afoot => \A p \in Paths :
       disk[p] = IF p \in Changes THEN want[p] ELSE was.disk[p]
  /\ pc = "rollback" => \A p \in Paths \ Changes : disk[p] = was.disk[p]
  /\ pc = "retry" => disk = was.disk

LEMMA DiskBookInit == Init => DiskBook
BY DEF Init, Deployed, DiskBook, Afoot

LEMMA DiskBookStep == Typed /\ DiskBook /\ [Next]_vars => DiskBook'
<1> SUFFICES ASSUME TypeOK, Stage, DiskBook, [Next]_vars PROVE DiskBook'
  BY DEF Typed
<1> USE DEF DiskBook, Afoot, host, state, work
<1>1. CASE UNCHANGED vars
  BY <1>1, Frame DEF vars
<1>2. ASSUME NEW commit \in Follows[sha], Begin(commit) PROVE DiskBook'
  BY <1>2, FleetAssumption DEF Begin, Changes
<1>3. CASE Write
  <2> PICK q \in Paths : /\ NextPath(q) /\ todo' = todo \ {q}
                         /\ disk' = [disk EXCEPT ![q] = want[q]]
    BY <1>3 DEF Write
  <2>1. pc = "write" /\ pc' = "write" /\ outcome' # "gone" /\ q \in Changes
    BY <1>3 DEF Write, NextPath, Stage
  <2>2. UNCHANGED <<managed, want, was, sha>> /\ Changes' = Changes
    BY <1>3, Frame DEF Write
  <2>3. ASSUME NEW p \in Paths
        PROVE  disk'[p] = IF p \in Changes \ todo' THEN want[p]
                          ELSE was.disk[p]
    BY <2>1 DEF TypeOK, Tree, NextPath
  <2> QED
    BY <2>1, <2>2, <2>3
<1>4. CASE WritesDone
  BY <1>4, Frame DEF WritesDone
<1>5. CASE Save
  <2>1. \A p \in Paths : want[p] = Absent => disk[p] = Absent
    BY <1>5 DEF Save, Changes
  <2> QED
    BY <1>5, <2>1, TypeStep DEF Save, Typed, TypeOK
<1>6. CASE RetryRestart
  <2>1. UNCHANGED <<managed, want, sha, was, selfOps>> /\ pc = "retry"
    BY <1>6 DEF RetryRestart
  <2>2. CASE UNCHANGED <<disk, pc, outcome>>
    BY <2>1, <2>2, Frame
  <2>3. CASE /\ disk' = [p \in Paths |-> IF managed[p] = Absent THEN Absent
                                         ELSE disk[p]]
             /\ pc' = "idle" /\ outcome' = "died"
    BY <2>1, <2>3
  <2> QED
    BY <1>6, <2>2, <2>3 DEF RetryRestart, AgentRestarts
<1>7. CASE RollBack
  <2>1. \A p \in Paths : managed[p] = Absent => disk'[p] = Absent
    BY <1>7 DEF RollBack
  <2> QED
    BY <1>7, <2>1 DEF RollBack
<1>8. CASE SelfOp
  <2>1. /\ UNCHANGED <<managed, want, sha, was>> /\ selfOps' = {}
        /\ pc \in {"save", "idle"} /\ outcome # "gone"
    BY <1>8 DEF SelfOp, SelfOpsScheduled
  <2>2. CASE UNCHANGED <<disk, pc, outcome>>
    BY <2>1, <2>2, Frame
  <2>3. CASE /\ disk' = [p \in Paths |-> IF managed[p] = Absent THEN Absent
                                         ELSE disk[p]]
             /\ pc' = "idle" /\ outcome' # "gone"
    BY <2>1, <2>3
  <2>4. CASE pc' = "idle" /\ outcome' = "gone"
    BY <2>1, <2>4
  <2> QED
    BY <1>8, <2>1, <2>2, <2>3, <2>4 DEF SelfOp, AgentRestarts
<1>9. CASE \E u \in Units : Dies(u) \/ JobFails(u) \/ Health(u)
  BY <1>9, Frame DEF Dies, JobFails, Health
<1>10. CASE RunHook \/ RetryDone
  BY <1>10, Frame DEF RunHook, RetryDone
<1>11. CASE WriteFails \/ DaemonReloadFails \/ BuildFails
  BY <1>11, Frame DEF WriteFails, DaemonReloadFails, BuildFails
<1>12. CASE DaemonReload \/ Build \/ Built \/ ActivateRaw \/ Activated \/ Restart
            \/ RestartsDone \/ Consume \/ Consumed
  <2>1. /\ UNCHANGED <<disk, managed, want, sha, was, outcome>>
        /\ Afoot /\ Afoot' /\ outcome # "gone" /\ pc' \notin {"idle", "write"}
    BY <1>12 DEF DaemonReload, Build, Built, ActivateRaw, Activated, Restart,
                 RestartsDone, Consume, Consumed
  <2> QED
    BY <2>1, Frame
<1> QED
  BY <1>1, <1>2, <1>3, <1>4, <1>5, <1>6, <1>7, <1>8, <1>9, <1>10, <1>11, <1>12
  DEF Next, Apply

\* An Agent that is gone does nothing any more.
LEMMA GoneLasts ==
  ASSUME DiskBook, outcome = "gone", [Next]_vars
  PROVE  UNCHANGED vars \/ \E u \in Units : Dies(u) \/ JobFails(u)
<1>1. pc = "idle" /\ selfOps = {}
  BY DEF DiskBook
<1> QED
  BY <1>1
  DEF Next, Apply, Begin, Write, WriteFails, WritesDone, RunHook, DaemonReload,
      DaemonReloadFails, Build, BuildFails, Built, ActivateRaw, Activated, Restart,
      RestartsDone, Consume, Consumed, Save, RetryRestart, RetryDone, RollBack,
      SelfOp, Health

\* A Host gets another commit only when an apply begins.
LEMMA ShaKept ==
  ASSUME [Next]_vars
  PROVE  UNCHANGED sha \/ \E commit \in Follows[sha] : Begin(commit)
BY DEF Next, Apply, vars, work, Write, WriteFails, WritesDone, RunHook, DaemonReload,
       DaemonReloadFails, Build, BuildFails, Built, ActivateRaw, Activated, Restart,
       RestartsDone, Consume, Consumed, Save, RetryRestart, RetryDone, RollBack,
       SelfOp, Dies, JobFails, Health

\* A build keeps the set of files below its context from commit to commit: an
\* Agent that ends between a build and the save removes input files the state does
\* not know yet, and nothing repeats the build for that.
ContextsKeepFiles ==
  \A b \in Builds : \A c, d \in Shas :
    Fleet[c][b] # Absent /\ Fleet[d][b] # Absent =>
      \A p \in Inputs[b] : Fleet[c][p] = Absent => Fleet[d][p] = Absent

\* The tag of a build that is there names the image of the files on the Host.
Tagged(d, t) == \A b \in Builds : d[b] # Absent => t[b] = Image(b, d)

\* While an apply may still fail the tags are those it began with, but for
\* the builds that ran.
TagBook ==
  /\ pc \in {"idle", "retry", "activate", "restart", "consume", "save"} =>
       Tagged(disk, tag)
  /\ pc \in {"write", "hooks", "build", "rollback"} => Tagged(was.disk, was.tag)
  /\ pc \in {"write", "hooks", "rollback"} => tag = was.tag
  /\ pc = "build" => \A b \in Builds :
       tag[b] = IF b \in TriggeredBuilds \ todo THEN Image(b, disk)
                ELSE was.tag[b]

LEMMA ImageSame ==
  ASSUME NEW b \in Builds, NEW d, NEW e, \A p \in Inputs[b] \cup {b} : d[p] = e[p]
  PROVE  Image(b, d) = Image(b, e)
BY DEF Image

LEMMA BuildPaths == \A b \in Builds : Inputs[b] \cup {b} \subseteq Paths
BY Sorts, FleetAssumption

LEMMA TaggedSame ==
  ASSUME NEW d, NEW e, NEW t, \A p \in Paths : e[p] = d[p], Tagged(d, t)
  PROVE  Tagged(e, t)
BY ImageSame, BuildPaths, Sorts DEF Tagged

\* A start builds from the files on the Host.
LEMMA StartTags ==
  ASSUME NEW u \in Units,
         \/ RestartsUnit(u) \/ RestartFails(u) \/ Started(u)
         \/ RestartsIgnoringDependencies(u),
         Tagged(disk, tag)
  PROVE  Tagged(disk, tag')
<1>1. \/ UNCHANGED tag
      \/ tag' = [b \in Builds |-> IF b \in Rebuilds(u) THEN Image(b, disk)
                                  ELSE tag[b]]
  BY DEF RestartsUnit, RestartFails, Started, StartFails,
         RestartsIgnoringDependencies
<1> QED
  BY <1>1 DEF Tagged

LEMMA TagBookInit == Init => TagBook
BY DEF Init, Deployed, TagBook, Tagged

LEMMA TagBookStep ==
  ASSUME ContextsKeepFiles
  PROVE  Typed /\ DiskBook /\ TagBook /\ [Next]_vars => TagBook'
<1> SUFFICES ASSUME TypeOK, Stage, DiskBook, TagBook, [Next]_vars
             PROVE  TagBook'
  BY DEF Typed
<1> USE DEF TagBook, host, state, work
<1>0. DiskBook' /\ TypeOK'
  BY DiskBookStep, TypeStep DEF Typed
<1>1. CASE UNCHANGED vars
  BY <1>1, Frame DEF vars, Tagged
<1>2. ASSUME NEW commit \in Follows[sha], Begin(commit) PROVE TagBook'
  BY <1>2 DEF Begin, Tagged
<1>3. CASE Write \/ WriteFails \/ WritesDone \/ DaemonReloadFails
  BY <1>3
  DEF Write, WriteFails, WritesDone, DaemonReloadFails, Tagged
<1>4. CASE RunHook
  BY <1>4 DEF RunHook, Tagged
<1>5. CASE DaemonReload
  BY <1>5, Frame DEF DaemonReload, Tagged
<1>6. CASE Build
  <2> PICK b \in todo : todo' = todo \ {b} /\ BuildRuns(b)
    BY <1>6 DEF Build
  <2>1. /\ b \in TriggeredBuilds /\ b \in Builds /\ TriggeredBuilds' = TriggeredBuilds
        /\ UNCHANGED <<disk, was, pc>> /\ pc = "build"
    BY <1>6, Frame, TriggeredType DEF Build, Stage
  <2>2. \A c \in Builds : tag'[c] = IF c = b THEN Image(b, disk) ELSE tag[c]
    BY <2>1 DEF BuildRuns, TypeOK, Tags
  <2> QED
    BY <2>1, <2>2 DEF Tagged
<1>7. CASE BuildFails
  <2>1. /\ \A b \in Builds : tag'[b] = was.tag[b]
        /\ UNCHANGED was /\ pc = "build" /\ pc' = "rollback"
    BY <1>7 DEF BuildFails, RestoredTags
  <2>2. tag' = was.tag
    BY <1>0, <2>1 DEF TypeOK, Tags
  <2> QED
    BY <2>1, <2>2 DEF Tagged
<1>8. CASE Built
  <2>1. pc = "build" /\ todo = {} /\ pc' = "activate" /\ UNCHANGED <<disk, tag>>
    BY <1>8 DEF Built
  <2>2. ASSUME NEW b \in Builds, disk[b] # Absent PROVE tag[b] = Image(b, disk)
    <3>1. CASE b \in TriggeredBuilds
      BY <2>1, <3>1
    <3>2. CASE b \notin TriggeredBuilds
      <4>1. want[b] # Absent
        BY <2>1, <2>2, Sorts DEF DiskBook, Afoot, Changes
      <4>2. \A p \in Inputs[b] \cup {b} : p \notin Changes
        BY <3>2, <4>1 DEF TriggeredBuilds
      <4>3. \A p \in Inputs[b] \cup {b} : disk[p] = was.disk[p]
        BY <2>1, <4>2, BuildPaths DEF DiskBook, Afoot
      <4>4. was.tag[b] = Image(b, was.disk)
        BY <2>1, <2>2, <4>3 DEF Tagged
      <4> QED
        BY <2>1, <3>2, <4>3, <4>4, ImageSame
    <3> QED
      BY <3>1, <3>2
  <2> QED
    BY <2>1, <2>2 DEF Tagged
<1>9. CASE ActivateRaw
  <2> PICK u \in todo : ActivateUnit(u)
    BY <1>9 DEF ActivateRaw
  <2>1. u \in Units /\ pc = "activate" /\ UNCHANGED <<pc, disk>>
    BY <1>9, Sorts DEF ActivateRaw, Stage
  <2> QED
    BY <2>1, StartTags DEF ActivateUnit, Tagged
<1>10. CASE Restart
  <2> PICK u \in todo : RestartChangedUnit(u)
    BY <1>10 DEF Restart
  <2>1. u \in Units /\ pc = "restart" /\ UNCHANGED <<pc, disk>>
    BY <1>10 DEF Restart, Stage, TypeOK
  <2> QED
    BY <2>1, StartTags
    DEF RestartChangedUnit, Defer, LeaveAlone, RestartUnit, Tagged
<1>11. CASE Consume
  <2> PICK u \in todo : RestartConsumer(u)
    BY <1>11 DEF Consume
  <2>1. u \in Units /\ pc = "consume" /\ UNCHANGED <<pc, disk>>
    BY <1>11, TriggeredType DEF Consume, Stage
  <2> QED
    BY <2>1, StartTags DEF RestartConsumer, Defer, LeaveAlone, RestartUnit, Tagged
<1>12. CASE Activated \/ RestartsDone \/ Consumed \/ Save \/ RetryDone
  BY <1>12 DEF Activated, RestartsDone, Consumed, Save, RetryDone, Tagged
<1>13. CASE RetryRestart
  <2> PICK u \in restarts :
        \/ (RestartsUnit(u) \/ RestartFails(u)) /\ UNCHANGED <<disk, pc>>
        \/ AgentRestarts({u}) /\ pc' = "idle" /\ UNCHANGED tag
    BY <1>13 DEF RetryRestart
  <2>1. pc = "retry" /\ u \in Units
    BY <1>13 DEF RetryRestart, TypeOK
  <2>2. CASE (RestartsUnit(u) \/ RestartFails(u)) /\ UNCHANGED <<disk, pc>>
    BY <2>1, <2>2, StartTags DEF Tagged
  <2>3. CASE AgentRestarts({u}) /\ pc' = "idle" /\ UNCHANGED tag
    <3>1. \A p \in Paths : disk'[p] = disk[p]
      BY <2>1, <2>3 DEF AgentRestarts, DiskBook
    <3> QED
      BY <2>1, <2>3, <3>1, TaggedSame
  <2> QED
    BY <2>2, <2>3
<1>14. CASE RollBack
  <2>1. \A p \in Paths : disk'[p] = was.disk[p]
    BY <1>14 DEF RollBack, DiskBook
  <2> QED
    BY <1>14, <2>1, TaggedSame DEF RollBack
<1>15. CASE SelfOp
  <2>1. pc \in {"save", "idle"} /\ outcome # "gone" /\ Tagged(disk, tag)
    BY <1>15 DEF SelfOp, SelfOpsScheduled, DiskBook
  <2>2. CASE UNCHANGED <<disk, tag>> /\ pc' \in {"save", "idle"}
    BY <2>1, <2>2 DEF Tagged
  <2>3. CASE AgentRestarts(selfOps) /\ pc' = "idle" /\ UNCHANGED tag
    <3>1. \A p \in Paths : disk'[p] = IF managed[p] = Absent THEN Absent
                                      ELSE disk[p]
      BY <2>3 DEF AgentRestarts
    <3>2. ASSUME NEW b \in Builds, disk'[b] # Absent
          PROVE  \A p \in Inputs[b] \cup {b} : disk'[p] = disk[p]
      <4>1. CASE pc = "idle"
        BY <2>1, <3>1, <4>1, BuildPaths DEF DiskBook
      <4>2. CASE pc = "save"
        <5>1. managed[b] # Absent /\ want[b] # Absent
          BY <3>1, <3>2, <4>2, Sorts DEF DiskBook, Afoot, Changes
        <5>2. \A p \in Inputs[b] : managed[p] = Absent => want[p] = Absent
          BY <5>1 DEF ContextsKeepFiles, DiskBook, TypeOK
        <5>3. \A p \in Paths : managed[p] = Absent /\ want[p] = Absent =>
                                 disk[p] = Absent
          BY <4>2 DEF DiskBook, Afoot
        <5> QED
          BY <3>1, <5>1, <5>2, <5>3, BuildPaths
      <4> QED
        BY <2>1, <4>1, <4>2
    <3>3. Tagged(disk', tag')
      BY <2>1, <2>3, <3>2, ImageSame DEF Tagged
    <3> QED
      BY <2>3, <3>3
  <2> QED
    BY <1>15, <2>1, <2>2, <2>3 DEF SelfOp
<1>16. CASE \E u \in Units : Dies(u) \/ JobFails(u) \/ Health(u)
  <2>1. CASE UNCHANGED tag
    BY <1>16, <2>1 DEF Dies, JobFails, Health, Tagged
  <2>2. ASSUME NEW u \in Units, RestartsUnit(u) \/ RestartFails(u),
               pc = "idle", UNCHANGED <<disk, pc>>
        PROVE  TagBook'
    BY <2>2, StartTags DEF Tagged
  <2> QED
    BY <1>16, <2>1, <2>2 DEF Dies, StartFails, JobFails, Health
<1> QED
  BY <1>1, <1>2, <1>3, <1>4, <1>5, <1>6, <1>7, <1>8, <1>9, <1>10, <1>11,
     <1>12, <1>13, <1>14, <1>15, <1>16
  DEF Next, Apply

\* Between applies every build's tag names the image of the files on the Host,
\* whatever was written, built, rolled back or restarted, where no build gets a
\* new input file (restoreTags, triggeredBuilds).
THEOREM TagsAlwaysCurrent ==
  ASSUME ContextsKeepFiles
  PROVE  Spec => []TagsCurrent
<1>1. Init => Typed /\ DiskBook /\ TagBook
  BY TypeInit, StageInit, DiskBookInit, TagBookInit DEF Typed
<1>2. Typed /\ DiskBook /\ TagBook /\ [Next]_vars => (Typed /\ DiskBook /\ TagBook)'
  BY TypeStep, StageStep, DiskBookStep, TagBookStep DEF Typed
<1>3. TagBook => TagsCurrent
  BY DEF TagBook, Tagged, TagsCurrent
<1> QED
  BY <1>1, <1>2, <1>3, PTL DEF Spec

----------------------------------------------------------------------------
(* What a failed apply has done to the units. *)

\* Daemons of the new commit that no hook is for.
Spared(u) == u \in Units /\ Daemon(u) /\ want[u] # Absent /\ Hooked(u) = {}

SpareBook ==
  /\ pc \in {"write", "hooks", "build", "rollback"} =>
       \A u \in Units :
         Spared(u) => run[u] = was.run[u] /\ view[u] = was.view[u]
  /\ \A h \in pendHooks \cup queue \cup failed : Triggers[h] # {}

\* Stopping a unit that the commit deletes stops no unit that it keeps.
LEMMA StopsSparesKept ==
  ASSUME TypeOK, DiskBook, NEW u \in Units, want[u] = Absent, Stops(u),
         NEW m \in Units, want[m] # Absent
  PROVE  run'[m] = run[m] /\ view'[m] = view[m]
<1>1. m \notin Starts(u)
  <2>1. m # u
    OBVIOUS
  <2>2. Member[m] # u
    BY UnitsAssumption, FleetAssumption DEF DiskBook, TypeOK
  <2> QED
    BY <2>1, <2>2 DEF Starts
<1> QED
  BY <1>1 DEF Stops

LEMMA SpareBookInit == Init => SpareBook
BY DEF Init, SpareBook

LEMMA SpareBookStep ==
  Typed /\ DiskBook /\ SpareBook /\ [Next]_vars => SpareBook'
<1> SUFFICES ASSUME TypeOK, Stage, DiskBook, SpareBook, [Next]_vars
             PROVE  SpareBook'
  BY DEF Typed
<1> USE DEF SpareBook, Spared, host, state, work
<1>0. UNCHANGED want => \A u : Spared(u)' = Spared(u)
  OBVIOUS
<1>1. CASE UNCHANGED vars
  BY <1>1 DEF vars
<1>2. ASSUME NEW commit \in Follows[sha], Begin(commit) PROVE SpareBook'
  BY <1>2 DEF Begin
<1>3. CASE Write
  <2> PICK p \in Paths :
        IF p \in Units /\ want[p] = Absent
        THEN StopForDelete(p)
        ELSE UNCHANGED <<run, view, enabled, selfOps, faults>>
    BY <1>3 DEF Write
  <2>1. pc = "write" /\ UNCHANGED <<want, was, pendHooks, queue, failed>>
    BY <1>3 DEF Write
  <2>2. ASSUME NEW m \in Units, want[m] # Absent
        PROVE  run'[m] = run[m] /\ view'[m] = view[m]
    BY <2>2, StopsSparesKept DEF StopForDelete
  <2> QED
    BY <2>1, <2>2
<1>4. CASE WriteFails \/ DaemonReloadFails \/ DaemonReload
  BY <1>4 DEF WriteFails, DaemonReloadFails, DaemonReload
<1>5. CASE WritesDone
  <2>1. \A h : Matches(h) => Triggers[h] # {}
    BY DEF Matches
  <2> QED
    BY <1>5, <2>1 DEF WritesDone
<1>6. CASE RunHook
  <2> PICK h \in Hooks : NextHook(h) /\ queue' = queue \ {h} /\ RunOneHook(h)
    BY <1>6 DEF RunHook
  <2>1. h \in queue /\ HookUnit[h] \in Units
    BY HooksAssumption DEF NextHook
  <2>2. failed' \subseteq failed \cup {h}
    BY DEF RunOneHook
  <2>3. \A u \in Units : u # HookUnit[h] => view'[u] = view[u]
    <3>1. CASE UNCHANGED view
      BY <3>1
    <3>2. CASE Reloaded(h)
      BY <2>1, <3>2 DEF Reloaded, TypeOK, Views
    <3> QED
      BY <3>1, <3>2 DEF RunOneHook, ReloadFails
  <2>4. Hooked(HookUnit[h]) # {}
    <3>1. PICK t : t \in Triggers[h]
      BY <2>1
    <3>2. t \in Hooked(HookUnit[h])
      BY <3>1 DEF Hooked
    <3> QED
      BY <3>2
  <2>5. UNCHANGED <<pc, run, want, was, pendHooks>>
    BY <1>6 DEF RunHook
  <2> QED
    BY <2>1, <2>2, <2>3, <2>4, <2>5
<1>7. CASE Build \/ BuildFails
  <2> PICK b \in todo, s \in {"inactive", "failed"} :
        run' = [run EXCEPT ![b] = s]
    BY <1>7 DEF Build, BuildRuns, BuildFails
  <2>1. /\ pc = "build" /\ pc' \in {"build", "rollback"}
        /\ UNCHANGED <<view, want, was, pendHooks, queue, failed>>
    BY <1>7 DEF Build, BuildFails
  <2>2. \A u \in Units : Daemon(u) => u # b
    BY <2>1, TriggeredType DEF Stage, Builds, Daemon
  <2> QED
    BY <2>1, <2>2 DEF TypeOK, Runs
<1>8. CASE Built \/ ActivateRaw \/ Activated \/ Restart \/ RestartsDone
           \/ Consume \/ Consumed \/ Save \/ RetryRestart \/ RetryDone \/ RollBack
  <2>1. /\ pc' \notin {"write", "hooks", "build", "rollback"}
        /\ queue' \subseteq queue /\ UNCHANGED failed
        /\ pendHooks' \in {pendHooks, failed}
    BY <1>8
    DEF Built, ActivateRaw, Activated, Restart, RestartsDone, Consume, Consumed,
        Save, RetryRestart, RetryDone, RollBack
  <2> QED
    BY <2>1
<1>9. CASE SelfOp
  BY <1>9 DEF SelfOp, SelfOpsScheduled
<1>10. CASE \E u \in Units : Dies(u) \/ JobFails(u) \/ Health(u)
  BY <1>10 DEF Dies, JobFails, Health
<1> QED
  BY <1>1, <1>2, <1>3, <1>4, <1>5, <1>6, <1>7, <1>8, <1>9, <1>10
  DEF Next, Apply

\* An apply that fails, in whichever phase, has left every running daemon of the
\* new commit as it was: nothing is started, stopped or restarted before the
\* last thing that can fail the apply is over (restartUnits).
THEOREM FailedApplyAlwaysSparesUnits == Spec => FailedApplySparesUnits
<1>1. Init => Typed /\ DiskBook /\ SpareBook
  BY TypeInit, StageInit, DiskBookInit, SpareBookInit DEF Typed
<1>2. Typed /\ DiskBook /\ SpareBook /\ [Next]_vars =>
        (Typed /\ DiskBook /\ SpareBook)'
  BY TypeStep, StageStep, DiskBookStep, SpareBookStep DEF Typed
<1>3. Typed /\ SpareBook /\ [Next]_vars =>
        [pc = "rollback" =>
           \A u \in Units : /\ Daemon(u) /\ want[u] # Absent /\ Hooked(u) = {}
                            /\ was.run[u] = "active"
                            => run[u] = "active" /\ view[u] = was.view[u]]_vars
  BY DEF SpareBook, Spared
<1> QED
  BY <1>1, <1>2, <1>3, PTL DEF Spec, FailedApplySparesUnits

----------------------------------------------------------------------------
(* Daemons. *)

\* Where nothing fails an apply, nothing did before.
HarmlessBefore ==
  \A c \in Shas : \A d \in Follows[c] : FailsApplies(c) => FailsApplies(d)

\* A changed daemon the apply has not (re)started yet: its own turn, that of its
\* pod, or that of the consumers of a build is still to come.
Owed(u) ==
  CASE pc = "activate" -> \/ u \in todo \cup restarts \cup BuildConsumers
                          \/ Member[u] \in restarts \cap ChangedUnits
    [] pc = "restart"  -> \/ u \in todo \cup BuildConsumers
                          \/ Member[u] \in todo \cap ChangedUnits
    [] pc = "consume"  -> u \in todo
    [] OTHER           -> FALSE

Activating == pc \in {"activate", "restart", "consume", "save"}

\* systemd knows the files as they are, but for those written before the reload.
Known ==
  \A u \in Units :
    (pc \in {"write", "hooks"} => u \notin Changes) => defs[u] = disk[u]

Deployable(u) == managed[u] # Absent /\ disk[u] = managed[u]

EnabledBook ==
  /\ \A u \in Raw : Deployable(u) => u \in enabled
  /\ pc = "activate" => (Raw \cap Written) \ todo \subseteq enabled
  /\ pc \in {"restart", "consume", "save"} => Raw \cap Written \subseteq enabled

DaemonBook ==
  /\ \A u \in Units \ Self : Daemon(u) /\ Deployable(u) => Fine(u)
  /\ Activating => \A u \in (Units \cap Written) \ Self :
       Daemon(u) => Owed(u) \/ Fine(u)

KeptBook ==
  ~FailsApplies(sha) /\ outcome # "gone" =>
    pc # "rollback" /\ Known /\ EnabledBook /\ DaemonBook

\* Faults that leave a unit as it was do not happen here.
LEMMA Harmless ==
  ASSUME ~FailsApplies(sha), NEW k, Fault(k)
  PROVE  k \in {"hook", "died", "timeout", "crash", "status"}
BY DEF FailsApplies, Fault

\* A pod is in no pod and requires no build; the Agent is in no pod and is none.
LEMMA Pods ==
  ASSUME NEW u \in Units, Member[u] # NoUnit
  PROVE  /\ Member[u] \in Units /\ Kind[Member[u]] = "pod"
         /\ Member[Member[u]] = NoUnit /\ Requires[Member[u]] = NoUnit
         /\ Member[u] \notin Self /\ Member[u] # u
         /\ Member[u] \notin Builds /\ Member[u] \notin Raw
<1>1. Member[u] \in Units /\ Kind[Member[u]] = "pod"
  BY UnitsAssumption, FleetAssumption
<1>2. Member[Member[u]] = NoUnit /\ Requires[Member[u]] = NoUnit
  BY <1>1, UnitsAssumption
<1>3. Member[u] \notin Self
  BY <1>1, FleetAssumption
<1> QED
  BY <1>1, <1>2, <1>3, Sorts DEF Builds, Raw

\* Whatever a (re)start of u comes to, a unit that was fine, and that systemd
\* knows, still is.
LEMMA FineKept ==
  ASSUME TypeOK, ~FailsApplies(sha), NEW u \in Units,
         \/ RestartsUnit(u) \/ RestartFails(u) \/ Started(u)
         \/ StartFails(u, "failed")
         \/ RestartsIgnoringDependencies(u) /\ Kind[u] # "pod",
         NEW m \in Units, Daemon(m), Present(m), Fine(m)
  PROVE  Fine(m)'
<1>0. ASSUME m \notin Starts(u), Member[m] # NoUnit
      PROVE  Member[m] \in Units /\ Member[m] \notin Starts(u)
  BY <1>0, Pods, Sorts DEF Starts
<1>1. CASE Started(u)
  <2>1. CASE m \in Starts(u)
    BY <1>1, <2>1 DEF Started, AfterStart, Daemon, Fine
  <2>2. CASE m \notin Starts(u)
    BY <1>0, <1>1, <2>2 DEF Started, Fine
  <2> QED
    BY <2>1, <2>2
<1>2. CASE StartFails(u, "failed")
  <2>1. \A n \in Units : run'[n] = "active" => run[n] = "active"
    BY <1>2 DEF StartFails
  <2>2. CASE m = u
    BY <1>2, <2>2 DEF StartFails, Fine
  <2>3. CASE m # u /\ m \in Starts(u)
    BY <1>2, <2>3, Sorts DEF StartFails, Starts, Fine
  <2>4. CASE m \notin Starts(u)
    BY <1>0, <1>2, <2>1, <2>4 DEF StartFails, Starts, Fine
  <2> QED
    BY <2>2, <2>3, <2>4
<1>3. CASE UNCHANGED run
  BY <1>3 DEF Fine
<1>4. CASE RestartsIgnoringDependencies(u) /\ Kind[u] # "pod"
  BY <1>4, Pods DEF RestartsIgnoringDependencies, Fine, TypeOK, Runs
<1> QED
  BY <1>1, <1>2, <1>3, <1>4, Harmless DEF RestartsUnit, RestartFails

\* It makes the unit, and the members of a pod, fine.
LEMMA FineMade ==
  ASSUME TypeOK, ~FailsApplies(sha), NEW u \in Units, Present(u),
         RestartsUnit(u) \/ RestartFails(u) \/ Started(u),
         NEW m \in Starts(u), Daemon(m)
  PROVE  Fine(m)'
<1>1. m \in Units /\ u \in Starts(u) /\ (m = u \/ Member[m] = u)
  BY DEF Starts
<1>2. CASE Started(u)
  BY <1>1, <1>2 DEF Started, AfterStart, Daemon, Fine
<1>3. CASE StartFails(u, "failed")
  BY <1>1, <1>3, Sorts DEF StartFails, Fine
<1> QED
  BY <1>2, <1>3, Harmless DEF RestartsUnit, RestartFails

\* Stopping a unit leaves only its members stopped with it.
LEMMA FineStopped ==
  ASSUME NEW u \in Units, Stops(u), NEW m \in Units, m # u, Fine(m)
  PROVE  Fine(m)'
BY Pods, Sorts DEF Stops, Starts, Fine

\* Unless the reload of a rollback fails, systemd knows the files again after it.
LEMMA KnownStep ==
  ASSUME Typed, DiskBook, "restore" \notin Faults[sha], pc # "rollback" => Known,
         [Next]_vars, pc' # "rollback"
  PROVE  Known'
<1>a. TypeOK /\ Stage /\ (pc # "rollback" => Known)
  BY DEF Typed
<1> USE <1>a DEF Known, host, state, work
<1>0. DiskBook' /\ TypeOK'
  BY DiskBookStep, TypeStep DEF Typed
<1>1. CASE UNCHANGED vars
  BY <1>1, Frame DEF vars
<1>2. CASE \E commit \in Follows[sha] : Begin(commit)
  BY <1>2 DEF Begin
<1>3. CASE Write
  <2> PICK p \in Paths :
        NextPath(p) /\ disk' = [disk EXCEPT ![p] = want[p]]
    BY <1>3 DEF Write
  <2>1. pc = "write" /\ pc' = "write" /\ UNCHANGED defs /\ Changes' = Changes
    BY <1>3, Frame DEF Write
  <2>2. p \in Changes
    BY <2>1 DEF NextPath, Stage
  <2> QED
    BY <2>1, <2>2, Sorts DEF TypeOK, Tree
<1>4. CASE WritesDone \/ RunHook
  BY <1>4, Frame DEF WritesDone, RunHook
<1>5. CASE DaemonReload
  BY <1>5, Sorts DEF DaemonReload
<1>6. CASE WriteFails \/ DaemonReloadFails \/ BuildFails
  BY <1>6 DEF WriteFails, DaemonReloadFails, BuildFails
<1>7. CASE RollBack
  BY <1>7 DEF RollBack, Fault
<1>8. CASE Build \/ Built \/ ActivateRaw \/ Activated \/ Restart \/ RestartsDone
           \/ Consume \/ Consumed \/ Save \/ RetryDone
  BY <1>8
  DEF Build, Built, ActivateRaw, Activated, Restart, RestartsDone, Consume,
      Consumed, Save, RetryDone
<1>9. ASSUME NEW units, AgentRestarts(units), pc' = "idle",
             pc \in {"retry", "save", "idle"}
      PROVE  Known'
  <2> DEFINE kept == [p \in Paths |-> IF managed[p] = Absent THEN Absent
                                      ELSE disk[p]]
  <2>1. disk' = kept /\ (\/ kept = disk /\ UNCHANGED defs
                         \/ defs' = [u \in Units |-> kept[u]])
    BY <1>9 DEF AgentRestarts
  <2> HIDE DEF kept
  <2> QED
    BY <1>9, <2>1
<1>10. CASE RetryRestart
  BY <1>9, <1>10 DEF RetryRestart
<1>11. CASE SelfOp
  BY <1>9, <1>11 DEF SelfOp, SelfOpsScheduled
<1>12. CASE \E u \in Units : Dies(u) \/ JobFails(u) \/ Health(u)
  BY <1>12 DEF Dies, JobFails, Health
<1> QED
  BY <1>1, <1>2, <1>3, <1>4, <1>5, <1>6, <1>7, <1>8, <1>10, <1>11, <1>12
  DEF Next, Apply

LEMMA EnabledStep ==
  ASSUME Typed, DiskBook, KeptBook, ~FailsApplies(sha), outcome # "gone",
         [Next]_vars, outcome' # "gone"
  PROVE  EnabledBook'
<1>a. TypeOK /\ Stage /\ pc # "rollback" /\ EnabledBook
  BY DEF Typed, KeptBook
<1> USE <1>a DEF EnabledBook, Deployable, host, state, work
<1>1. CASE UNCHANGED vars
  BY <1>1, Frame DEF vars
<1>2. CASE \E commit \in Follows[sha] : Begin(commit)
  BY <1>2 DEF Begin
<1>3. CASE Write
  <2> PICK p \in Paths : /\ NextPath(p) /\ disk' = [disk EXCEPT ![p] = want[p]]
                         /\ enabled \ {p} \subseteq enabled'
    BY <1>3 DEF Write, StopForDelete
  <2>1. pc = "write" /\ pc' = "write" /\ UNCHANGED managed
    BY <1>3 DEF Write
  <2>2. p \in Changes
    BY <2>1 DEF NextPath, Stage
  <2> QED
    BY <2>1, <2>2, Sorts DEF TypeOK, Tree, Changes
<1>4. CASE Built
  BY <1>4, Frame DEF Built
<1>5. CASE ActivateRaw
  <2> PICK u \in todo : todo' = todo \ {u} /\ ActivateUnit(u)
    BY <1>5 DEF ActivateRaw
  <2>1. enabled' = enabled \cup {u}
    BY Harmless DEF ActivateUnit
  <2> QED
    BY <1>5, <2>1, Frame DEF ActivateRaw
<1>6. CASE Activated \/ Restart \/ RestartsDone \/ Consume \/ Consumed
  BY <1>6, Frame DEF Activated, Restart, RestartsDone, Consume, Consumed
<1>7. CASE Save
  BY <1>7, Sorts DEF Save, Written, Changes
<1>8. CASE WriteFails \/ WritesDone \/ RunHook \/ DaemonReload \/ DaemonReloadFails
           \/ Build \/ BuildFails \/ RetryDone \/ RollBack
  BY <1>8
  DEF WriteFails, WritesDone, RunHook, DaemonReload, DaemonReloadFails, Build,
      BuildFails, RetryDone, RollBack
<1>9. ASSUME NEW units, AgentRestarts(units), UNCHANGED <<managed, enabled>>,
             pc' \in {"retry", "idle"}
      PROVE  EnabledBook'
  BY <1>9, Sorts DEF AgentRestarts
<1>10. CASE RetryRestart
  BY <1>9, <1>10 DEF RetryRestart
<1>11. CASE SelfOp
  BY <1>9, <1>11, Frame DEF SelfOp, SelfOpsScheduled
<1>12. CASE \E u \in Units : Dies(u) \/ JobFails(u) \/ Health(u)
  BY <1>12 DEF Dies, JobFails, Health
<1> QED
  BY <1>1, <1>2, <1>3, <1>4, <1>5, <1>6, <1>7, <1>8, <1>10, <1>11, <1>12
  DEF Next, Apply

\* The changed daemons, all owed when the builds are done.
LEMMA AllOwed ==
  ASSUME TypeOK, HookBook, Built, NEW u \in Units \cap Written, Daemon(u)
  PROVE  Owed(u)'
<1>1. /\ pc = "build" /\ pc' = "activate" /\ todo' = Raw \cap Written
      /\ restarts' = Restarting /\ UNCHANGED <<want, managed>>
  BY DEF Built, host, state
<1>2. ChangedUnits \subseteq restarts
  BY <1>1 DEF HookBook, Afoot
<1>3. CASE Kind[u] = "service"
  BY <1>1, <1>3, Frame DEF Owed, Raw
<1>4. CASE Kind[u] # "service"
  <2>1. u \in ChangedUnits /\ u \notin TriggeredBuilds
    BY <1>4, TriggeredType DEF Daemon, ChangedUnits, Builds
  <2>2. CASE Member[u] \in ChangedUnits
    <3>1. Member[u] # NoUnit
      BY <2>2, TriggeredType, Sorts
    <3>2. Member[u] \notin TriggeredBuilds /\ Member[u] \notin BuildConsumers
          /\ Member[Member[u]] \notin ChangedUnits
      BY <3>1, Pods, TriggeredType, Sorts DEF BuildConsumers
    <3> QED
      BY <1>1, <1>2, <2>2, <3>2, Frame DEF Restarting, Owed
  <2>3. CASE Member[u] \notin ChangedUnits
    BY <1>1, <1>2, <2>1, <2>3, Frame DEF Restarting, Owed
  <2> QED
    BY <2>2, <2>3
<1> QED
  BY <1>3, <1>4

\* One unit is (re)started, or left alone; what was owed to it is paid.
LEMMA DaemonsPaid ==
  ASSUME TypeOK, DiskBook, Known, DaemonBook, ~FailsApplies(sha), Activating,
         UNCHANGED <<disk, managed, want, pc, restarts>>,
         NEW v \in Units, todo' = todo \ {v},
         \/ UNCHANGED run /\ (v \in Self \/ ~Daemon(v))
         \/ RestartsUnit(v) \/ RestartFails(v)
         \/ RestartsIgnoringDependencies(v) /\ Kind[v] # "pod",
         ASSUME NEW u \in (Units \cap Written) \ Self, Daemon(u), Owed(u),
                ~Owed(u)', u # v
         PROVE  v \in Written /\ Member[u] = v
                  /\ (RestartsUnit(v) \/ RestartFails(v))
  PROVE  DaemonBook'
<1>0. \A u \in Units : defs[u] = disk[u]
  BY DEF Known, Activating
<1>1. ASSUME NEW u \in Units \ Self, Daemon(u), disk[u] # Absent, Fine(u)
      PROVE  Fine(u)'
  <2>1. Present(u)
    BY <1>0, <1>1 DEF Present
  <2>2. CASE UNCHANGED run
    BY <1>1, <2>2 DEF Fine
  <2> QED
    BY <1>1, <2>1, <2>2, FineKept
<1>2. \A u \in Written : disk[u] # Absent
  BY DEF DiskBook, Activating, Afoot, Written, Changes
<1>3. ASSUME NEW u \in (Units \cap Written) \ Self, Daemon(u)
      PROVE  Owed(u)' \/ Fine(u)'
  <2>1. disk[u] # Absent
    BY <1>2, <1>3
  <2>2. CASE Fine(u)
    BY <1>1, <1>3, <2>1, <2>2
  <2>3. CASE Owed(u) /\ u = v
    <3>1. Present(u) /\ u \in Starts(u) /\ v \notin Self /\ Daemon(v)
      BY <1>0, <1>3, <2>1, <2>3 DEF Present, Starts
    <3>2. CASE RestartsIgnoringDependencies(v)
      BY <2>3, <3>2 DEF RestartsIgnoringDependencies, TypeOK, Runs, Fine
    <3> QED
      BY <2>3, <3>1, <3>2, FineMade
  <2>4. CASE Owed(u) /\ u # v /\ ~Owed(u)'
    <3>1. /\ v \in Written /\ Member[u] = v
          /\ RestartsUnit(v) \/ RestartFails(v)
      BY <1>3, <2>4
    <3>2. Present(v) /\ u \in Starts(v)
      BY <1>0, <1>2, <2>1, <3>1 DEF Present, Starts
    <3> QED
      BY <1>3, <3>1, <3>2, FineMade
  <2> QED
    BY <1>3, <2>2, <2>3, <2>4 DEF DaemonBook
<1>4. Written' = Written
  BY Frame
<1>5. ASSUME NEW u \in Units \ Self, Daemon(u), Deployable(u)' PROVE Fine(u)'
  BY <1>1, <1>5 DEF Deployable, DaemonBook
<1> QED
  BY <1>3, <1>4, <1>5 DEF DaemonBook

LEMMA DaemonStep ==
  ASSUME Typed, DiskBook, Booked, KeptBook, ~FailsApplies(sha), outcome # "gone",
         [Next]_vars, outcome' # "gone"
  PROVE  DaemonBook'
<1>a. TypeOK /\ Stage /\ pc # "rollback" /\ Known /\ DaemonBook
  BY DEF Typed, KeptBook
<1>b. HookBook
  BY DEF Booked
<1> USE <1>a DEF host, state, work
<1>1. CASE UNCHANGED vars
  BY <1>1, Frame DEF vars, DaemonBook, Deployable, Fine, Owed, Activating
<1>2. CASE \E commit \in Follows[sha] : Begin(commit)
  BY <1>2 DEF Begin, DaemonBook, Deployable, Fine, Activating
<1>3. CASE Write
  <2> PICK p \in Paths : /\ NextPath(p) /\ disk' = [disk EXCEPT ![p] = want[p]]
                         /\ IF p \in Units /\ want[p] = Absent
                            THEN StopForDelete(p)
                            ELSE UNCHANGED <<run, view, enabled, selfOps, faults>>
    BY <1>3 DEF Write
  <2>0. UNCHANGED run \/ (p \in Units /\ Stops(p))
    BY DEF StopForDelete
  <2>1. pc = "write" /\ pc' = "write" /\ UNCHANGED managed
    BY <1>3 DEF Write
  <2>2. p \in Changes
    BY <2>1 DEF NextPath, Stage
  <2>3. ASSUME NEW u \in Units \ Self, Daemon(u), Deployable(u)' PROVE Fine(u)'
    <3>1. u # p
      BY <2>1, <2>2, <2>3, Sorts DEF TypeOK, Tree, Changes, Deployable
    <3>2. Fine(u)
      BY <2>1, <2>3, <3>1, Sorts DEF TypeOK, Tree, DaemonBook, Deployable
    <3> QED
      BY <2>0, <3>1, <3>2, FineStopped DEF Fine
  <2> QED
    BY <2>1, <2>3 DEF DaemonBook, Activating
<1>4. CASE WritesDone \/ RunHook \/ DaemonReload \/ RetryDone
  BY <1>4
  DEF WritesDone, RunHook, DaemonReload, RetryDone, DaemonBook, Deployable, Fine,
      Activating
<1>5. CASE WriteFails \/ DaemonReloadFails \/ BuildFails
  BY <1>5, Harmless DEF WriteFails, DaemonReloadFails, BuildFails
<1>6. CASE RollBack
  BY <1>6 DEF RollBack
<1>7. CASE Build
  <2> PICK b \in todo : BuildRuns(b)
    BY <1>7 DEF Build
  <2>1. b \in Builds
    BY <1>7, TriggeredType DEF Build, Stage
  <2>2. ASSUME NEW u \in Units, Daemon(u), Fine(u) PROVE Fine(u)'
    <3>1. u # b /\ (Member[u] # NoUnit => Member[u] # b)
      BY <2>1, <2>2, Pods DEF Daemon, Builds
    <3> QED
      BY <2>2, <3>1 DEF BuildRuns, Fine, TypeOK, Runs
  <2> QED
    BY <1>7, <2>2 DEF Build, DaemonBook, Deployable, Activating
<1>8. CASE Built
  <2>1. pc' = "activate" /\ UNCHANGED <<run, disk, managed, want>>
    BY <1>8 DEF Built
  <2>2. \A u \in Units : Fine(u)' = Fine(u) /\ Deployable(u)' = Deployable(u)
    BY <2>1 DEF Fine, Deployable
  <2>3. \A u \in (Units \cap Written) \ Self : Daemon(u) => Owed(u)'
    BY <1>8, <1>b, AllOwed
  <2> QED
    BY <2>1, <2>2, <2>3, Frame DEF DaemonBook
<1>9. CASE ActivateRaw
  <2> PICK v \in todo : todo' = todo \ {v} /\ ActivateUnit(v)
    BY <1>9 DEF ActivateRaw
  <2>1. /\ UNCHANGED <<disk, managed, want, pc, restarts>> /\ pc = "activate"
        /\ v \in Units /\ v \in Raw
    BY <1>9, Sorts DEF ActivateRaw, Stage, Raw
  <2>2. \/ UNCHANGED run /\ ~Daemon(v)
        \/ RestartsUnit(v) \/ RestartFails(v)
    BY <2>1, Harmless DEF ActivateUnit, Activates, Daemon, Raw
  <2>3. ASSUME NEW u \in (Units \cap Written) \ Self, Daemon(u), Owed(u), u # v
        PROVE  Owed(u)'
    BY <2>1, <2>3, Frame DEF Owed
  <2> QED
    BY <2>1, <2>2, <2>3, DaemonsPaid DEF Activating
<1>10. CASE Activated \/ RestartsDone \/ Consumed
  <2>1. /\ UNCHANGED <<run, disk, managed, want, restarts>> /\ todo = {}
        /\ \/ pc = "activate" /\ pc' = "restart" /\ todo' = restarts
           \/ pc = "restart" /\ pc' = "consume" /\ todo' = BuildConsumers
           \/ pc = "consume" /\ pc' = "save"
    BY <1>10 DEF Activated, RestartsDone, Consumed
  <2>2. \A u \in Units : Fine(u)' = Fine(u) /\ Deployable(u)' = Deployable(u)
    BY <2>1 DEF Fine, Deployable
  <2>3. \A u : Owed(u) => Owed(u)'
    BY <2>1, Frame DEF Owed
  <2> QED
    BY <2>1, <2>2, <2>3, Frame DEF DaemonBook, Activating
<1>11. CASE Restart
  <2> PICK v \in todo : todo' = todo \ {v} /\ RestartChangedUnit(v)
    BY <1>11 DEF Restart
  <2>1. /\ UNCHANGED <<disk, managed, want, pc, restarts>> /\ pc = "restart"
        /\ v \in Units
    BY <1>11 DEF Restart, Stage, TypeOK
  <2>2. \/ UNCHANGED run /\ (v \in Self \/ ~Daemon(v))
        \/ RestartsUnit(v) \/ RestartFails(v)
    BY DEF RestartChangedUnit, Defer, Deferred, LeaveAlone, LeftToTimer,
           StatusUnknown, Oneshot, Daemon, RestartUnit
  <2>3. ASSUME NEW u \in (Units \cap Written) \ Self, Daemon(u), Owed(u),
               ~Owed(u)', u # v
        PROVE  v \in Written /\ Member[u] = v
                 /\ (RestartsUnit(v) \/ RestartFails(v))
    <3>1. Member[u] = v /\ v \in ChangedUnits
      BY <2>1, <2>3, Frame DEF Owed
    <3>2. v \in Written /\ Kind[v] = "pod" /\ v \notin Self
      BY <2>1, <3>1, Pods, Sorts DEF ChangedUnits
    <3> QED
      BY <2>2, <3>1, <3>2 DEF Daemon
  <2> QED
    BY <2>1, <2>2, <2>3, DaemonsPaid DEF Activating
<1>12. CASE Consume
  <2> PICK v \in todo : todo' = todo \ {v} /\ RestartConsumer(v)
    BY <1>12 DEF Consume
  <2>1. /\ UNCHANGED <<disk, managed, want, pc, restarts>> /\ pc = "consume"
        /\ v \in Units /\ v \in BuildConsumers
    BY <1>12, TriggeredType DEF Consume, Stage
  <2>2. Kind[v] # "pod"
    <3>1. Requires[v] # NoUnit
      BY <2>1, TriggeredType, Sorts DEF BuildConsumers, Builds
    <3> QED
      BY <2>1, <3>1, UnitsAssumption
  <2>3. \/ UNCHANGED run /\ (v \in Self \/ ~Daemon(v))
        \/ RestartsUnit(v) \/ RestartFails(v)
        \/ RestartsIgnoringDependencies(v) /\ Kind[v] # "pod"
    BY <2>2, Harmless
    DEF RestartConsumer, Defer, Deferred, LeaveAlone, ExternallyActivated, Daemon,
        RestartUnit
  <2>4. ASSUME NEW u \in (Units \cap Written) \ Self, Daemon(u), Owed(u), u # v
        PROVE  Owed(u)'
    BY <2>1, <2>4 DEF Owed
  <2> QED
    BY <2>1, <2>3, <2>4, DaemonsPaid DEF Activating
<1>13. CASE Save
  <2>1. pc = "save" /\ pc' = "idle" /\ managed' = want /\ UNCHANGED <<disk, run>>
    BY <1>13 DEF Save
  <2>2. ASSUME NEW u \in Units \ Self, Daemon(u), Deployable(u)' PROVE Fine(u)
    <3>1. CASE u \in Written
      BY <2>1, <2>2, <3>1 DEF DaemonBook, Activating, Owed
    <3>2. CASE u \notin Written
      BY <2>1, <2>2, <3>2, Sorts DEF DaemonBook, Deployable, Written, Changes
    <3> QED
      BY <3>1, <3>2
  <2> QED
    BY <2>1, <2>2 DEF DaemonBook, Activating, Fine
<1>14. ASSUME NEW units \in SUBSET Self, AgentRestarts(units), UNCHANGED managed,
              pc' = "idle"
       PROVE  DaemonBook'
  <2>1. ASSUME NEW u \in Units \ Self, Daemon(u), Deployable(u)' PROVE Fine(u)'
    <3>1. Deployable(u)
      BY <1>14, <2>1, Sorts DEF AgentRestarts, Deployable
    <3>2. Fine(u) /\ u \notin units /\ Member[u] \notin units
      BY <1>14, <2>1, <3>1, Pods, FleetAssumption DEF DaemonBook
    <3> QED
      BY <1>14, <3>2, Pods DEF AgentRestarts, Fine
  <2> QED
    BY <1>14, <2>1 DEF DaemonBook, Activating
<1>15. ASSUME NEW v \in Units, UNCHANGED <<disk, managed>>,
              ~Activating', pc \notin {"write", "hooks"},
              \/ UNCHANGED run \/ RestartsUnit(v) \/ RestartFails(v)
              \/ StartFails(v, "failed")
       PROVE  DaemonBook'
  <2>1. ASSUME NEW u \in Units \ Self, Daemon(u), Deployable(u)' PROVE Fine(u)'
    <3>1. Deployable(u) /\ Fine(u)
      BY <1>15, <2>1 DEF Deployable, DaemonBook
    <3>2. Present(u)
      BY <1>15, <3>1 DEF Known, Present, Deployable
    <3> QED
      BY <1>15, <2>1, <3>1, <3>2, FineKept DEF Fine
  <2> QED
    BY <1>15, <2>1 DEF DaemonBook
<1>16. CASE RetryRestart
  <2> PICK u \in restarts :
        \/ (RestartsUnit(u) \/ RestartFails(u)) /\ UNCHANGED <<disk, pc>>
        \/ u \in Self /\ AgentRestarts({u}) /\ pc' = "idle"
    BY <1>16 DEF RetryRestart
  <2>1. pc = "retry" /\ UNCHANGED managed /\ u \in Units
    BY <1>16 DEF RetryRestart, TypeOK
  <2> QED
    BY <1>14, <1>15, <2>1 DEF Activating
<1>17. CASE SelfOp
  <2>1. UNCHANGED managed /\ AgentRestarts(selfOps) /\ pc' = "idle"
    BY <1>17, Harmless DEF SelfOp
  <2> QED
    BY <1>14, <2>1 DEF TypeOK
<1>18. CASE \E u \in Units : Dies(u) \/ Health(u)
  <2> PICK u \in Units : Dies(u) \/ Health(u)
    BY <1>18
  <2>1. UNCHANGED <<disk, managed>> /\ pc = "idle" /\ pc' = "idle"
    BY DEF Dies, Health
  <2>2. \/ UNCHANGED run \/ RestartsUnit(u) \/ RestartFails(u)
        \/ StartFails(u, "failed")
    BY DEF Dies, Health
  <2> QED
    BY <1>15, <2>1, <2>2 DEF Activating
<1>19. CASE \E v \in Units : JobFails(v)
  <2> PICK v \in Units : JobFails(v)
    BY <1>19
  <2>1. /\ UNCHANGED <<disk, managed>> /\ pc = "idle" /\ pc' = "idle"
        /\ Kind[v] = "job" /\ run' = [run EXCEPT ![v] = "failed"]
    BY DEF JobFails, ExternallyActivated
  <2>2. ASSUME NEW u \in Units, Daemon(u), Fine(u) PROVE Fine(u)'
    <3>1. u # v /\ (Member[u] # NoUnit => Member[u] # v)
      BY <2>1, <2>2, Pods DEF Daemon
    <3> QED
      BY <2>1, <2>2, <3>1 DEF Fine, TypeOK, Runs
  <2> QED
    BY <2>1, <2>2 DEF DaemonBook, Deployable, Activating
<1> QED
  BY <1>1, <1>2, <1>3, <1>4, <1>5, <1>6, <1>7, <1>8, <1>9, <1>10, <1>11, <1>12,
     <1>13, <1>16, <1>17, <1>18, <1>19
  DEF Next, Apply

LEMMA KeptInit == Init => KeptBook
BY DEF Init, Deployed, Daemon, KeptBook, Known, EnabledBook, DaemonBook,
       Deployable, Activating, Fine

LEMMA KeptStep ==
  ASSUME HarmlessBefore
  PROVE  Typed /\ DiskBook /\ Booked /\ KeptBook /\ [Next]_vars => KeptBook'
<1> SUFFICES ASSUME Typed, DiskBook, Booked, KeptBook, [Next]_vars,
                    ~FailsApplies(sha)', outcome' # "gone"
             PROVE  (pc # "rollback" /\ Known /\ EnabledBook /\ DaemonBook)'
  BY DEF KeptBook
<1>1. ~FailsApplies(sha)
  BY ShaKept DEF Begin, HarmlessBefore, FailsApplies, Typed, TypeOK
<1>2. outcome # "gone"
  BY GoneLasts DEF Dies, JobFails, vars
<1>3. pc # "rollback" /\ Known /\ "restore" \notin Faults[sha]
  BY <1>1, <1>2 DEF KeptBook, FailsApplies
<1>4. pc' # "rollback"
  <2>1. ~(WriteFails \/ DaemonReloadFails \/ BuildFails)
    BY <1>1, Harmless DEF WriteFails, DaemonReloadFails, BuildFails
  <2> QED
    BY <1>3, <2>1
    DEF Next, Apply, vars, Begin, Write, WritesDone, RunHook, DaemonReload, Build,
        Built, ActivateRaw, Activated, Restart, RestartsDone, Consume, Consumed, Save,
        RetryRestart, RetryDone, RollBack, SelfOp, Dies, JobFails, Health
<1> QED
  BY <1>1, <1>2, <1>3, <1>4, KnownStep, EnabledStep, DaemonStep

\* A deployment starts the daemons, all of them, and enables the raw units
\* (activateSystemdUnits, restartEach, restartConsumer, stopUnitForDelete), as
\* long as neither this commit nor one before it had a fault that fails applies.
THEOREM DaemonsAlwaysKept ==
  ASSUME HarmlessBefore
  PROVE  Spec => []DaemonsKept
<1> DEFINE IInv == Typed /\ DiskBook /\ Booked /\ KeptBook
<1>1. Init => IInv
  BY TypeInit, StageInit, DiskBookInit, BookedInit, KeptInit DEF Typed
<1>2. IInv /\ [Next]_vars => IInv'
  BY TypeStep, StageStep, DiskBookStep, HookBookStep, RestartBookStep, KeptStep
  DEF Typed, Booked
<1>3. IInv => DaemonsKept
  BY DEF KeptBook, EnabledBook, DaemonBook, Deployable, Fine, DaemonsKept
<1> QED
  BY <1>1, <1>2, <1>3, PTL DEF Spec

----------------------------------------------------------------------------
(* What runs is what is deployed. *)

\* What can be forgotten, or lost, or left behind by a failed apply at a commit
\* can be at the next one.
FaultsLast ==
  \A c \in Shas : \A d \in Follows[c] :
    Faults[c] \cap {"refused", "restore", "consumer", "reload", "build", "selfop"}
      \subseteq Faults[d]

\* The files the Host has, or has again if the apply fails; and those that the
\* data of a unit is about, which a hook delivers before an apply may fail.
Base     == IF pc \in {"write", "hooks", "build", "rollback"} THEN was.disk ELSE disk
DataBase == IF pc \in {"write", "rollback"} THEN was.disk ELSE disk

\* The daemons ServicesCurrent is about.
Counted(u) == u \in Units /\ Daemon(u) /\ (u \in Self => ~LosesSelfOps)

\* Not running, or about to be restarted by systemd.
Resting(u) ==
  \/ run[u] # "active"
  \/ u \in selfOps /\ pc \in {"restart", "consume", "save", "idle"}

ImageOf(u, files) ==
  Requires[u] # NoUnit /\ files[Requires[u]] # Absent =>
    view[u].image = Image(Requires[u], files)

\* A unit that was (re)started now.
Fresh(u) ==
  /\ view[u].def = disk[u] /\ view[u].data = [p \in Data |-> disk[p]]
  /\ ImageOf(u, disk)

\* The units an apply is to (re)start.
Touched(u) ==
  want[u] # Absent /\ (u \in Written \cup restarts \/ Requires[u] \in TriggeredBuilds)

Covers(hooks, u, p) == \E h \in hooks : HookUnit[h] = u /\ p \in Delivers(h)

\* A unit whose file is that of the state file runs it, with the image that the
\* files of its build make, if these are those of the state file.
RecordBook ==
  \A u \in Units :
    Counted(u) /\ ~Resting(u) /\ managed[u] # Absent /\ Base[u] = managed[u] =>
      /\ view[u].def = managed[u]
      /\ (Requires[u] # NoUnit => \A p \in Inputs[Requires[u]] \cup {Requires[u]} :
                                    Base[p] = managed[p])
           => ImageOf(u, managed)

\* It has the data of the state file, or a hook is pending that delivers it.
DataBook ==
  \A u \in Units :
    Counted(u) /\ ~Resting(u) /\ managed[u] # Absent /\ DataBase[u] = managed[u] =>
      \A p \in Hooked(u) : managed[p] # Absent /\ DataBase[p] = managed[p] =>
        view[u].data[p] = managed[p] \/ Covers(pendHooks, u, p)

\* The units to be (re)started were, or are still owed their turn.
TurnBook ==
  Activating => \A u \in Units :
    Counted(u) /\ ~Resting(u) /\ Touched(u) /\ disk[u] = want[u] =>
      Owed(u) \/ Fresh(u)

\* The other units have the data of the commit, or a hook will deliver it.
HookedBook ==
  Afoot \/ pc = "retry" => \A u \in Units :
    Counted(u) /\ ~Resting(u) /\ ~Touched(u) /\ want[u] # Absent /\ disk[u] = want[u] =>
      \A p \in Hooked(u) : want[p] # Absent /\ disk[p] = want[p] =>
        view[u].data[p] = disk[p] \/ Covers(queue \cup failed, u, p)

\* What a hook stands for when its effect is skipped.
ExecutedBook ==
  pc \in {"hooks", "retry"} /\ queue # {} => \A h \in Hooks :
    Effect[h] \in executed /\ run[HookUnit[h]] = "active" =>
      \/ HookUnit[h] \in restarts
      \/ \A p \in Delivers(h) : view[HookUnit[h]].data[p] = disk[p]
      \/ \E g \in failed : Effect[g] = Effect[h]

PlanBook ==
  /\ pc \notin {"hooks", "retry"} => queue = {}
  /\ pc = "write" => executed = {}
  /\ pc = "retry" => want = managed /\ selfOps = {}
  /\ pc = "idle" /\ selfOps # {} => want = managed
  /\ pc \in {"write", "hooks", "build", "activate", "rollback"} =>
       \A u \in selfOps : want[u] = Absent

CurrentBook ==
  /\ PlanBook
  /\ ~Forgets(sha) =>
       /\ pc # "rollback" => Known
       /\ RecordBook /\ TurnBook
       /\ ~FailsAfterHooks(sha) => DataBook /\ HookedBook /\ ExecutedBook

LEMMA PlanInit == Init => PlanBook
BY DEF Init, PlanBook

LEMMA PlanStep == Typed /\ DiskBook /\ PlanBook /\ [Next]_vars => PlanBook'
<1> SUFFICES ASSUME TypeOK, Stage, DiskBook, PlanBook, [Next]_vars PROVE PlanBook'
  BY DEF Typed
<1> USE DEF PlanBook, host, state, work
<1>1. CASE UNCHANGED vars
  BY <1>1 DEF vars
<1>2. ASSUME NEW commit \in Follows[sha], Begin(commit) PROVE PlanBook'
  <2>1. CASE {p \in Paths : Fleet[commit][p] # managed[p]} = {}
    <3>1. Fleet[commit] \in Tree
      BY FleetType, FleetAssumption DEF TypeOK
    <3>2. Fleet[commit] = managed
      BY <2>1, <3>1 DEF TypeOK, Tree
    <3> QED
      BY <1>2, <2>1, <3>2 DEF Begin
  <2> QED
    BY <1>2, <2>1 DEF Begin
<1>3. CASE Write
  <2> PICK p \in Paths :
        IF p \in Units /\ want[p] = Absent
        THEN StopForDelete(p)
        ELSE UNCHANGED <<run, view, enabled, selfOps, faults>>
    BY <1>3 DEF Write
  <2>1. \A u \in selfOps' : u \in selfOps \/ want[u] = Absent
    BY DEF StopForDelete
  <2> QED
    BY <1>3, <2>1 DEF Write
<1>4. CASE RunHook
  BY <1>4 DEF RunHook
<1>5. CASE Save
  BY <1>5 DEF Save
<1>6. CASE \/ WriteFails \/ WritesDone \/ DaemonReload \/ DaemonReloadFails \/ Build
           \/ BuildFails \/ Built \/ ActivateRaw \/ Activated \/ Restart
           \/ RestartsDone \/ Consume \/ Consumed \/ RollBack
  BY <1>6
  DEF WriteFails, WritesDone, DaemonReload, DaemonReloadFails, Build, BuildFails,
      Built, ActivateRaw, Activated, Restart, RestartsDone, Consume, Consumed, RollBack
<1>7. CASE RetryRestart \/ RetryDone
  BY <1>7 DEF RetryRestart, RetryDone
<1>8. CASE SelfOp
  BY <1>8 DEF SelfOp, SelfOpsScheduled
<1>9. CASE \E u \in Units : Dies(u) \/ JobFails(u) \/ Health(u)
  BY <1>9 DEF Dies, JobFails, Health
<1> QED
  BY <1>1, <1>2, <1>3, <1>4, <1>5, <1>6, <1>7, <1>8, <1>9 DEF Next, Apply

LEMMA FaultsLasting ==
  ASSUME FaultsLast, TypeOK, DiskBook, [Next]_vars
  PROVE  /\ Forgets(sha) => Forgets(sha)'
         /\ FailsAfterHooks(sha) => FailsAfterHooks(sha)'
         /\ LosesSelfOps => LosesSelfOps'
         /\ \A u : Counted(u)' => Counted(u)
<1>1. ASSUME NEW k \in {"refused", "restore", "consumer", "reload", "build",
                        "selfop"},
             k \in Faults[sha]
      PROVE  k \in Faults[sha']
  BY <1>1, ShaKept DEF Begin, FaultsLast, TypeOK
<1>2. outcome = "gone" => outcome' = "gone"
  BY GoneLasts DEF Dies, JobFails, vars
<1>3. LosesSelfOps => LosesSelfOps'
  BY <1>1, <1>2 DEF LosesSelfOps
<1>4. Forgets(sha) => Forgets(sha)'
  <2>1. Forgets(sha) => \E k \in {"refused", "restore", "consumer"} : k \in Faults[sha]
    BY DEF Forgets
  <2>2. (\E k \in {"refused", "restore", "consumer"} : k \in Faults[sha'])
          => Forgets(sha)'
    BY DEF Forgets
  <2> QED
    BY <1>1, <2>1, <2>2
<1>5. FailsAfterHooks(sha) => FailsAfterHooks(sha)'
  <2>1. FailsAfterHooks(sha) => \E k \in {"reload", "build"} : k \in Faults[sha]
    BY DEF FailsAfterHooks
  <2>2. (\E k \in {"reload", "build"} : k \in Faults[sha']) => FailsAfterHooks(sha)'
    BY DEF FailsAfterHooks
  <2> QED
    BY <1>1, <2>1, <2>2
<1> QED
  BY <1>3, <1>4, <1>5 DEF Counted

\* A step leaves a unit as it was, stops it, or has it load what is there.
Moved(m) ==
  run'[m] # "active" \/ (run'[m] = run[m] /\ view'[m] = view[m]) \/ Fresh(m)'

LEMMA LoadedFresh ==
  ASSUME UNCHANGED disk, NEW t, Tagged(disk, t), NEW m \in Units,
         defs[m] = disk[m], view'[m] = Loads(m, disk, defs, t)
  PROVE  Fresh(m)'
<1>1. Requires[m] \in Builds \cup {NoUnit}
  BY FleetAssumption
<1>2. /\ view'[m].def = disk[m] /\ view'[m].data = [p \in Data |-> disk[p]]
      /\ Requires[m] # NoUnit => view'[m].image = t[Requires[m]]
  BY DEF Loads
<1>3. Requires[m] # NoUnit /\ disk[Requires[m]] # Absent =>
        view'[m].image = Image(Requires[m], disk)
  BY <1>1, <1>2 DEF Tagged
<1> QED
  BY <1>2, <1>3 DEF Fresh, ImageOf

LEMMA StartMoves ==
  ASSUME UNCHANGED disk, Tagged(disk, tag), \A m \in Units : defs[m] = disk[m],
         NEW u \in Units,
         \/ RestartsUnit(u) \/ RestartFails(u) \/ Started(u)
         \/ StartFails(u, "failed") \/ RestartsIgnoringDependencies(u),
         TypeOK, NEW m \in Units
  PROVE  Moved(m)
<1>1. CASE Started(u)
  <2>1. Tagged(disk, tag')
    BY <1>1, StartTags
  <2>2. CASE m \in Starts(u)
    BY <1>1, <2>1, <2>2, LoadedFresh DEF Started, Moved
  <2>3. CASE m \notin Starts(u)
    BY <1>1, <2>3 DEF Started, Moved
  <2> QED
    BY <2>2, <2>3
<1>2. CASE StartFails(u, "failed") \/ StartFails(u, "inactive")
  BY <1>2 DEF StartFails, Starts, Moved
<1>3. CASE RestartsIgnoringDependencies(u)
  <2>1. CASE m = u
    <3>1. view'[m] = Loads(m, disk, defs, tag)
      BY <1>3, <2>1 DEF RestartsIgnoringDependencies, TypeOK, Views
    <3> QED
      BY <3>1, LoadedFresh DEF Moved
  <2>2. CASE m # u
    BY <1>3, <2>2 DEF RestartsIgnoringDependencies, TypeOK, Views, Runs, Moved
  <2> QED
    BY <2>1, <2>2
<1>4. CASE UNCHANGED <<run, view>>
  BY <1>4 DEF Moved
<1> QED
  BY <1>1, <1>2, <1>3, <1>4 DEF RestartsUnit, RestartFails

\* A (re)start that systemd does not refuse.
LEMMA StartPays ==
  ASSUME UNCHANGED disk, Tagged(disk, tag), \A m \in Units : defs[m] = disk[m],
         "refused" \notin Faults[sha], NEW u \in Units, disk[u] # Absent,
         RestartsUnit(u) \/ RestartFails(u) \/ Started(u), NEW m \in Starts(u)
  PROVE  run'[m] # "active" \/ Fresh(m)'
<1>1. m \in Units /\ Present(u)
  BY DEF Starts, Present
<1>2. CASE Started(u)
  <2>1. Tagged(disk, tag')
    BY <1>2, StartTags
  <2> QED
    BY <1>1, <1>2, <2>1, LoadedFresh DEF Started
<1>3. CASE StartFails(u, "failed") \/ StartFails(u, "inactive")
  BY <1>1, <1>3 DEF StartFails
<1> QED
  BY <1>1, <1>2, <1>3 DEF RestartsUnit, RestartFails, Fault

LEMMA StartPaysAlone ==
  ASSUME TypeOK, UNCHANGED disk, Tagged(disk, tag), NEW u \in Units,
         defs[u] = disk[u], RestartsIgnoringDependencies(u)
  PROVE  Fresh(u)'
<1>1. view'[u] = Loads(u, disk, defs, tag)
  BY DEF RestartsIgnoringDependencies, TypeOK, Views
<1> QED
  BY <1>1, LoadedFresh

LEMMA UnitsMove ==
  ASSUME Typed, TagBook, Known,
         \/ ActivateRaw \/ Restart \/ Consume \/ (RetryRestart /\ pc' = "retry")
         \/ \E u \in Units : Dies(u) \/ JobFails(u) \/ Health(u)
  PROVE  /\ pc \in {"activate", "restart", "consume", "retry", "idle"}
         /\ UNCHANGED <<pc, disk, managed, pendHooks, want, was, sha, queue, failed>>
         /\ selfOps \subseteq selfOps'
         /\ \A m \in Units : Moved(m)
<1>a. TypeOK /\ Stage
  BY DEF Typed
<1> USE <1>a DEF host, state, work
<1>0. ASSUME pc \in {"activate", "restart", "consume", "retry", "idle"}
      PROVE  (\A m \in Units : defs[m] = disk[m]) /\ Tagged(disk, tag)
  BY <1>0 DEF Known, TagBook
<1>1. CASE ActivateRaw
  <2> PICK u \in todo : ActivateUnit(u)
    BY <1>1 DEF ActivateRaw
  <2>1. pc = "activate" /\ u \in Units
    BY <1>1, Sorts DEF ActivateRaw, Stage
  <2>2. /\ UNCHANGED <<pc, disk, managed, pendHooks, want, was, sha, queue, failed,
                       selfOps>>
    BY <1>1 DEF ActivateRaw
  <2>3. CASE UNCHANGED <<run, view>>
    BY <2>1, <2>2, <2>3 DEF Moved
  <2>4. CASE RestartsUnit(u) \/ RestartFails(u) \/ Started(u)
    BY <1>0, <2>1, <2>2, <2>4, StartMoves
  <2> QED
    BY <2>3, <2>4 DEF ActivateUnit
<1>2. CASE Restart
  <2> PICK u \in todo : RestartChangedUnit(u)
    BY <1>2 DEF Restart
  <2>1. pc = "restart" /\ u \in Units
    BY <1>2 DEF Restart, Stage, TypeOK
  <2>2. /\ UNCHANGED <<pc, disk, managed, pendHooks, want, was, sha, queue, failed>>
        /\ selfOps \subseteq selfOps'
    BY <1>2 DEF Restart, RestartChangedUnit, Defer, LeaveAlone
  <2>3. CASE UNCHANGED <<run, view>>
    BY <2>1, <2>2, <2>3 DEF Moved
  <2>4. CASE RestartsUnit(u) \/ RestartFails(u)
    BY <1>0, <2>1, <2>2, <2>4, StartMoves
  <2> QED
    BY <2>3, <2>4 DEF RestartChangedUnit, Defer, LeaveAlone, RestartUnit
<1>3. CASE Consume
  <2> PICK u \in todo : RestartConsumer(u)
    BY <1>3 DEF Consume
  <2>1. pc = "consume" /\ u \in Units
    BY <1>3, TriggeredType DEF Consume, Stage
  <2>2. /\ UNCHANGED <<pc, disk, managed, pendHooks, want, was, sha, queue, failed>>
        /\ selfOps \subseteq selfOps'
    BY <1>3 DEF Consume, RestartConsumer, Defer, LeaveAlone
  <2>3. CASE UNCHANGED <<run, view>>
    BY <2>1, <2>2, <2>3 DEF Moved
  <2>4. CASE \/ RestartsUnit(u) \/ RestartFails(u) \/ RestartsIgnoringDependencies(u)
    BY <1>0, <2>1, <2>2, <2>4, StartMoves
  <2> QED
    BY <2>3, <2>4 DEF RestartConsumer, Defer, LeaveAlone, RestartUnit
<1>4. CASE (RetryRestart /\ pc' = "retry")
  <2> PICK u \in restarts : RestartsUnit(u) \/ RestartFails(u)
    BY <1>4 DEF RetryRestart
  <2>1. pc = "retry" /\ u \in Units
    BY <1>4 DEF RetryRestart, TypeOK
  <2>2. UNCHANGED <<pc, disk, managed, pendHooks, want, was, sha, queue, failed, selfOps>>
    BY <1>4 DEF RetryRestart
  <2> QED
    BY <1>0, <2>1, <2>2, StartMoves
<1>5. ASSUME NEW u \in Units, Dies(u) \/ JobFails(u) \/ Health(u)
      PROVE  /\ pc = "idle" /\ UNCHANGED <<pc, disk, managed, pendHooks, want, was, sha,
                                           queue, failed, selfOps>>
             /\ \A m \in Units : Moved(m)
  <2>1. /\ pc = "idle"
        /\ UNCHANGED <<pc, disk, managed, pendHooks, want, was, sha, queue, failed,
                       selfOps>>
    BY <1>5 DEF Dies, JobFails, Health
  <2>2. CASE UNCHANGED <<run, view>>
    BY <2>1, <2>2 DEF Moved
  <2>3. CASE RestartsUnit(u) \/ RestartFails(u) \/ StartFails(u, "failed")
    BY <1>0, <2>1, <2>3, StartMoves
  <2>4. CASE UNCHANGED view /\ run' = [run EXCEPT ![u] = "failed"]
    BY <2>1, <2>4 DEF Moved, TypeOK, Runs
  <2> QED
    BY <1>5, <2>1, <2>2, <2>3, <2>4 DEF Dies, JobFails, Health
<1> QED
  BY <1>1, <1>2, <1>3, <1>4, <1>5

LEMMA RecordKept ==
  ASSUME RecordBook, UNCHANGED managed, \A u : Counted(u)' => Counted(u),
         \A p \in Paths :
           managed[p] # Absent /\ Base'[p] = managed[p] => Base[p] = managed[p],
         \A b \in Builds : \A p \in Inputs[b] :
           managed[b] # Absent /\ Base'[b] = managed[b] /\ Base'[p] = managed[p] =>
             Base[p] = managed[p],
         \A u \in Units :
           Counted(u)' /\ ~Resting(u)' /\ managed[u] # Absent /\ Base'[u] = managed[u] =>
             \/ /\ ~Resting(u)
                /\ view'[u].def = view[u].def /\ view'[u].image = view[u].image
             \/ view'[u].def = Base'[u] /\ ImageOf(u, Base)'
  PROVE  RecordBook'
<1> SUFFICES ASSUME NEW u \in Units, Counted(u)', ~Resting(u)', managed[u] # Absent,
                    Base'[u] = managed[u]
             PROVE  /\ view'[u].def = managed[u]
                    /\ (Requires[u] # NoUnit =>
                          \A p \in Inputs[Requires[u]] \cup {Requires[u]} :
                            Base'[p] = managed[p])
                         => ImageOf(u, managed)'
  BY DEF RecordBook
<1>0. Requires[u] \in Builds \cup {NoUnit} /\ Counted(u) /\ Base[u] = managed[u]
  BY FleetAssumption, Sorts
<1>1. CASE view'[u].def = Base'[u] /\ ImageOf(u, Base)'
  <2> SUFFICES ASSUME Requires[u] # NoUnit, managed[Requires[u]] # Absent,
                      \A p \in Inputs[Requires[u]] \cup {Requires[u]} :
                        Base'[p] = managed[p]
               PROVE  view'[u].image = Image(Requires[u], managed)
    BY <1>1 DEF ImageOf
  <2>1. Image(Requires[u], Base') = Image(Requires[u], managed)
    BY <1>0, ImageSame
  <2>2. view'[u].image = Image(Requires[u], Base')
    BY <1>1 DEF ImageOf, Image
  <2> QED
    BY <2>1, <2>2
<1>2. CASE /\ ~Resting(u)
           /\ view'[u].def = view[u].def /\ view'[u].image = view[u].image
  <2>1. view'[u].def = managed[u]
    BY <1>0, <1>2 DEF RecordBook
  <2> SUFFICES ASSUME Requires[u] # NoUnit, managed[Requires[u]] # Absent,
                      \A p \in Inputs[Requires[u]] \cup {Requires[u]} :
                        Base'[p] = managed[p]
               PROVE  view'[u].image = Image(Requires[u], managed)
    BY <2>1 DEF ImageOf
  <2>2. \A p \in Inputs[Requires[u]] \cup {Requires[u]} : Base[p] = managed[p]
    BY <1>0, BuildPaths
  <2>3. view[u].image = Image(Requires[u], managed)
    BY <1>0, <1>2, <2>2 DEF RecordBook, ImageOf
  <2> QED
    BY <1>2, <2>3
<1> QED
  BY <1>1, <1>2

\* A new Agent that starts before the save takes no input from a build that stays.
LEMMA ContextKept ==
  ASSUME ContextsKeepFiles, TypeOK, DiskBook, pc = "save", NEW b \in Builds,
         managed[b] # Absent, disk[b] # Absent, NEW p \in Inputs[b],
         managed[p] = Absent
  PROVE  disk[p] = Absent
<1>1. want[b] # Absent
  BY Sorts DEF DiskBook, Afoot, Changes
<1>2. want[p] = Absent
  BY <1>1 DEF ContextsKeepFiles, DiskBook, TypeOK
<1> QED
  BY <1>2, BuildPaths DEF DiskBook, Afoot

\* What an Agent that starts anew finds, and takes away.
LEMMA AgentFinds ==
  ASSUME ContextsKeepFiles, TypeOK, DiskBook, outcome # "gone",
         pc \in {"save", "idle", "retry"}, NEW units, AgentRestarts(units)
  PROVE  /\ \A p \in Paths : managed[p] # Absent => disk'[p] = disk[p]
         /\ \A b \in Builds : \A p \in Inputs[b] :
              managed[b] # Absent /\ disk'[b] = managed[b] => disk'[p] = disk[p]
         /\ pc # "save" => \A p \in Paths : disk'[p] = disk[p]
<1>1. \A p \in Paths : disk'[p] = IF managed[p] = Absent THEN Absent ELSE disk[p]
  BY DEF AgentRestarts
<1>2. pc # "save" => \A p \in Paths : disk'[p] = disk[p]
  BY <1>1 DEF DiskBook
<1>3. ASSUME NEW b \in Builds, NEW p \in Inputs[b],
             managed[b] # Absent, disk'[b] = managed[b]
      PROVE  disk'[p] = disk[p]
  BY <1>1, <1>2, <1>3, BuildPaths, ContextKept
<1> QED
  BY <1>1, <1>2, <1>3

\* A unit that the Agent's own restart does not concern, or does.
LEMMA AgentMoves ==
  ASSUME TypeOK, TagBook, Known, pc \in {"save", "idle", "retry"},
         NEW units \in SUBSET Units, AgentRestarts(units), NEW u \in Units
  PROVE  \/ u \notin units /\ run'[u] = run[u] /\ view'[u] = view[u]
         \/ /\ view'[u].def = disk[u] /\ view'[u].data = [p \in Data |-> disk[p]]
            /\ view'[u].image = IF Requires[u] = NoUnit THEN NoUnit
                                ELSE tag[Requires[u]]
BY DEF AgentRestarts, Loads, Known

LEMMA RecordAgent ==
  ASSUME ContextsKeepFiles, TypeOK, DiskBook, TagBook, Known, RecordBook, TagBook',
         UNCHANGED <<managed, tag>>, \A u : Counted(u)' => Counted(u),
         outcome # "gone", pc \in {"save", "idle", "retry"}, pc' = "idle",
         NEW units \in SUBSET Units, AgentRestarts(units), selfOps \subseteq units
  PROVE  RecordBook'
<1>1. Base = disk /\ Base' = disk'
  BY DEF Base
<1>2. ASSUME NEW u \in Units, ~Resting(u)', managed[u] # Absent,
             disk'[u] = managed[u]
      PROVE  \/ /\ ~Resting(u)
                /\ view'[u].def = view[u].def /\ view'[u].image = view[u].image
             \/ view'[u].def = disk'[u] /\ ImageOf(u, disk)'
  <2>1. Tagged(disk, tag)' /\ UNCHANGED tag
    BY DEF TagBook
  <2>2. CASE u \notin units /\ run'[u] = run[u] /\ view'[u] = view[u]
    BY <1>2, <2>2 DEF Resting
  <2>3. CASE /\ view'[u].def = disk[u]
             /\ view'[u].image = IF Requires[u] = NoUnit THEN NoUnit
                                 ELSE tag[Requires[u]]
    <3>1. disk'[u] = disk[u]
      BY <1>2, AgentFinds, Sorts
    <3>2. Requires[u] \in Builds \cup {NoUnit}
      BY FleetAssumption
    <3> QED
      BY <2>1, <2>3, <3>1, <3>2 DEF ImageOf, Tagged
  <2> QED
    BY <2>2, <2>3, AgentMoves
<1>3. \A p \in Paths : managed[p] # Absent /\ disk'[p] = managed[p] => disk[p] = managed[p]
  BY AgentFinds
<1>4. \A b \in Builds : \A p \in Inputs[b] :
        managed[b] # Absent /\ disk'[b] = managed[b] /\ disk'[p] = managed[p] =>
          disk[p] = managed[p]
  BY AgentFinds
<1> QED
  BY <1>1, <1>2, <1>3, <1>4, RecordKept

LEMMA RecordSave ==
  ASSUME TypeOK, DiskBook, RecordBook, TurnBook, Save,
         \A u : Counted(u)' => Counted(u)
  PROVE  RecordBook'
<1>1. /\ pc = "save" /\ pc' = "idle" /\ managed' = want
      /\ UNCHANGED <<disk, run, view, selfOps>>
  BY DEF Save, host
<1>2. Base = disk /\ Base' = disk'
  BY <1>1 DEF Base
<1> SUFFICES ASSUME NEW u \in Units, Counted(u)', ~Resting(u)', want[u] # Absent,
                    disk[u] = want[u]
             PROVE  /\ view[u].def = want[u]
                    /\ (Requires[u] # NoUnit =>
                          \A p \in Inputs[Requires[u]] \cup {Requires[u]} :
                            disk[p] = want[p])
                         => ImageOf(u, want)
  BY <1>1, <1>2 DEF RecordBook, ImageOf
<1>3. ~Resting(u) /\ Counted(u) /\ Requires[u] \in Builds \cup {NoUnit}
  BY <1>1, FleetAssumption DEF Resting
<1>4. CASE Touched(u)
  <2>1. Fresh(u)
    BY <1>1, <1>3, <1>4 DEF TurnBook, Activating, Owed
  <2> SUFFICES ASSUME Requires[u] # NoUnit, want[Requires[u]] # Absent,
                      \A p \in Inputs[Requires[u]] \cup {Requires[u]} :
                        disk[p] = want[p]
               PROVE  view[u].image = Image(Requires[u], want)
    BY <2>1 DEF Fresh, ImageOf
  <2>2. view[u].image = Image(Requires[u], disk)
    BY <2>1 DEF Fresh, ImageOf
  <2> QED
    BY <1>3, <2>2, ImageSame
<1>5. CASE ~Touched(u)
  <2>1. managed[u] = want[u] /\ Requires[u] \notin TriggeredBuilds
    BY <1>5, Sorts DEF Touched, Written, Changes
  <2>2. view[u].def = managed[u]
    BY <1>2, <1>3, <2>1 DEF RecordBook
  <2> SUFFICES ASSUME Requires[u] # NoUnit, want[Requires[u]] # Absent,
                      \A p \in Inputs[Requires[u]] \cup {Requires[u]} :
                        disk[p] = want[p]
               PROVE  view[u].image = Image(Requires[u], want)
    BY <2>1, <2>2 DEF ImageOf
  <2>3. \A p \in Inputs[Requires[u]] \cup {Requires[u]} : managed[p] = want[p]
    BY <1>3, <2>1, BuildPaths DEF TriggeredBuilds, Changes
  <2>4. ImageOf(u, managed)
    BY <1>2, <1>3, <2>1, <2>3 DEF RecordBook
  <2>5. view[u].image = Image(Requires[u], managed)
    BY <1>3, <2>3, <2>4 DEF ImageOf
  <2> QED
    BY <1>3, <2>3, <2>5, ImageSame
<1> QED
  BY <1>4, <1>5

LEMMA RecordStep ==
  ASSUME ContextsKeepFiles, Typed, DiskBook, DiskBook', TagBook, TagBook', PlanBook,
         pc # "rollback" => Known, RecordBook, TurnBook,
         \A u : Counted(u)' => Counted(u), [Next]_vars
  PROVE  RecordBook'
<1>a. TypeOK /\ Stage
  BY DEF Typed
<1> USE <1>a DEF host, state, work
<1>0. ASSUME UNCHANGED managed, \A p \in Paths : Base'[p] = Base[p],
             \A u \in Units : Counted(u) /\ ~Resting(u)' =>
               /\ ~Resting(u)
               /\ view'[u].def = view[u].def /\ view'[u].image = view[u].image
      PROVE  RecordBook'
  BY <1>0, BuildPaths, RecordKept
<1>1. CASE UNCHANGED vars
  BY <1>0, <1>1 DEF vars, Base, Resting
<1>2. CASE \E commit \in Follows[sha] : Begin(commit)
  BY <1>0, <1>2 DEF Begin, Base, Resting
<1>3. CASE Write
  <2> PICK q \in Paths :
        IF q \in Units /\ want[q] = Absent
        THEN StopForDelete(q)
        ELSE UNCHANGED <<run, view, enabled, selfOps, faults>>
    BY <1>3 DEF Write
  <2>1. pc = "write" /\ pc' = "write" /\ UNCHANGED <<managed, was>>
    BY <1>3 DEF Write
  <2>2. \A u \in Units : run'[u] = "active" => run[u] = "active" /\ view'[u] = view[u]
    BY DEF StopForDelete, Stops
  <2> QED
    BY <1>0, <2>1, <2>2 DEF Base, Resting
<1>4. CASE RunHook
  <2> PICK h \in Hooks : RunOneHook(h)
    BY <1>4 DEF RunHook
  <2>1. pc \in {"hooks", "retry"} /\ UNCHANGED <<pc, disk, run, managed, was, selfOps>>
    BY <1>4 DEF RunHook
  <2>2. \A u \in Units : view'[u].def = view[u].def /\ view'[u].image = view[u].image
    <3>1. CASE Reloaded(h)
      BY <3>1, HooksAssumption DEF Reloaded, TypeOK, Views
    <3> QED
      BY <3>1 DEF RunOneHook, ReloadFails
  <2> QED
    BY <1>0, <2>1, <2>2 DEF Base, Resting
<1>5. CASE WriteFails \/ WritesDone \/ DaemonReload \/ DaemonReloadFails
  BY <1>0, <1>5
  DEF WriteFails, WritesDone, DaemonReload, DaemonReloadFails, Base, Resting
<1>6. CASE Build \/ BuildFails
  <2> PICK b \in todo, s \in {"inactive", "failed"} : run' = [run EXCEPT ![b] = s]
    BY <1>6 DEF Build, BuildRuns, BuildFails
  <2>1. /\ pc = "build" /\ pc' \in {"build", "rollback"}
        /\ UNCHANGED <<view, managed, was, selfOps>>
    BY <1>6 DEF Build, BuildFails
  <2>2. \A u \in Units : Counted(u) => u # b
    BY <2>1, TriggeredType DEF Stage, Builds, Daemon, Counted
  <2> QED
    BY <1>0, <2>1, <2>2 DEF Base, Resting, TypeOK, Runs
<1>7. CASE Built
  <2>1. /\ pc = "build" /\ pc' = "activate" /\ UNCHANGED <<disk, run, view, managed, was>>
    BY <1>7 DEF Built
  <2>2. \A p \in Paths : disk[p] = managed[p] => was.disk[p] = managed[p]
    BY <2>1 DEF DiskBook, Afoot, Changes
  <2> QED
    BY <2>1, <2>2, BuildPaths, RecordKept DEF Base, Resting
<1>8. CASE \/ ActivateRaw \/ Restart \/ Consume \/ (RetryRestart /\ pc' = "retry")
           \/ \E u \in Units : Dies(u) \/ JobFails(u) \/ Health(u)
  <2>1. pc # "rollback"
    BY <1>8 DEF ActivateRaw, Restart, Consume, RetryRestart, Dies, JobFails, Health
  <2>2. /\ pc \in {"activate", "restart", "consume", "retry", "idle"}
        /\ UNCHANGED <<pc, disk, managed, was>> /\ selfOps \subseteq selfOps'
        /\ \A u \in Units : Moved(u)
    BY <1>8, <2>1, UnitsMove
  <2>3. Base = disk /\ Base' = disk'
    BY <2>2 DEF Base
  <2>4. ASSUME NEW u \in Units, ~Resting(u)'
        PROVE  \/ /\ ~Resting(u)
                  /\ view'[u].def = view[u].def /\ view'[u].image = view[u].image
               \/ view'[u].def = Base'[u] /\ ImageOf(u, Base)'
    BY <2>2, <2>3, <2>4 DEF Resting, Moved, Fresh
  <2> QED
    BY <2>2, <2>3, <2>4, RecordKept
<1>9. CASE Activated \/ RestartsDone \/ Consumed \/ RetryDone
  BY <1>0, <1>9 DEF Activated, RestartsDone, Consumed, RetryDone, Base, Resting
<1>10. CASE Save
  BY <1>10, RecordSave
<1>11. CASE RetryRestart /\ ~(pc' = "retry")
  <2> PICK u \in restarts : AgentRestarts({u})
    BY <1>11 DEF RetryRestart
  <2>1. /\ pc = "retry" /\ pc' = "idle" /\ u \in Units /\ outcome # "gone"
        /\ UNCHANGED <<managed, tag>> /\ selfOps = {}
    BY <1>11 DEF RetryRestart, PlanBook, DiskBook, TypeOK
  <2> QED
    BY <2>1, RecordAgent
<1>12. CASE RollBack
  <2>1. /\ pc = "rollback" /\ pc' = "idle" /\ UNCHANGED <<run, view, managed>>
        /\ selfOps' = {} /\ \A p \in Paths : disk'[p] = was.disk[p]
    BY <1>12 DEF RollBack, DiskBook
  <2> QED
    BY <1>0, <2>1 DEF Base, Resting
<1>13. CASE SelfOp
  <2>1. /\ pc \in {"save", "idle"} /\ UNCHANGED <<managed, was>> /\ selfOps' = {}
        /\ outcome # "gone" /\ selfOps \in SUBSET Units
    BY <1>13, FleetAssumption DEF SelfOp, SelfOpsScheduled, DiskBook, TypeOK
  <2>2. CASE Fault("selfop") /\ UNCHANGED <<host, pc>>
    <3>1. \A u \in Units : Counted(u) => u \notin selfOps
      BY <2>2 DEF Counted, LosesSelfOps, Fault, TypeOK
    <3> QED
      BY <1>0, <2>1, <2>2, <3>1 DEF Base, Resting
  <2>3. CASE AgentRestarts(selfOps) /\ pc' = "idle" /\ UNCHANGED tag
    BY <2>1, <2>3, RecordAgent
  <2>4. CASE /\ \E u \in selfOps : Stops(u)
             /\ pc' = "idle" /\ outcome' = "gone" /\ UNCHANGED disk
    <3>1. \A u \in Units : run'[u] = "active" => run[u] = "active" /\ view'[u] = view[u]
      BY <2>4 DEF Stops
    <3>2. \A u \in Units : Counted(u)' => u \notin selfOps
      BY <2>4 DEF Counted, LosesSelfOps, TypeOK
    <3>3. Base = disk /\ Base' = disk
      BY <2>1, <2>4 DEF Base
    <3> QED
      BY <2>1, <3>1, <3>2, <3>3, RecordKept DEF Resting
  <2> QED
    BY <1>13, <2>2, <2>3, <2>4 DEF SelfOp
<1>14. Apply => RecordBook'
  BY <1>3, <1>4, <1>5, <1>6, <1>7, <1>8, <1>9, <1>10, <1>11, <1>12 DEF Apply
<1> QED
  BY <1>1, <1>2, <1>8, <1>13, <1>14 DEF Next

LEMMA HookedType == \A u : Hooked(u) \subseteq Data
BY HooksAssumption DEF Hooked

LEMMA DataKept ==
  ASSUME DataBook, UNCHANGED <<managed, pendHooks>>, \A u : Counted(u)' => Counted(u),
         \A p \in Paths :
           managed[p] # Absent /\ DataBase'[p] = managed[p] => DataBase[p] = managed[p],
         \A u \in Units : Counted(u)' /\ ~Resting(u)' =>
           \A p \in Data : managed[p] # Absent /\ DataBase'[p] = managed[p] =>
             \/ ~Resting(u) /\ view'[u].data[p] = view[u].data[p]
             \/ view'[u].data[p] = DataBase'[p]
  PROVE  DataBook'
<1> SUFFICES ASSUME NEW u \in Units, Counted(u)', ~Resting(u)', managed[u] # Absent,
                    DataBase'[u] = managed[u],
                    NEW p \in Hooked(u), managed[p] # Absent, DataBase'[p] = managed[p]
             PROVE  view'[u].data[p] = managed[p] \/ Covers(pendHooks, u, p)
  BY DEF DataBook, Covers
<1>1. p \in Data /\ Counted(u) /\ DataBase[u] = managed[u] /\ DataBase[p] = managed[p]
  BY HookedType, Sorts
<1>2. CASE ~Resting(u) /\ view'[u].data[p] = view[u].data[p]
  BY <1>1, <1>2 DEF DataBook
<1>3. CASE view'[u].data[p] = DataBase'[p]
  BY <1>3
<1> QED
  BY <1>1, <1>2, <1>3

LEMMA DataAgent ==
  ASSUME ContextsKeepFiles, TypeOK, DiskBook, TagBook, Known, DataBook,
         UNCHANGED <<managed, pendHooks>>, \A u : Counted(u)' => Counted(u),
         outcome # "gone", pc \in {"save", "idle", "retry"}, pc' = "idle",
         NEW units \in SUBSET Units, AgentRestarts(units), selfOps \subseteq units
  PROVE  DataBook'
<1>1. DataBase = disk /\ DataBase' = disk'
  BY DEF DataBase
<1>2. \A p \in Paths : managed[p] # Absent => disk'[p] = disk[p]
  BY AgentFinds
<1>3. ASSUME NEW u \in Units, ~Resting(u)', NEW p \in Data, managed[p] # Absent
      PROVE  \/ ~Resting(u) /\ view'[u].data[p] = view[u].data[p]
             \/ view'[u].data[p] = disk'[p]
  <2>1. disk'[p] = disk[p]
    BY <1>2, <1>3, Sorts
  <2>2. CASE u \notin units /\ run'[u] = run[u] /\ view'[u] = view[u]
    BY <1>3, <2>2 DEF Resting
  <2>3. CASE view'[u].data = [q \in Data |-> disk[q]]
    BY <2>1, <2>3
  <2> QED
    BY <2>2, <2>3, AgentMoves
<1> QED
  BY <1>1, <1>2, <1>3, DataKept

LEMMA DataSave ==
  ASSUME TypeOK, PlanBook, DataBook, TurnBook, HookedBook, Save,
         \A u : Counted(u)' => Counted(u)
  PROVE  DataBook'
<1>1. /\ pc = "save" /\ pc' = "idle" /\ managed' = want /\ pendHooks' = failed
      /\ UNCHANGED <<disk, run, view, selfOps>> /\ queue = {}
  BY DEF Save, host, PlanBook
<1> SUFFICES ASSUME NEW u \in Units, Counted(u), ~Resting(u), want[u] # Absent,
                    disk[u] = want[u],
                    NEW p \in Hooked(u), want[p] # Absent, disk[p] = want[p]
             PROVE  view[u].data[p] = want[p] \/ Covers(failed, u, p)
  BY <1>1 DEF DataBook, DataBase, Resting, Covers
<1>2. CASE Touched(u)
  <2>1. Fresh(u)
    BY <1>1, <1>2 DEF TurnBook, Activating, Owed
  <2> QED
    BY <2>1, HookedType DEF Fresh
<1>3. CASE ~Touched(u)
  BY <1>1, <1>3 DEF HookedBook, Afoot
<1> QED
  BY <1>2, <1>3

LEMMA DataStep ==
  ASSUME ContextsKeepFiles, Typed, DiskBook, DiskBook', TagBook, PlanBook,
         pc # "rollback" => Known, DataBook, TurnBook, HookedBook,
         ~FailsAfterHooks(sha), \A u : Counted(u)' => Counted(u), [Next]_vars
  PROVE  DataBook'
<1>a. TypeOK /\ Stage
  BY DEF Typed
<1> USE <1>a DEF host, state, work
<1>0. ASSUME UNCHANGED <<managed, pendHooks>>,
             \A p \in Paths : DataBase'[p] = DataBase[p],
             \A u \in Units : Counted(u) /\ ~Resting(u)' =>
               ~Resting(u) /\ view'[u].data = view[u].data
      PROVE  DataBook'
  BY <1>0, DataKept
<1>1. CASE UNCHANGED vars
  BY <1>0, <1>1 DEF vars, DataBase, Resting
<1>2. CASE \E commit \in Follows[sha] : Begin(commit)
  BY <1>0, <1>2 DEF Begin, DataBase, Resting
<1>3. CASE Write
  <2> PICK q \in Paths :
        IF q \in Units /\ want[q] = Absent
        THEN StopForDelete(q)
        ELSE UNCHANGED <<run, view, enabled, selfOps, faults>>
    BY <1>3 DEF Write
  <2>1. pc = "write" /\ pc' = "write" /\ UNCHANGED <<managed, pendHooks, was>>
    BY <1>3 DEF Write
  <2>2. \A u \in Units : run'[u] = "active" => run[u] = "active" /\ view'[u] = view[u]
    BY DEF StopForDelete, Stops
  <2> QED
    BY <1>0, <2>1, <2>2 DEF DataBase, Resting
<1>4. CASE RunHook
  <2> PICK h \in Hooks : RunOneHook(h)
    BY <1>4 DEF RunHook
  <2>1. /\ pc \in {"hooks", "retry"}
        /\ UNCHANGED <<pc, disk, run, managed, pendHooks, selfOps>>
    BY <1>4 DEF RunHook
  <2>2. \A u \in Units : \A p \in Data :
          view'[u].data[p] = view[u].data[p] \/ view'[u].data[p] = disk[p]
    <3>1. CASE Reloaded(h)
      BY <3>1, HooksAssumption DEF Reloaded, TypeOK, Views
    <3> QED
      BY <3>1 DEF RunOneHook, ReloadFails
  <2> QED
    BY <2>1, <2>2, DataKept DEF DataBase, Resting
<1>5. CASE WriteFails
  BY <1>0, <1>5 DEF WriteFails, DataBase, Resting
<1>6. CASE WritesDone
  <2>1. /\ pc = "write" /\ pc' = "hooks"
        /\ UNCHANGED <<disk, run, view, managed, pendHooks, was>>
    BY <1>6 DEF WritesDone
  <2>2. \A p \in Paths : disk[p] = managed[p] => was.disk[p] = managed[p]
    BY <2>1 DEF DiskBook, Changes
  <2> QED
    BY <2>1, <2>2, DataKept DEF DataBase, Resting
<1>7. CASE DaemonReload \/ Built \/ Activated \/ RestartsDone \/ Consumed
  BY <1>0, <1>7
  DEF DaemonReload, Built, Activated, RestartsDone, Consumed, DataBase, Resting
<1>8. CASE DaemonReloadFails \/ BuildFails
  BY <1>8 DEF DaemonReloadFails, BuildFails, FailsAfterHooks, Fault
<1>9. CASE Build
  <2> PICK b \in todo, s \in {"inactive", "failed"} : run' = [run EXCEPT ![b] = s]
    BY <1>9 DEF Build, BuildRuns
  <2>1. /\ pc = "build" /\ pc' = "build"
        /\ UNCHANGED <<disk, view, managed, pendHooks, was, selfOps>>
    BY <1>9 DEF Build
  <2>2. \A u \in Units : Counted(u) => u # b
    BY <2>1, TriggeredType DEF Stage, Builds, Daemon, Counted
  <2> QED
    BY <1>0, <2>1, <2>2 DEF DataBase, Resting, TypeOK, Runs
<1>10. CASE \/ ActivateRaw \/ Restart \/ Consume \/ (RetryRestart /\ pc' = "retry")
            \/ \E u \in Units : Dies(u) \/ JobFails(u) \/ Health(u)
  <2>1. pc # "rollback"
    BY <1>10 DEF ActivateRaw, Restart, Consume, RetryRestart, Dies, JobFails, Health
  <2>2. /\ pc \in {"activate", "restart", "consume", "retry", "idle"}
        /\ UNCHANGED <<pc, disk, managed, pendHooks>> /\ selfOps \subseteq selfOps'
        /\ \A u \in Units : Moved(u)
    BY <1>10, <2>1, UnitsMove
  <2>3. DataBase = disk /\ DataBase' = disk
    BY <2>2 DEF DataBase
  <2>4. ASSUME NEW u \in Units, ~Resting(u)', NEW p \in Data
        PROVE  \/ ~Resting(u) /\ view'[u].data[p] = view[u].data[p]
               \/ view'[u].data[p] = disk[p]
    BY <2>2, <2>4 DEF Resting, Moved, Fresh
  <2> QED
    BY <2>2, <2>3, <2>4, DataKept
<1>11. CASE Save
  BY <1>11, DataSave
<1>12. CASE RetryRestart /\ ~(pc' = "retry")
  <2> PICK u \in restarts : AgentRestarts({u})
    BY <1>12 DEF RetryRestart
  <2>1. /\ pc = "retry" /\ pc' = "idle" /\ u \in Units /\ outcome # "gone"
        /\ UNCHANGED <<managed, pendHooks>> /\ selfOps = {}
    BY <1>12 DEF RetryRestart, PlanBook, DiskBook, TypeOK
  <2> QED
    BY <2>1, DataAgent
<1>13. CASE RetryDone
  <2>1. /\ pc = "retry" /\ pc' = "idle" /\ queue = {} /\ restarts = {} /\ selfOps = {}
        /\ want = managed /\ pendHooks' = failed
        /\ UNCHANGED <<disk, run, view, managed>>
    BY <1>13 DEF RetryDone, PlanBook
  <2>2. \A u : ~Touched(u)
    BY <2>1, FleetAssumption, Sorts DEF Touched, Written, Changes, TriggeredBuilds
  <2>3. \A u \in Units : Resting(u)' = Resting(u)
    BY <2>1, <1>13 DEF RetryDone, Resting
  <2> QED
    BY <2>1, <2>2, <2>3 DEF DataBook, DataBase, HookedBook, Covers
<1>14. CASE RollBack
  <2>1. /\ pc = "rollback" /\ pc' = "idle" /\ UNCHANGED <<run, view, managed, pendHooks>>
        /\ selfOps' = {} /\ \A p \in Paths : disk'[p] = was.disk[p]
    BY <1>14 DEF RollBack, DiskBook
  <2> QED
    BY <1>0, <2>1 DEF DataBase, Resting
<1>15. CASE SelfOp
  <2>1. /\ pc \in {"save", "idle"} /\ UNCHANGED <<managed, pendHooks, was>>
        /\ selfOps' = {} /\ outcome # "gone" /\ selfOps \in SUBSET Units
    BY <1>15, FleetAssumption DEF SelfOp, SelfOpsScheduled, DiskBook, TypeOK
  <2>2. CASE Fault("selfop") /\ UNCHANGED <<host, pc>>
    <3>1. \A u \in Units : Counted(u) => u \notin selfOps
      BY <2>2 DEF Counted, LosesSelfOps, Fault, TypeOK
    <3> QED
      BY <1>0, <2>1, <2>2, <3>1 DEF DataBase, Resting
  <2>3. CASE AgentRestarts(selfOps) /\ pc' = "idle"
    BY <2>1, <2>3, DataAgent
  <2>4. CASE /\ \E u \in selfOps : Stops(u)
             /\ pc' = "idle" /\ outcome' = "gone" /\ UNCHANGED disk
    <3>1. \A u \in Units : run'[u] = "active" => run[u] = "active" /\ view'[u] = view[u]
      BY <2>4 DEF Stops
    <3>2. \A u \in Units : Counted(u)' => u \notin selfOps
      BY <2>4 DEF Counted, LosesSelfOps, TypeOK
    <3>3. DataBase = disk /\ DataBase' = disk
      BY <2>1, <2>4 DEF DataBase
    <3> QED
      BY <2>1, <3>1, <3>2, <3>3, DataKept DEF Resting
  <2> QED
    BY <1>15, <2>2, <2>3, <2>4 DEF SelfOp
<1>16. Apply => DataBook'
  BY <1>3, <1>4, <1>5, <1>6, <1>7, <1>8, <1>9, <1>10, <1>11, <1>12, <1>13, <1>14
  DEF Apply
<1> QED
  BY <1>1, <1>2, <1>10, <1>15, <1>16 DEF Next

\* Every unit that is to be (re)started is owed its turn when the builds are done.
LEMMA AllTouchedOwed ==
  ASSUME TypeOK, HookBook, Built, NEW u \in Units, Daemon(u), Touched(u)'
  PROVE  Owed(u)'
<1>1. /\ pc = "build" /\ pc' = "activate" /\ todo' = Raw \cap Written
      /\ restarts' = Restarting /\ UNCHANGED <<want, managed>>
  BY DEF Built, host, state
<1>2. ChangedUnits \subseteq restarts
  BY <1>1 DEF HookBook, Afoot
<1>3. CASE u \in Written
  BY <1>3, AllOwed
<1>4. CASE u \in restarts'
  BY <1>1, <1>4 DEF Owed
<1>5. CASE Requires[u] \in TriggeredBuilds
  <2>1. CASE u \in PodStarted
    <3>1. Member[u] \in ChangedUnits /\ Member[u] # NoUnit
      BY <2>1, TriggeredType, Sorts DEF PodStarted
    <3>2. Member[u] \notin TriggeredBuilds /\ Member[u] \notin BuildConsumers
          /\ Member[Member[u]] \notin ChangedUnits
      BY <3>1, Pods, TriggeredType, Sorts DEF BuildConsumers
    <3> QED
      BY <1>1, <1>2, <3>1, <3>2, Frame DEF Restarting, Owed
  <2>2. CASE u \notin PodStarted
    <3>1. u \in BuildConsumers
      BY <1>1, <1>5, <2>2 DEF BuildConsumers, Touched
    <3> QED
      BY <1>1, <3>1, Frame DEF Owed
  <2> QED
    BY <2>1, <2>2
<1> QED
  BY <1>1, <1>3, <1>4, <1>5, Frame DEF Touched

LEMMA TouchedFrame ==
  ASSUME UNCHANGED <<want, managed, restarts>>
  PROVE  \A u : Touched(u)' = Touched(u)
BY Frame DEF Touched

\* One unit is handled; what was owed to it is paid.
LEMMA TurnsPaid ==
  ASSUME TypeOK, DiskBook, TurnBook, Activating, Tagged(disk, tag),
         \A m \in Units : defs[m] = disk[m], "refused" \notin Faults[sha],
         \A u : Counted(u)' => Counted(u), \A m \in Units : Moved(m),
         UNCHANGED <<disk, managed, want, pc, restarts>>, selfOps \subseteq selfOps',
         NEW v \in Units, todo' = todo \ {v},
         \/ ~Daemon(v)
         \/ v \in selfOps' /\ pc \in {"restart", "consume"}
         \/ RestartsUnit(v) \/ RestartFails(v) \/ Started(v)
         \/ RestartsIgnoringDependencies(v),
         ASSUME NEW u \in Units, Daemon(u), Owed(u), ~Owed(u)', u # v
         PROVE  v \in Written /\ Member[u] = v /\ (RestartsUnit(v) \/ RestartFails(v))
  PROVE  TurnBook'
<1> SUFFICES ASSUME NEW u \in Units, Counted(u), ~Resting(u)', Touched(u),
                    disk[u] = want[u], ~Owed(u)', ~Fresh(u)'
             PROVE  FALSE
  BY TouchedFrame DEF TurnBook
<1>1. /\ run'[u] = run[u] /\ view'[u] = view[u] /\ run'[u] = "active"
      /\ want[u] # Absent /\ Daemon(u)
  BY DEF Moved, Resting, Touched, Counted
<1>2. ~Resting(u) /\ ~Fresh(u)
  BY <1>1 DEF Resting, Fresh, ImageOf
<1>3. Owed(u)
  BY <1>2 DEF TurnBook
<1>4. CASE u = v
  <2>1. ~(v \in selfOps' /\ pc \in {"restart", "consume"})
    BY <1>4 DEF Resting
  <2>2. u \in Starts(u)
    BY DEF Starts
  <2> QED
    BY <1>1, <1>4, <2>1, <2>2, StartPays, StartPaysAlone
<1>5. CASE u # v
  <2>1. v \in Written /\ Member[u] = v /\ (RestartsUnit(v) \/ RestartFails(v))
    BY <1>1, <1>3, <1>5
  <2>2. disk[v] # Absent
    BY <2>1 DEF DiskBook, Activating, Afoot, Written, Changes
  <2>3. u \in Starts(v)
    BY <1>1, <2>1 DEF Starts, Present
  <2> QED
    BY <1>1, <2>1, <2>2, <2>3, StartPays
<1> QED
  BY <1>4, <1>5

LEMMA TurnStep ==
  ASSUME Typed, DiskBook, TagBook, Booked, pc # "rollback" => Known, TurnBook,
         "refused" \notin Faults[sha], "consumer" \notin Faults[sha],
         \A u : Counted(u)' => Counted(u), [Next]_vars
  PROVE  TurnBook'
<1>a. TypeOK /\ Stage /\ HookBook
  BY DEF Typed, Booked
<1> USE <1>a DEF host, state, work
<1>0. ASSUME Activating
      PROVE  (\A m \in Units : defs[m] = disk[m]) /\ Tagged(disk, tag) /\ Known
  BY <1>0 DEF Known, TagBook, Activating
<1>1. ASSUME UNCHANGED <<disk, run, view, managed, want, restarts>>, Activating,
             \A u \in Units : Counted(u)' /\ ~Resting(u)' => ~Resting(u),
             \A u \in Units : Owed(u) => Owed(u)'
      PROVE  TurnBook'
  BY <1>1, TouchedFrame DEF TurnBook, Fresh, ImageOf
<1>2. CASE UNCHANGED vars
  BY <1>2, Frame, TouchedFrame
  DEF vars, TurnBook, Activating, Resting, Owed, Fresh, ImageOf
<1>3. CASE Built
  BY <1>3, AllTouchedOwed DEF TurnBook, Counted
<1>4. CASE ActivateRaw
  <2> PICK v \in todo : todo' = todo \ {v} /\ ActivateUnit(v)
    BY <1>4 DEF ActivateRaw
  <2>1. /\ UNCHANGED <<disk, managed, want, pc, restarts, selfOps>> /\ pc = "activate"
        /\ v \in Units /\ v \in Raw
    BY <1>4, Sorts DEF ActivateRaw, Stage, Raw
  <2>2. ~Daemon(v) \/ RestartsUnit(v) \/ RestartFails(v) \/ Started(v)
    BY <2>1 DEF ActivateUnit, Activates, Daemon, Raw
  <2>3. ASSUME NEW u \in Units, Owed(u), u # v
        PROVE  Owed(u)'
    BY <2>1, <2>3, Frame DEF Owed
  <2>4. \A m \in Units : Moved(m)
    BY <1>0, <1>4, <2>1, UnitsMove DEF Activating
  <2> QED
    BY <1>0, <2>1, <2>2, <2>3, <2>4, TurnsPaid DEF Activating
<1>5. CASE Activated \/ RestartsDone \/ Consumed
  <2>1. /\ UNCHANGED <<disk, run, view, managed, want, restarts, selfOps>> /\ todo = {}
        /\ \/ pc = "activate" /\ pc' = "restart" /\ todo' = restarts
           \/ pc = "restart" /\ pc' = "consume" /\ todo' = BuildConsumers
           \/ pc = "consume" /\ pc' = "save"
    BY <1>5 DEF Activated, RestartsDone, Consumed
  <2>2. \A u : Owed(u) => Owed(u)'
    BY <2>1, Frame DEF Owed
  <2> QED
    BY <1>1, <2>1, <2>2 DEF Activating, Resting
<1>6. CASE Restart
  <2> PICK v \in todo : todo' = todo \ {v} /\ RestartChangedUnit(v)
    BY <1>6 DEF Restart
  <2>1. /\ UNCHANGED <<disk, managed, want, pc, restarts>> /\ pc = "restart"
        /\ v \in Units
    BY <1>6 DEF Restart, Stage, TypeOK
  <2>2. \/ ~Daemon(v) \/ (v \in Self /\ v \in selfOps')
        \/ v \notin Self /\ (RestartsUnit(v) \/ RestartFails(v))
    BY DEF RestartChangedUnit, Defer, Deferred, LeftToTimer, StatusUnknown, Oneshot,
           Daemon, RestartUnit
  <2>3. ASSUME NEW u \in Units, Daemon(u), Owed(u), ~Owed(u)', u # v
        PROVE  v \in Written /\ Member[u] = v /\ (RestartsUnit(v) \/ RestartFails(v))
    <3>1. Member[u] = v /\ v \in ChangedUnits
      BY <2>1, <2>3, Frame DEF Owed
    <3>2. v \in Written /\ Kind[v] = "pod" /\ v \notin Self
      BY <2>1, <3>1, Pods, Sorts DEF ChangedUnits
    <3> QED
      BY <2>2, <3>1, <3>2 DEF Daemon
  <2>4. (\A m \in Units : Moved(m)) /\ selfOps \subseteq selfOps'
    BY <1>0, <1>6, <2>1, UnitsMove DEF Activating
  <2> QED
    BY <1>0, <2>1, <2>2, <2>3, <2>4, TurnsPaid DEF Activating
<1>7. CASE Consume
  <2> PICK v \in todo : todo' = todo \ {v} /\ RestartConsumer(v)
    BY <1>7 DEF Consume
  <2>1. /\ UNCHANGED <<disk, managed, want, pc, restarts>> /\ pc = "consume"
        /\ v \in Units
    BY <1>7, TriggeredType DEF Consume, Stage
  <2>2. \/ ~Daemon(v) \/ v \in selfOps'
        \/ RestartsUnit(v) \/ RestartFails(v) \/ RestartsIgnoringDependencies(v)
    BY DEF RestartConsumer, Defer, Deferred, ExternallyActivated, Fault, Daemon,
           RestartUnit
  <2>3. ASSUME NEW u \in Units, Owed(u), u # v
        PROVE  Owed(u)'
    BY <2>1, <2>3 DEF Owed
  <2>4. (\A m \in Units : Moved(m)) /\ selfOps \subseteq selfOps'
    BY <1>0, <1>7, <2>1, UnitsMove DEF Activating
  <2> QED
    BY <1>0, <2>1, <2>2, <2>3, <2>4, TurnsPaid DEF Activating
<1>8. CASE SelfOp
  <2>1. CASE Fault("selfop") /\ UNCHANGED <<host, pc, todo>>
    <3>1. UNCHANGED <<managed, want, restarts>> /\ pc \in {"save", "idle"}
      BY <1>8 DEF SelfOp, SelfOpsScheduled
    <3>2. \A u \in Units : Counted(u) => u \notin selfOps
      BY <2>1 DEF Counted, LosesSelfOps, Fault, TypeOK
    <3>3. \A u \in Units : Counted(u)' /\ ~Resting(u)' => ~Resting(u)
      BY <2>1, <3>1, <3>2 DEF Resting
    <3>4. \A u \in Units : Owed(u) => Owed(u)'
      BY <3>1 DEF Owed
    <3> QED
      BY <1>1, <2>1, <3>1, <3>3, <3>4 DEF TurnBook, Activating
  <2>2. CASE pc' = "idle"
    BY <2>2 DEF TurnBook, Activating
  <2> QED
    BY <1>8, <2>1, <2>2 DEF SelfOp
<1>9. CASE \/ Write \/ WriteFails \/ WritesDone \/ RunHook \/ DaemonReload
           \/ DaemonReloadFails \/ Build \/ BuildFails \/ Save \/ RetryRestart
           \/ RetryDone \/ RollBack \/ \E u \in Units : Dies(u) \/ JobFails(u) \/ Health(u)
  BY <1>9
  DEF Write, WriteFails, WritesDone, RunHook, DaemonReload, DaemonReloadFails, Build,
      BuildFails, Save, RetryRestart, RetryDone, RollBack, Dies, JobFails, Health, TurnBook,
      Activating
<1>10. CASE \E commit \in Follows[sha] : Begin(commit)
  BY <1>10 DEF Begin, TurnBook, Activating
<1> QED
  BY <1>2, <1>3, <1>4, <1>5, <1>6, <1>7, <1>8, <1>9, <1>10 DEF Next, Apply

LEMMA HookedKept ==
  ASSUME HookedBook, Afoot \/ pc = "retry", UNCHANGED <<disk, managed, want>>,
         \A u : Counted(u)' => Counted(u),
         \A u \in Units : Counted(u) /\ ~Resting(u)' /\ ~Touched(u)' /\ want[u] # Absent =>
           \A p \in Data :
             \/ /\ ~Resting(u) /\ ~Touched(u) /\ view'[u].data[p] = view[u].data[p]
                /\ Covers(queue \cup failed, u, p) => Covers(queue' \cup failed', u, p)
             \/ view'[u].data[p] = disk[p]
  PROVE  HookedBook'
<1> SUFFICES ASSUME NEW u \in Units, Counted(u), ~Resting(u)', ~Touched(u)',
                    want[u] # Absent, disk[u] = want[u],
                    NEW p \in Hooked(u), want[p] # Absent, disk[p] = want[p]
             PROVE  view'[u].data[p] = disk[p] \/ Covers(queue' \cup failed', u, p)
  BY DEF HookedBook, Covers
<1>1. p \in Data
  BY HookedType
<1>2. CASE /\ ~Resting(u) /\ ~Touched(u) /\ view'[u].data[p] = view[u].data[p]
           /\ Covers(queue \cup failed, u, p) => Covers(queue' \cup failed', u, p)
  BY <1>2 DEF HookedBook
<1> QED
  BY <1>1, <1>2

\* Each hook that an apply runs is delivered, kept for later, or stood in for.
LEMMA HookDelivers ==
  ASSUME TypeOK, HookedBook, ExecutedBook, RunHook, NEW u \in Units, Counted(u),
         ~Resting(u)', ~Touched(u)', want[u] # Absent, disk[u] = want[u],
         NEW p \in Hooked(u), want[p] # Absent, disk[p] = want[p]
  PROVE  view'[u].data[p] = disk[p] \/ Covers(queue' \cup failed', u, p)
<1> PICK h \in Hooks : h \in queue /\ queue' = queue \ {h} /\ RunOneHook(h)
  BY DEF RunHook, NextHook
<1>1. /\ pc \in {"hooks", "retry"}
      /\ UNCHANGED <<pc, disk, run, want, managed, selfOps>>
  BY DEF RunHook, state
<1>2. restarts \subseteq restarts' /\ failed \subseteq failed'
  BY DEF RunOneHook
<1>3. ~Touched(u) /\ ~Resting(u) /\ run[u] = "active" /\ p \in Data
  BY <1>1, <1>2, Frame, HookedType DEF Touched, Resting
<1>4. CASE view[u].data[p] = disk[p]
  <2>1. CASE Reloaded(h)
    BY <1>3, <1>4, <2>1, HooksAssumption DEF Reloaded, TypeOK, Views
  <2> QED
    BY <1>4, <2>1 DEF RunOneHook, ReloadFails
<1>5. CASE Covers((queue \cup failed) \ {h}, u, p)
  BY <1>2, <1>5 DEF Covers
<1>6. ASSUME HookUnit[h] = u, p \in Delivers(h)
      PROVE  view'[u].data[p] = disk[p] \/ Covers(queue' \cup failed', u, p)
  <2>1. u \notin restarts'
    BY <1>1 DEF Touched
  <2>2. CASE Reloaded(h)
    BY <1>3, <1>6, <2>2, HooksAssumption DEF Reloaded, TypeOK, Views
  <2>3. CASE Effect[h] \in executed
    <3>1. \/ view[u].data[p] = disk[p]
          \/ \E g \in failed : Effect[g] = Effect[h]
      BY <1>1, <1>2, <1>3, <1>6, <2>1, <2>3 DEF ExecutedBook
    <3>2. ASSUME NEW g \in failed, Effect[g] = Effect[h]
          PROVE  Covers(queue' \cup failed', u, p)
      <4>1. g \in Hooks /\ HookUnit[g] = u /\ p \in Delivers(g)
        BY <1>6, <3>2, HooksAssumption DEF Delivers, TypeOK
      <4> QED
        BY <1>2, <3>2, <4>1 DEF Covers
    <3> QED
      BY <1>4, <3>1, <3>2
  <2>4. CASE h \in failed'
    BY <1>6, <2>4 DEF Covers
  <2> QED
    BY <1>2, <1>6, <2>1, <2>2, <2>3, <2>4 DEF RunOneHook, Skipped, ReloadFails
<1> QED
  BY <1>1, <1>3, <1>4, <1>5, <1>6 DEF HookedBook, Afoot, Covers

LEMMA RestartingTouches ==
  ASSUME Built, NEW u \in Units, Daemon(u), Touched(u)
  PROVE  Touched(u)'
<1>1. restarts' = Restarting /\ UNCHANGED <<want, managed>>
  BY DEF Built, host, state
<1>2. u \notin TriggeredBuilds
  BY TriggeredType DEF Daemon, Builds
<1>3. u \in restarts => u \in restarts' \cup Written \/ Requires[u] \in TriggeredBuilds
  BY <1>1, <1>2 DEF Restarting, ChangedUnits, BuildConsumers
<1> QED
  BY <1>1, <1>3, Frame DEF Touched

\* A step that begins an apply, or ends its writes.
LEMMA HookedBegin ==
  ASSUME TypeOK, PlanBook, DiskBook, DataBook, NEW commit \in Follows[sha], Begin(commit),
         PlanBook', \A u : Counted(u)' => Counted(u)
  PROVE  HookedBook'
<1> USE DEF host, state
<1>1. CASE pc' = "write"
  BY <1>1 DEF HookedBook, Afoot
<1>2. CASE pc' = "retry"
  <2>1. /\ pc = "idle" /\ selfOps = {} /\ UNCHANGED <<disk, run, view, managed, selfOps>>
        /\ queue' = pendHooks /\ want' = managed
    BY <1>2 DEF Begin, PlanBook
  <2> SUFFICES ASSUME NEW u \in Units, Counted(u), ~Resting(u)', managed[u] # Absent,
                      disk[u] = managed[u], NEW p \in Hooked(u),
                      managed[p] # Absent, disk[p] = managed[p]
               PROVE  view[u].data[p] = disk[p] \/ Covers(pendHooks, u, p)
    BY <2>1 DEF HookedBook, Covers
  <2> QED
    BY <2>1 DEF DataBook, DataBase, Resting
<1> QED
  BY <1>1, <1>2 DEF Begin

LEMMA HookedWrites ==
  ASSUME TypeOK, PlanBook, DiskBook, DiskBook', DataBook, WritesDone,
         \A u : Counted(u)' => Counted(u)
  PROVE  HookedBook'
<1>1. /\ pc = "write" /\ pc' = "hooks" /\ todo = {}
      /\ queue' = pendHooks \cup {h \in Hooks : Matches(h)}
      /\ UNCHANGED <<disk, run, view, was, want, managed>>
  BY DEF WritesDone, host, state
<1> SUFFICES ASSUME NEW u \in Units, Counted(u), ~Resting(u)', ~Touched(u)',
                    want[u] # Absent, disk[u] = want[u],
                    NEW p \in Hooked(u), want[p] # Absent, disk[p] = want[p]
             PROVE  view[u].data[p] = disk[p] \/ Covers(queue', u, p)
  BY <1>1 DEF HookedBook, Covers
<1>2. p \in Paths /\ u \in Paths
  BY HookedType, Sorts
<1>3. CASE p \in Changes
  <2> PICK h \in Hooks : HookUnit[h] = u /\ p \in Triggers[h]
    BY DEF Hooked
  <2>1. Matches(h)
    BY <1>3 DEF Matches, Written
  <2>2. p \in Delivers(h)
    BY DEF Delivers
  <2> QED
    BY <1>1, <2>1, <2>2 DEF Covers
<1>4. CASE p \notin Changes
  <2>1. u \notin Changes
    BY <1>1, Frame DEF Touched, Written
  <2>2. /\ managed[p] = want[p] /\ was.disk[p] = managed[p]
        /\ managed[u] = want[u] /\ was.disk[u] = managed[u]
    BY <1>1, <1>2, <1>4, <2>1 DEF DiskBook, Changes
  <2>3. ~Resting(u)
    BY <1>1 DEF Resting
  <2>4. view[u].data[p] = managed[p] \/ Covers(pendHooks, u, p)
    BY <1>1, <2>2, <2>3 DEF DataBook, DataBase
  <2> QED
    BY <1>1, <2>2, <2>4 DEF Covers
<1> QED
  BY <1>3, <1>4

LEMMA HookedStep ==
  ASSUME Typed, DiskBook, DiskBook', TagBook, PlanBook, PlanBook',
         pc # "rollback" => Known, DataBook, HookedBook, ExecutedBook,
         "refused" \notin Faults[sha], \A u : Counted(u)' => Counted(u), [Next]_vars
  PROVE  HookedBook'
<1>a. TypeOK /\ Stage
  BY DEF Typed
<1> USE <1>a DEF host, state, work
<1>0. ASSUME Afoot \/ pc = "retry", UNCHANGED <<disk, managed, want, queue, failed>>,
             \A u \in Units : Counted(u) /\ ~Resting(u)' =>
               ~Resting(u) /\ view'[u].data = view[u].data /\ (Touched(u) => Touched(u)')
      PROVE  HookedBook'
  <2>1. \A u, p : Covers(queue \cup failed, u, p) => Covers(queue' \cup failed', u, p)
    BY <1>0
  <2> QED
    BY <1>0, <2>1, HookedKept
<1>1. CASE UNCHANGED vars
  <2>1. CASE Afoot \/ pc = "retry"
    BY <1>0, <1>1, <2>1, TouchedFrame DEF vars, Resting
  <2> QED
    BY <1>1, <2>1 DEF vars, HookedBook, Afoot
<1>2. CASE \E commit \in Follows[sha] : Begin(commit)
  BY <1>2, HookedBegin
<1>3. CASE WritesDone
  BY <1>3, HookedWrites
<1>4. CASE RunHook
  <2>1. UNCHANGED <<disk, want>>
    BY <1>4 DEF RunHook
  <2> QED
    BY <1>4, <2>1, HookDelivers DEF HookedBook, Covers
<1>5. CASE DaemonReload \/ Activated \/ RestartsDone \/ Consumed
  <2>1. /\ Afoot /\ pc' # "idle"
        /\ UNCHANGED <<disk, run, view, managed, want, restarts, queue, failed, selfOps>>
        /\ pc \in {"restart", "consume", "save", "idle"} => pc' \in {"consume", "save"}
    BY <1>5 DEF DaemonReload, Activated, RestartsDone, Consumed, Afoot
  <2> QED
    BY <1>0, <2>1, TouchedFrame DEF Resting
<1>6. CASE Build
  <2> PICK b \in todo, s \in {"inactive", "failed"} : run' = [run EXCEPT ![b] = s]
    BY <1>6 DEF Build, BuildRuns
  <2>1. /\ pc = "build" /\ pc' = "build"
        /\ UNCHANGED <<disk, view, managed, want, restarts, queue, failed, selfOps>>
    BY <1>6 DEF Build
  <2>2. \A u \in Units : Counted(u) => u # b
    BY <2>1, TriggeredType DEF Stage, Builds, Daemon, Counted
  <2> QED
    BY <1>0, <2>1, <2>2, TouchedFrame DEF Resting, TypeOK, Runs, Afoot
<1>7. CASE Built
  <2>1. /\ pc = "build" /\ pc' = "activate"
        /\ UNCHANGED <<disk, run, view, managed, want, queue, failed, selfOps>>
    BY <1>7 DEF Built
  <2> QED
    BY <1>0, <1>7, <2>1, RestartingTouches DEF Resting, Afoot, Counted
<1>8. CASE ActivateRaw \/ Restart \/ Consume
  <2>1. /\ pc \in {"activate", "restart", "consume"}
        /\ UNCHANGED <<pc, disk, managed, want, queue, failed>>
        /\ selfOps \subseteq selfOps' /\ \A u \in Units : Moved(u)
    <3>1. pc # "rollback" /\ pc \in {"activate", "restart", "consume"}
      BY <1>8 DEF ActivateRaw, Restart, Consume
    <3> QED
      BY <1>8, <3>1, UnitsMove
  <2>2. UNCHANGED restarts
    BY <1>8 DEF ActivateRaw, Restart, Consume
  <2>3. \A u, p : Covers(queue \cup failed, u, p) => Covers(queue' \cup failed', u, p)
    BY <2>1
  <2>4. ASSUME NEW u \in Units, ~Resting(u)', NEW p \in Data
        PROVE  \/ ~Resting(u) /\ view'[u].data[p] = view[u].data[p]
               \/ view'[u].data[p] = disk[p]
    BY <2>1, <2>4 DEF Resting, Moved, Fresh
  <2> QED
    BY <2>1, <2>2, <2>3, <2>4, TouchedFrame, HookedKept DEF Afoot
<1>9. CASE RetryRestart /\ pc' = "retry"
  <2> PICK v \in restarts : restarts' = restarts \ {v} /\ (RestartsUnit(v) \/ RestartFails(v))
    BY <1>9 DEF RetryRestart
  <2>1. pc = "retry" /\ v \in Units /\ UNCHANGED selfOps
    BY <1>9 DEF RetryRestart, TypeOK
  <2>2. /\ UNCHANGED <<disk, managed, want, queue, failed>>
        /\ \A u \in Units : Moved(u)
    BY <1>9, <2>1, UnitsMove
  <2>3. \A u, p : Covers(queue \cup failed, u, p) => Covers(queue' \cup failed', u, p)
    BY <2>2
  <2> SUFFICES ASSUME NEW u \in Units, Counted(u), ~Resting(u)', ~Touched(u)',
                      want[u] # Absent, disk[u] = want[u],
                      NEW p \in Hooked(u), want[p] # Absent, disk[p] = want[p]
               PROVE  view'[u].data[p] = disk[p] \/ Covers(queue' \cup failed', u, p)
    BY <2>2 DEF HookedBook, Covers
  <2>4. p \in Data /\ run'[u] = "active"
    BY HookedType DEF Resting
  <2>5. CASE Fresh(u)'
    BY <2>2, <2>4, <2>5 DEF Fresh
  <2>6. CASE run'[u] = run[u] /\ view'[u] = view[u] /\ ~Fresh(u)'
    <3>1. u # v
      <4>1. (\A m \in Units : defs[m] = disk[m]) /\ Tagged(disk, tag)
        BY <2>1 DEF Known, TagBook
      <4>2. v \in Starts(v)
        BY <2>1 DEF Starts
      <4> QED
        BY <2>1, <2>2, <2>4, <2>6, <4>1, <4>2, StartPays
    <3>2. ~Touched(u)
      BY <2>2, <3>1, Frame DEF Touched
    <3>3. ~Resting(u)
      BY <2>1, <2>4, <2>6 DEF Resting
    <3> QED
      BY <2>1, <2>2, <2>3, <2>6, <3>2, <3>3 DEF HookedBook
  <2> QED
    BY <2>2, <2>4, <2>5, <2>6 DEF Moved
<1>10. CASE SelfOp
  <2>1. CASE Fault("selfop") /\ UNCHANGED <<host, pc>> /\ pc = "save"
    <3>1. UNCHANGED <<managed, want, restarts, failed>> /\ queue = {} /\ Afoot
      BY <1>10, <2>1 DEF SelfOp, PlanBook, Afoot
    <3>2. queue' = {}
      BY <2>1 DEF PlanBook
    <3>3. \A u \in Units : Counted(u) => u \notin selfOps
      BY <2>1 DEF Counted, LosesSelfOps, Fault, TypeOK
    <3>4. \A u \in Units : Counted(u) /\ ~Resting(u)' => ~Resting(u)
      BY <2>1, <3>3 DEF Resting
    <3> QED
      BY <1>0, <2>1, <3>1, <3>2, <3>4, TouchedFrame
  <2>2. CASE pc' = "idle"
    BY <2>2 DEF HookedBook, Afoot
  <2> QED
    BY <1>10, <2>1, <2>2 DEF SelfOp, SelfOpsScheduled
<1>11. CASE \/ Write \/ WriteFails \/ DaemonReloadFails \/ BuildFails \/ Save
            \/ (RetryRestart /\ pc' # "retry") \/ RetryDone \/ RollBack
            \/ \E u \in Units : Dies(u) \/ JobFails(u) \/ Health(u)
  <2>1. pc' \in {"write", "rollback", "idle"}
    BY <1>11
    DEF Write, WriteFails, DaemonReloadFails, BuildFails, Save, RetryRestart, RetryDone,
        RollBack, Dies, JobFails, Health
  <2> QED
    BY <2>1 DEF HookedBook, Afoot
<1>12. Apply => HookedBook'
  BY <1>3, <1>4, <1>5, <1>6, <1>7, <1>8, <1>9, <1>11 DEF Apply
<1> QED
  BY <1>1, <1>2, <1>10, <1>11, <1>12 DEF Next

LEMMA ExecutedHook ==
  ASSUME TypeOK, ExecutedBook, RunHook
  PROVE  ExecutedBook'
<1> PICK h \in Hooks : h \in queue /\ queue' = queue \ {h} /\ RunOneHook(h)
  BY DEF RunHook, NextHook
<1>1. pc \in {"hooks", "retry"} /\ UNCHANGED <<pc, disk, run>>
  BY DEF RunHook
<1>2. restarts \subseteq restarts' /\ failed \subseteq failed'
  BY DEF RunOneHook
<1> SUFFICES ASSUME NEW g \in Hooks, Effect[g] \in executed', run[HookUnit[g]] = "active"
             PROVE  \/ HookUnit[g] \in restarts'
                    \/ \A p \in Delivers(g) : view'[HookUnit[g]].data[p] = disk[p]
                    \/ \E f \in failed' : Effect[f] = Effect[g]
  BY <1>1 DEF ExecutedBook
<1>0. Delivers(g) \subseteq Data /\ HookUnit[g] \in Units /\ HookUnit[h] \in Units
  BY HooksAssumption DEF Delivers
<1>3. CASE Effect[g] \in executed
  <2>1. \/ HookUnit[g] \in restarts
        \/ \A p \in Delivers(g) : view[HookUnit[g]].data[p] = disk[p]
        \/ \E f \in failed : Effect[f] = Effect[g]
    BY <1>1, <1>3 DEF ExecutedBook
  <2>2. ASSUME NEW p \in Data
        PROVE  \/ view'[HookUnit[g]].data[p] = view[HookUnit[g]].data[p]
               \/ view'[HookUnit[g]].data[p] = disk[p]
    <3>1. CASE Reloaded(h)
      BY <1>0, <3>1 DEF Reloaded, TypeOK, Views
    <3> QED
      BY <3>1 DEF RunOneHook, ReloadFails
  <2> QED
    BY <1>0, <1>2, <2>1, <2>2
<1>4. CASE Effect[g] \notin executed
  <2>1. Effect[g] = Effect[h] /\ ~Skipped(h)
    BY <1>4 DEF RunOneHook
  <2>2. HookUnit[g] = HookUnit[h] /\ Delivers(g) = Delivers(h)
    BY <2>1, HooksAssumption DEF Delivers
  <2>3. CASE Reloaded(h)
    BY <1>0, <2>2, <2>3 DEF Reloaded, TypeOK, Views
  <2> QED
    BY <2>1, <2>2, <2>3 DEF RunOneHook, ReloadFails
<1> QED
  BY <1>3, <1>4

LEMMA ExecutedStep ==
  ASSUME TypeOK, PlanBook, ExecutedBook, [Next]_vars
  PROVE  ExecutedBook'
<1> USE DEF host, state, work
<1>1. CASE UNCHANGED vars
  BY <1>1 DEF vars, ExecutedBook
<1>2. CASE \E commit \in Follows[sha] : Begin(commit)
  BY <1>2 DEF Begin, ExecutedBook
<1>3. CASE WritesDone
  BY <1>3 DEF WritesDone, PlanBook, ExecutedBook
<1>4. CASE RunHook
  BY <1>4, ExecutedHook
<1>5. CASE RetryRestart
  BY <1>5 DEF RetryRestart, ExecutedBook
<1>6. CASE \/ Write \/ WriteFails \/ DaemonReload \/ DaemonReloadFails \/ Build
           \/ BuildFails \/ Built \/ ActivateRaw \/ Activated \/ Restart
           \/ RestartsDone \/ Consume \/ Consumed \/ Save \/ RetryDone \/ RollBack
           \/ SelfOp \/ \E u \in Units : Dies(u) \/ JobFails(u) \/ Health(u)
  <2>1. pc' \notin {"hooks", "retry"}
    BY <1>6
    DEF Write, WriteFails, DaemonReload, DaemonReloadFails, Build, BuildFails, Built,
        ActivateRaw, Activated, Restart, RestartsDone, Consume, Consumed, Save,
        RetryDone, RollBack, SelfOp, SelfOpsScheduled, Dies, JobFails, Health
  <2> QED
    BY <2>1 DEF ExecutedBook
<1> QED
  BY <1>1, <1>2, <1>3, <1>4, <1>5, <1>6 DEF Next, Apply

LEMMA CurrentInit == Init => CurrentBook
<1> SUFFICES ASSUME Init PROVE CurrentBook
  OBVIOUS
<1>1. pc = "idle" /\ managed = disk /\ PlanBook
  BY PlanInit DEF Init, Deployed
<1>2. Known
  BY <1>1 DEF Init, Deployed, Known
<1>3. ASSUME NEW u \in Units, run[u] = "active" PROVE Fresh(u)
  <2>1. view[u] = Loads(u, disk, defs, tag) /\ defs[u] = disk[u]
    BY <1>3 DEF Init, Deployed
  <2>2. Requires[u] \in Builds \cup {NoUnit}
    BY FleetAssumption
  <2> QED
    BY <2>1, <2>2 DEF Loads, Fresh, ImageOf, Init, Deployed
<1>4. RecordBook /\ DataBook
  BY <1>1, <1>3, HookedType DEF RecordBook, DataBook, Base, DataBase, Resting, Fresh
<1> QED
  BY <1>1, <1>2, <1>4
  DEF CurrentBook, TurnBook, HookedBook, ExecutedBook, Activating, Afoot

LEMMA CurrentStep ==
  ASSUME ContextsKeepFiles, FaultsLast, Typed, DiskBook, TagBook, Booked, CurrentBook,
         [Next]_vars
  PROVE  CurrentBook'
<1>1. TypeOK /\ DiskBook' /\ TagBook' /\ PlanBook /\ PlanBook'
  BY DiskBookStep, TagBookStep, PlanStep DEF Typed, CurrentBook
<1>2. /\ Forgets(sha) => Forgets(sha)'
      /\ FailsAfterHooks(sha) => FailsAfterHooks(sha)'
      /\ \A u : Counted(u)' => Counted(u)
  BY <1>1, FaultsLasting
<1> SUFFICES ASSUME ~Forgets(sha)
             PROVE  /\ (pc # "rollback" => Known)'
                    /\ RecordBook' /\ TurnBook'
                    /\ ~FailsAfterHooks(sha)' => (DataBook /\ HookedBook /\ ExecutedBook)'
  BY <1>1, <1>2 DEF CurrentBook
<1>3. /\ (pc # "rollback" => Known) /\ RecordBook /\ TurnBook
      /\ "restore" \notin Faults[sha] /\ "refused" \notin Faults[sha]
      /\ "consumer" \notin Faults[sha]
  BY DEF CurrentBook, Forgets
<1>4. (pc # "rollback" => Known)'
  BY <1>3, KnownStep
<1>5. RecordBook'
  BY <1>1, <1>2, <1>3, RecordStep
<1>6. TurnBook'
  BY <1>2, <1>3, TurnStep
<1>7. ASSUME ~FailsAfterHooks(sha)' PROVE (DataBook /\ HookedBook /\ ExecutedBook)'
  <2>1. ~FailsAfterHooks(sha) /\ DataBook /\ HookedBook /\ ExecutedBook
    BY <1>2, <1>7 DEF CurrentBook
  <2>2. DataBook'
    BY <1>1, <1>2, <1>3, <2>1, DataStep
  <2>3. HookedBook'
    BY <1>1, <1>2, <1>3, <2>1, HookedStep
  <2>4. ExecutedBook'
    BY <1>1, <2>1, ExecutedStep
  <2> QED
    BY <2>2, <2>3, <2>4
<1> QED
  BY <1>4, <1>5, <1>6, <1>7

LEMMA CurrentServices ==
  ASSUME TypeOK, CurrentBook
  PROVE  ServicesCurrent
<1> SUFFICES ASSUME pc = "idle", selfOps = {}, pendHooks = {}, disk = managed,
                    ~Forgets(sha), NEW u \in Units, u \in Self => ~LosesSelfOps,
                    Daemon(u), disk[u] # Absent, run[u] = "active"
             PROVE  Current(u) /\ (FailsAfterHooks(sha) \/ DataCurrent(u))
  BY DEF ServicesCurrent
<1>1. Counted(u) /\ ~Resting(u) /\ Base = managed /\ DataBase = managed
  BY DEF Counted, Resting, Base, DataBase
<1>2. Current(u)
  BY <1>1 DEF CurrentBook, RecordBook, ImageOf, Current
<1>3. ~FailsAfterHooks(sha) => DataCurrent(u)
  BY <1>1 DEF CurrentBook, DataBook, Covers, DataCurrent
<1> QED
  BY <1>2, <1>3

\* Between applies, with nothing pending and the files those of the state file,
\* every running daemon of the Fleet runs what is deployed, whatever hooks skip or
\* stand in for each other, whichever restarts are covered by a pod's, a build's or
\* the Agent's own, and whatever fails and is retried or rolled back (RunHooks,
\* dropPodMemberRestarts, takeBuildConsumers, scheduleSelfUnitOps, Rollback).
THEOREM ServicesAlwaysCurrent ==
  ASSUME ContextsKeepFiles, FaultsLast
  PROVE  Spec => []ServicesCurrent
<1> DEFINE IInv == Typed /\ DiskBook /\ TagBook /\ Booked /\ CurrentBook
<1>1. Init => IInv
  BY TypeInit, StageInit, DiskBookInit, TagBookInit, BookedInit, CurrentInit DEF Typed
<1>2. IInv /\ [Next]_vars => IInv'
  BY TypeStep, StageStep, DiskBookStep, TagBookStep, HookBookStep, RestartBookStep,
     CurrentStep
  DEF Typed, Booked
<1>3. IInv => ServicesCurrent
  BY CurrentServices DEF Typed
<1> QED
  BY <1>1, <1>2, <1>3, PTL DEF Spec

\* What the Agent leaves behind when its own unit left the Fleet.
GoneBook ==
  outcome = "gone" /\ ~FailsApplies(sha) =>
    /\ Known
    /\ \A u \in Units \ Self :
         Daemon(u) /\ want[u] # Absent /\ disk[u] = want[u] =>
           Fine(u) /\ (run[u] = "active" => view[u].def = want[u])

\* Before the deferred operations every unit was handled.
LEMMA HandledBefore ==
  ASSUME TypeOK, DiskBook, KeptBook, CurrentBook, ~FailsApplies(sha), outcome # "gone",
         pc = "save" \/ (pc = "idle" /\ selfOps # {}),
         NEW u \in Units \ Self, Daemon(u), want[u] # Absent, disk[u] = want[u]
  PROVE  Fine(u) /\ (run[u] = "active" => view[u].def = want[u])
<1>0. ~Forgets(sha)
  BY DEF Forgets, FailsApplies
<1>1. RecordBook /\ TurnBook /\ PlanBook /\ DaemonBook
  BY <1>0 DEF CurrentBook, KeptBook
<1>2. Counted(u) /\ u \notin selfOps /\ Base = disk
  BY DEF Counted, TypeOK, Base
<1>3. CASE managed[u] = want[u]
  <2>1. Fine(u)
    BY <1>1, <1>3 DEF DaemonBook, Deployable
  <2>2. run[u] = "active" => view[u].def = want[u]
    BY <1>1, <1>2, <1>3 DEF RecordBook, Resting
  <2> QED
    BY <2>1, <2>2
<1>4. CASE managed[u] # want[u]
  <2>1. pc = "save" /\ u \in Written
    BY <1>1, <1>4, Sorts DEF PlanBook, Written, Changes
  <2>2. Fine(u)
    BY <1>1, <2>1 DEF DaemonBook, Activating, Owed
  <2>3. run[u] = "active" => view[u].def = want[u]
    BY <1>1, <1>2, <2>1 DEF TurnBook, Activating, Owed, Touched, Resting, Fresh
  <2> QED
    BY <2>2, <2>3
<1> QED
  BY <1>3, <1>4

LEMMA GoneStep ==
  ASSUME Typed, DiskBook, KeptBook, CurrentBook, GoneBook, [Next]_vars
  PROVE  GoneBook'
<1>a. TypeOK
  BY DEF Typed
<1> SUFFICES ASSUME outcome' = "gone", ~FailsApplies(sha)'
             PROVE  /\ Known'
                    /\ \A u \in Units \ Self :
                         Daemon(u) /\ want'[u] # Absent /\ disk'[u] = want'[u] =>
                           Fine(u)' /\ (run'[u] = "active" => view'[u].def = want'[u])
  BY DEF GoneBook
<1> USE <1>a DEF host, state, work
<1>1. CASE outcome = "gone"
  <2>1. CASE UNCHANGED vars
    BY <1>1, <2>1, Frame DEF vars, GoneBook, Known, Fine, FailsApplies
  <2>2. ASSUME NEW v \in Units, Dies(v)
        PROVE  /\ Known'
               /\ \A u \in Units \ Self :
                    Daemon(u) /\ want'[u] # Absent /\ disk'[u] = want'[u] =>
                      Fine(u)' /\ (run'[u] = "active" => view'[u].def = want'[u])
    <3>1. /\ pc = "idle" /\ UNCHANGED <<pc, disk, defs, want, sha>>
          /\ StartFails(v, "failed")
      BY <2>2 DEF Dies
    <3>2. ~FailsApplies(sha) /\ Known /\ Known'
      BY <1>1, <3>1 DEF GoneBook, FailsApplies, Known
    <3>3. ASSUME NEW u \in Units \ Self, Daemon(u), want[u] # Absent, disk[u] = want[u]
          PROVE  Fine(u)' /\ (run'[u] = "active" => view'[u].def = want[u])
      <4>1. Fine(u) /\ (run[u] = "active" => view[u].def = want[u])
        BY <1>1, <3>2, <3>3 DEF GoneBook
      <4>2. Present(u)
        BY <3>1, <3>2, <3>3 DEF Known, Present
      <4>3. Fine(u)'
        BY <3>1, <3>2, <3>3, <4>1, <4>2, FineKept
      <4>4. run'[u] = "active" => run[u] = "active" /\ view'[u] = view[u]
        BY <3>1 DEF StartFails, Starts
      <4> QED
        BY <4>1, <4>3, <4>4
    <3> QED
      BY <3>1, <3>2, <3>3
  <2>3. ASSUME NEW v \in Units, JobFails(v)
        PROVE  /\ Known'
               /\ \A u \in Units \ Self :
                    Daemon(u) /\ want'[u] # Absent /\ disk'[u] = want'[u] =>
                      Fine(u)' /\ (run'[u] = "active" => view'[u].def = want'[u])
    <3>1. /\ pc = "idle" /\ UNCHANGED <<pc, disk, defs, want, sha, view>>
          /\ Kind[v] = "job" /\ run' = [run EXCEPT ![v] = "failed"]
      BY <2>3 DEF JobFails, ExternallyActivated
    <3>2. ~FailsApplies(sha) /\ Known /\ Known'
      BY <1>1, <3>1 DEF GoneBook, FailsApplies, Known
    <3>3. ASSUME NEW u \in Units \ Self, Daemon(u), want[u] # Absent, disk[u] = want[u]
          PROVE  Fine(u)' /\ (run'[u] = "active" => view'[u].def = want[u])
      <4>1. Fine(u) /\ (run[u] = "active" => view[u].def = want[u])
        BY <1>1, <3>2, <3>3 DEF GoneBook
      <4>2. u # v /\ (Member[u] # NoUnit => Member[u] # v)
        BY <3>1, <3>3, Pods DEF Daemon
      <4> QED
        BY <3>1, <4>1, <4>2 DEF Fine, TypeOK, Runs
    <3> QED
      BY <3>1, <3>2, <3>3
  <2> QED
    BY <1>1, <2>1, <2>2, <2>3, GoneLasts
<1>2. CASE outcome # "gone"
  <2>1. SelfOp
    BY <1>2
    DEF Next, Apply, vars, Begin, Write, WriteFails, WritesDone, RunHook, DaemonReload,
        DaemonReloadFails, Build, BuildFails, Built, ActivateRaw, Activated, Restart,
        RestartsDone, Consume, Consumed, Save, RetryRestart, RetryDone, RollBack, Dies, JobFails,
        Health
  <2>2. PICK v \in selfOps : Stops(v)
    BY <1>2, <2>1 DEF SelfOp
  <2>3. /\ pc = "save" \/ (pc = "idle" /\ selfOps # {})
        /\ pc' = "idle" /\ UNCHANGED <<disk, defs, want, sha>>
    BY <1>2, <2>1 DEF SelfOp, SelfOpsScheduled
  <2>4. ~FailsApplies(sha) /\ v \in Units /\ v \in Self
    BY <2>3, FleetAssumption DEF FailsApplies, TypeOK
  <2>5. Known'
    BY <1>2, <2>3, <2>4 DEF KeptBook, Known
  <2>6. ASSUME NEW u \in Units \ Self, Daemon(u), want[u] # Absent, disk[u] = want[u]
        PROVE  Fine(u)' /\ (run'[u] = "active" => view'[u].def = want[u])
    <3>1. Fine(u) /\ (run[u] = "active" => view[u].def = want[u])
      BY <1>2, <2>3, <2>4, <2>6, HandledBefore
    <3>2. Fine(u)'
      BY <2>2, <2>4, <3>1, FineStopped
    <3> QED
      BY <2>2, <3>1, <3>2 DEF Stops
  <2> QED
    BY <2>3, <2>5, <2>6
<1> QED
  BY <1>1, <1>2

\* An Agent whose own unit left the Fleet ends only after every other daemon was
\* started, and those that run run what is deployed (stopUnitForDelete,
\* scheduleSelfUnitOps), as long as neither this commit nor one before it had a
\* fault that fails applies.
THEOREM AgentAlwaysLeavesLast ==
  ASSUME ContextsKeepFiles, FaultsLast, HarmlessBefore
  PROVE  Spec => []AgentLeavesLast
<1> DEFINE IInv == /\ Typed /\ DiskBook /\ TagBook /\ Booked /\ KeptBook /\ CurrentBook
                   /\ GoneBook
<1>1. Init => IInv
  BY TypeInit, StageInit, DiskBookInit, TagBookInit, BookedInit, KeptInit, CurrentInit
  DEF Typed, Init, GoneBook
<1>2. IInv /\ [Next]_vars => IInv'
  BY TypeStep, StageStep, DiskBookStep, TagBookStep, HookBookStep, RestartBookStep,
     KeptStep, CurrentStep, GoneStep
  DEF Typed, Booked
<1>3. IInv => AgentLeavesLast
  BY DEF GoneBook, AgentLeavesLast
<1> QED
  BY <1>1, <1>2, <1>3, PTL DEF Spec
----------------------------------------------------------------------------
(* Jobs. *)

\* Where a rollback's daemon-reload may fail, it may still at the next commit.
TimersKnownBefore ==
  \A c \in Shas : \A d \in Follows[c] : MistakesTimers(c) => MistakesTimers(d)

\* systemd knows the timers of the Host whenever it is asked about one.
KnownBook == ~MistakesTimers(sha) /\ pc # "rollback" => Known

\* What a pending hook's fallback restarts is that hook's unit.
RetryBook == pc = "retry" => \A u \in restarts : \E h \in Hooks : HookUnit[h] = u

LEMMA KnownBookStep ==
  ASSUME TimersKnownBefore, Typed, DiskBook, KnownBook, [Next]_vars
  PROVE  KnownBook'
<1>1. ASSUME ~MistakesTimers(sha)' PROVE "restore" \notin Faults[sha]
  BY <1>1, ShaKept DEF Begin, TimersKnownBefore, MistakesTimers, Typed, TypeOK
<1> QED
  BY <1>1, KnownStep DEF KnownBook, MistakesTimers

LEMMA RetryBookStep == Typed /\ RetryBook /\ [Next]_vars => RetryBook'
<1> SUFFICES ASSUME RetryBook, pc' = "retry", [Next]_vars
             PROVE  \A u \in restarts' : \E h \in Hooks : HookUnit[h] = u
  BY DEF RetryBook
<1> USE DEF RetryBook, host, state, work
<1>1. CASE pc = "retry" /\ restarts' \subseteq restarts
  BY <1>1
<1>2. CASE restarts' = {}
  BY <1>2
<1>3. CASE RunHook
  BY <1>3 DEF RunHook, RunOneHook
<1> QED
  BY <1>1, <1>2, <1>3
  DEF Next, Apply, vars, Begin, Write, WriteFails, WritesDone, DaemonReload,
      DaemonReloadFails, Build, BuildFails, Built, ActivateRaw, Activated, Restart,
      RestartsDone, Consume, Consumed, Save, RetryRestart, RetryDone, RollBack, SelfOp,
      Dies, JobFails, Health

\* What is done to one unit another, in no pod, does not notice.
LEMMA SparesOthers ==
  ASSUME view \in Views, NEW v \in Units,
         \/ RestartsUnit(v) \/ RestartFails(v) \/ Started(v) \/ Stops(v)
         \/ RestartsIgnoringDependencies(v) \/ StartFails(v, "failed"),
         NEW u \in Units, u # v, Member[u] = NoUnit
  PROVE  view'[u] = view[u]
<1>1. u \notin Starts(v)
  BY Sorts DEF Starts
<1>2. ASSUME Started(v) PROVE view'[u] = view[u]
  BY <1>1, <1>2 DEF Started
<1>3. ASSUME NEW s, StartFails(v, s) PROVE view'[u] = view[u]
  BY <1>1, <1>3 DEF StartFails
<1>4. CASE Stops(v)
  BY <1>1, <1>4 DEF Stops
<1>5. CASE RestartsIgnoringDependencies(v)
  BY <1>5 DEF RestartsIgnoringDependencies, Views
<1> QED
  BY <1>2, <1>3, <1>4, <1>5 DEF RestartsUnit, RestartFails

LEMMA AgentSparesJobs ==
  ASSUME NEW units \in SUBSET Self, AgentRestarts(units), NEW u \in Units \ Self
  PROVE  view'[u] = view[u]
BY DEF AgentRestarts

\* systemd names the timer of a scheduled job when it is asked.
LEMMA ScheduledKnown ==
  ASSUME Known, pc \in {"idle", "restart", "consume"}, NEW u \in Units, Kind[u] = "job",
         Scheduled(u)
  PROVE  TimerTriggered(u) /\ ExternallyActivated(u)
BY FleetAssumption DEF Known, Scheduled, TimerTriggered, ExternallyActivated, Present

\* It names none for a job whose timers all left the Host.
LEMMA UnscheduledKnown ==
  ASSUME Known, pc \in {"idle", "restart", "consume"}, NEW u \in Units, Unscheduled(u)
  PROVE  ~TimerTriggered(u)
BY FleetAssumption DEF Known, Unscheduled, TimerTriggered, Present

LEMMA JobLeft ==
  ASSUME Typed, DiskBook, Booked, KnownBook, RetryBook, ~MistakesTimers(sha),
         NEW u \in Units, Kind[u] = "job", disk'[u] # Absent, ~Asked(u), Scheduled(u),
         [Next]_vars
  PROVE  view'[u] = view[u]
<1>a. /\ TypeOK /\ Stage /\ view \in Views /\ Member[u] = NoUnit /\ u \notin Self
      /\ u \notin Raw /\ \A h \in Hooks : HookUnit[h] # u
      /\ (pc # "rollback" => Known)
  BY FleetAssumption DEF Typed, TypeOK, Asked, Raw, KnownBook
<1> USE <1>a DEF host, state, work
<1>1. CASE Write
  <2> PICK p \in Paths : /\ NextPath(p) /\ disk' = [disk EXCEPT ![p] = want[p]]
                         /\ IF p \in Units /\ want[p] = Absent
                            THEN StopForDelete(p)
                            ELSE UNCHANGED <<run, view, enabled, selfOps, faults>>
    BY <1>1 DEF Write
  <2>1. UNCHANGED view \/ (p \in Units /\ want[p] = Absent /\ Stops(p))
    BY DEF StopForDelete
  <2>2. want[p] = Absent => u # p
    BY Sorts DEF TypeOK, Tree
  <2> QED
    BY <2>1, <2>2, SparesOthers
<1>2. CASE RunHook
  <2> PICK h \in Hooks : UNCHANGED view \/ Reloaded(h)
    BY <1>2 DEF RunHook, RunOneHook, ReloadFails
  <2> QED
    BY DEF Reloaded, Views
<1>3. CASE ActivateRaw
  <2> PICK v \in todo : ActivateUnit(v)
    BY <1>3 DEF ActivateRaw
  <2>1. v \in Units /\ v # u
    BY <1>3, Sorts DEF ActivateRaw, Stage
  <2> QED
    BY <2>1, SparesOthers DEF ActivateUnit
<1>4. CASE Restart
  <2> PICK v \in todo : RestartChangedUnit(v)
    BY <1>4 DEF Restart
  <2>1. v \in Units /\ v \in restarts /\ pc = "restart"
    BY <1>4 DEF Restart, Stage, TypeOK
  <2>2. CASE v = u
    <3>1. Oneshot(u)
      BY <2>1, <2>2 DEF Booked, HookBook, Attempted, Afoot, Oneshot, TypeOK
    <3>2. LeftToTimer(u) /\ ~Deferred(u)
      BY <2>1, <3>1, ScheduledKnown DEF LeftToTimer, Deferred
    <3> QED
      BY <2>2, <3>2 DEF RestartChangedUnit, Defer, LeaveAlone
  <2>3. CASE v # u
    BY <2>1, <2>3, SparesOthers DEF RestartChangedUnit, Defer, LeaveAlone, RestartUnit
  <2> QED
    BY <2>2, <2>3
<1>5. CASE Consume
  <2> PICK v \in todo : RestartConsumer(v)
    BY <1>5 DEF Consume
  <2>1. v \in Units /\ pc = "consume"
    BY <1>5, TriggeredType DEF Consume, Stage
  <2>2. CASE v = u
    <3>1. ExternallyActivated(u) /\ ~Deferred(u)
      BY <2>1, ScheduledKnown DEF Deferred
    <3> QED
      BY <2>2, <3>1 DEF RestartConsumer, Defer, LeaveAlone
  <2>3. CASE v # u
    BY <2>1, <2>3, SparesOthers DEF RestartConsumer, Defer, LeaveAlone, RestartUnit
  <2> QED
    BY <2>2, <2>3
<1>6. CASE RetryRestart
  <2> PICK v \in restarts : \/ RestartsUnit(v) \/ RestartFails(v)
                            \/ v \in Self /\ AgentRestarts({v})
    BY <1>6 DEF RetryRestart
  <2>1. v \in Units /\ v # u
    BY <1>6 DEF RetryRestart, RetryBook, TypeOK
  <2> QED
    BY <2>1, SparesOthers, AgentSparesJobs
<1>7. CASE SelfOp
  <2>1. CASE AgentRestarts(selfOps)
    BY <2>1, AgentSparesJobs DEF TypeOK
  <2>2. CASE \E v \in selfOps : Stops(v)
    BY <2>2, SparesOthers, Sorts DEF TypeOK
  <2> QED
    BY <1>7, <2>1, <2>2 DEF SelfOp
<1>8. ASSUME NEW v \in Units, Dies(v) PROVE view'[u] = view[u]
  <2>1. v # u
    BY <1>8 DEF Dies, Daemon
  <2> QED
    BY <1>8, <2>1, SparesOthers DEF Dies
<1>9. ASSUME NEW v \in Units, Health(v) PROVE view'[u] = view[u]
  <2>1. CASE v = u
    <3>1. ~Restartable(u)
      BY <1>9, ScheduledKnown DEF Health, Restartable
    <3> QED
      BY <1>9, <2>1, <3>1 DEF Health
  <2>2. CASE v # u
    BY <1>9, <2>2, SparesOthers DEF Health
  <2> QED
    BY <2>1, <2>2
<1> QED
  BY <1>1, <1>2, <1>3, <1>4, <1>5, <1>6, <1>7, <1>8, <1>9
  DEF Next, Apply, vars, Begin, WriteFails, WritesDone, DaemonReload, DaemonReloadFails,
      Build, BuildFails, Built, Activated, RestartsDone, Consumed, Save, RetryDone,
      RollBack, JobFails

\* A job does not stay active: it is over once it was started.
JobsRest == \A u \in Units : Kind[u] = "job" => run[u] # "active"

LEMMA StartRests ==
  ASSUME JobsRest, TypeOK, NEW v \in Units,
         \/ RestartsUnit(v) \/ RestartFails(v) \/ Started(v) \/ Stops(v)
         \/ StartFails(v, "failed")
         \/ RestartsIgnoringDependencies(v) /\ run[v] = "active"
  PROVE  JobsRest'
<1>1. CASE UNCHANGED run
  BY <1>1 DEF JobsRest
<1>2. CASE Started(v)
  BY <1>2 DEF JobsRest, Started, AfterStart
<1>3. CASE Stops(v)
  BY <1>3 DEF JobsRest, Stops
<1>4. ASSUME NEW s \in {"inactive", "failed"}, StartFails(v, s) PROVE JobsRest'
  BY <1>4 DEF JobsRest, StartFails
<1>5. CASE RestartsIgnoringDependencies(v) /\ run[v] = "active"
  BY <1>5 DEF JobsRest, RestartsIgnoringDependencies, TypeOK, Runs
<1> QED
  BY <1>1, <1>2, <1>3, <1>4, <1>5 DEF RestartsUnit, RestartFails

LEMMA JobsRestStep == Typed /\ JobsRest /\ [Next]_vars => JobsRest'
<1> SUFFICES ASSUME TypeOK, Stage, JobsRest, [Next]_vars PROVE JobsRest'
  BY DEF Typed
<1> USE DEF host, state, work
<1>1. CASE UNCHANGED run
  BY <1>1 DEF JobsRest
<1>2. CASE Write
  <2> PICK p \in Paths : UNCHANGED run \/ (p \in Units /\ Stops(p))
    BY <1>2 DEF Write, StopForDelete
  <2> QED
    BY <1>1, StartRests
<1>3. CASE Build \/ BuildFails
  BY <1>3 DEF Build, BuildRuns, BuildFails, JobsRest, TypeOK, Runs
<1>4. CASE ActivateRaw
  <2> PICK v \in todo : ActivateUnit(v)
    BY <1>4 DEF ActivateRaw
  <2>1. v \in Units
    BY <1>4, Sorts DEF ActivateRaw, Stage
  <2> QED
    BY <1>1, <2>1, StartRests DEF ActivateUnit
<1>5. CASE Restart
  <2> PICK v \in todo : RestartChangedUnit(v)
    BY <1>5 DEF Restart
  <2>1. v \in Units
    BY <1>5 DEF Restart, Stage, TypeOK
  <2> QED
    BY <1>1, <2>1, StartRests DEF RestartChangedUnit, Defer, LeaveAlone, RestartUnit
<1>6. CASE Consume
  <2> PICK v \in todo : RestartConsumer(v)
    BY <1>6 DEF Consume
  <2>1. v \in Units
    BY <1>6, TriggeredType DEF Consume, Stage
  <2> QED
    BY <1>1, <2>1, StartRests DEF RestartConsumer, Defer, LeaveAlone, RestartUnit
<1>7. ASSUME NEW units \in SUBSET Self, AgentRestarts(units) PROVE JobsRest'
  BY <1>7, FleetAssumption DEF AgentRestarts, JobsRest
<1>8. CASE RetryRestart
  <2> PICK v \in restarts : \/ RestartsUnit(v) \/ RestartFails(v)
                            \/ v \in Self /\ AgentRestarts({v})
    BY <1>8 DEF RetryRestart
  <2>1. v \in Units
    BY <1>8 DEF TypeOK
  <2> QED
    BY <1>7, <2>1, StartRests
<1>9. CASE SelfOp
  <2>1. CASE \E v \in selfOps : Stops(v)
    BY <2>1, StartRests, Sorts DEF TypeOK
  <2>2. CASE AgentRestarts(selfOps)
    BY <1>7, <2>2 DEF TypeOK
  <2> QED
    BY <1>1, <1>9, <2>1, <2>2 DEF SelfOp
<1>10. ASSUME NEW v \in Units, Dies(v) \/ Health(v) PROVE JobsRest'
  BY <1>1, <1>10, StartRests DEF Dies, Health
<1>11. ASSUME NEW v \in Units, JobFails(v) PROVE JobsRest'
  BY <1>11 DEF JobFails, JobsRest, TypeOK, Runs
<1> QED
  BY <1>1, <1>2, <1>3, <1>4, <1>5, <1>6, <1>8, <1>9, <1>10, <1>11
  DEF Next, Apply, vars, Begin, WriteFails, WritesDone, RunHook, DaemonReload,
      DaemonReloadFails, Built, Activated, RestartsDone, Consumed, Save, RetryDone,
      RollBack

\* A job no pod and no timer of the Host starts.
Alone(u) == Kind[u] = "job" /\ Member[u] = NoUnit /\ Unscheduled(u)

\* It ran with what is deployed, or is on record.
Ran(u) == u \in broken \/ (u \in restarted /\ Current(u))

\* A job that is to be run did, or its turn is still to come.
JobBook ==
  Activating /\ ~MistakesTimers(sha) /\ "status" \notin Faults[sha] =>
    \A u \in ChangedUnits \cup BuildConsumers : Alone(u) => Owed(u) \/ Ran(u)

LEMMA AllJobsOwed ==
  ASSUME TypeOK, HookBook, Built, NEW u \in ChangedUnits \cup BuildConsumers, Alone(u)
  PROVE  Owed(u)'
<1>1. /\ pc = "build" /\ pc' = "activate" /\ restarts' = Restarting
      /\ UNCHANGED <<want, managed>>
  BY DEF Built, host, state
<1>2. ChangedUnits \subseteq restarts
  BY <1>1 DEF HookBook, Afoot
<1>3. u \notin TriggeredBuilds /\ Member[u] \notin ChangedUnits
  BY TriggeredType, Sorts DEF Alone, Builds
<1> QED
  BY <1>1, <1>2, <1>3, Frame DEF Restarting, Owed

\* A job that ran, ran with what systemd knows, and with the image just built.
LEMMA RanNow ==
  ASSUME Known, pc \in {"restart", "consume"}, NEW u \in Units, RestartsUnit(u),
         UNCHANGED disk
  PROVE  Current(u)'
<1>1. view'[u] = Loads(u, disk, defs, tag')
  BY DEF RestartsUnit, Started, Starts
<1>2. defs[u] = disk[u] /\ Requires[u] \in Builds \cup {NoUnit}
  BY FleetAssumption DEF Known
<1>3. Requires[u] # NoUnit => tag'[Requires[u]] = Image(Requires[u], disk)
  BY <1>2 DEF RestartsUnit, Started, Starts, Rebuilds
<1> QED
  BY <1>1, <1>2, <1>3 DEF Loads, Current

\* The others are left alone by one unit's turn.
LEMMA JobsPaid ==
  ASSUME Typed, JobBook, pc \in {"restart", "consume"}, Known,
         ~MistakesTimers(sha), "status" \notin Faults[sha],
         UNCHANGED <<disk, managed, want, sha, pc>>,
         NEW v \in Units, todo' = todo \ {v},
         restarted \subseteq restarted', broken \subseteq broken',
         \A u \in Units : u # v /\ Member[u] = NoUnit => view'[u] = view[u],
         Alone(v) => v \in broken' \/ (v \in restarted' /\ Current(v)')
  PROVE  JobBook'
<1> SUFFICES ASSUME NEW u \in ChangedUnits \cup BuildConsumers, Alone(u)
             PROVE  Owed(u)' \/ Ran(u)'
  BY Frame DEF JobBook, Alone, Unscheduled
<1>1. u \in Units
  BY TriggeredType
<1>2. CASE u = v
  BY <1>2 DEF Ran
<1>3. CASE u # v
  <2>1. Owed(u) \/ Ran(u)
    BY DEF JobBook, Activating
  <2>2. view'[u] = view[u] /\ Member[u] \notin ChangedUnits
    BY <1>1, <1>3, TriggeredType, Sorts DEF Alone
  <2>3. Owed(u) => Owed(u)'
    BY <1>3, <2>2, Frame DEF Owed
  <2>4. Ran(u) => Ran(u)'
    BY <2>2 DEF Ran, Current
  <2> QED
    BY <2>1, <2>3, <2>4
<1> QED
  BY <1>2, <1>3

LEMMA JobBookStep ==
  ASSUME Typed, DiskBook, Booked, KnownBook, JobsRest, JobBook, [Next]_vars
  PROVE  JobBook'
<1>a. TypeOK /\ Stage /\ HookBook /\ RestartBook /\ view \in Views
  BY DEF Typed, Booked, TypeOK
<1> SUFFICES ASSUME Activating', ~MistakesTimers(sha)', ("status" \notin Faults[sha])'
             PROVE  JobBook'
  BY DEF JobBook
<1> USE <1>a DEF host, state, work
<1>0. ASSUME UNCHANGED sha
      PROVE  ~MistakesTimers(sha) /\ "status" \notin Faults[sha]
  BY <1>0 DEF MistakesTimers
<1>1. ASSUME UNCHANGED <<disk, view, restarted, broken, want, managed, sha>>, Activating,
             \A u : Owed(u) => Owed(u)'
      PROVE  JobBook'
  BY <1>0, <1>1, Frame DEF JobBook, Alone, Unscheduled, Ran, Current
<1>2. CASE UNCHANGED vars
  BY <1>1, <1>2, Frame DEF vars, Owed, Activating
<1>3. CASE Built
  <2>1. UNCHANGED <<want, managed, disk>>
    BY <1>3 DEF Built
  <2> QED
    BY <1>3, <2>1, AllJobsOwed, Frame DEF JobBook, Alone, Unscheduled
<1>4. CASE ActivateRaw
  <2>1. /\ pc = "activate" /\ todo' \subseteq todo
        /\ UNCHANGED <<disk, want, managed, sha, pc, restarts, restarted, broken>>
    BY <1>4 DEF ActivateRaw
  <2> SUFFICES ASSUME NEW u \in ChangedUnits \cup BuildConsumers, Alone(u)
               PROVE  Owed(u)'
    BY <2>1, Frame DEF JobBook, Alone, Unscheduled
  <2>2. u \notin restarted /\ u \notin broken /\ u \notin todo
    BY <2>1, TriggeredType DEF RestartBook, Stage, Alone, Builds, Raw
  <2>3. Owed(u)
    BY <1>0, <2>1, <2>2 DEF JobBook, Activating, Ran
  <2> QED
    BY <2>1, <2>2, <2>3, Frame DEF Owed
<1>5. CASE Activated \/ RestartsDone \/ Consumed
  <2>1. /\ UNCHANGED <<disk, view, restarted, broken, want, managed, sha, restarts>>
        /\ todo = {}
        /\ \/ pc = "activate" /\ pc' = "restart" /\ todo' = restarts
           \/ pc = "restart" /\ pc' = "consume" /\ todo' = BuildConsumers
           \/ pc = "consume" /\ pc' = "save"
    BY <1>5 DEF Activated, RestartsDone, Consumed
  <2>2. \A u : Owed(u) => Owed(u)'
    BY <2>1, Frame DEF Owed
  <2> QED
    BY <1>1, <2>1, <2>2 DEF Activating
<1>6. CASE Restart
  <2> PICK v \in todo : todo' = todo \ {v} /\ RestartChangedUnit(v)
    BY <1>6 DEF Restart
  <2>1. /\ UNCHANGED <<disk, managed, want, sha, pc>> /\ pc = "restart"
        /\ v \in Units /\ Known
    BY <1>6 DEF Restart, Stage, TypeOK, KnownBook, MistakesTimers
  <2>2. \A u \in Units : u # v /\ Member[u] = NoUnit => view'[u] = view[u]
    BY <2>1, SparesOthers DEF RestartChangedUnit, Defer, LeaveAlone, RestartUnit
  <2>3. restarted \subseteq restarted' /\ broken \subseteq broken'
    BY DEF RestartChangedUnit, Defer, LeaveAlone, RestartUnit
  <2>4. ASSUME Alone(v) PROVE v \in broken' \/ (v \in restarted' /\ Current(v)')
    <3>1. ~LeftToTimer(v) /\ ~StatusUnknown(v) /\ ~Deferred(v)
      BY <1>0, <2>1, <2>4, UnscheduledKnown, FleetAssumption
      DEF LeftToTimer, StatusUnknown, Fault, Deferred, Alone
    <3>2. RestartUnit(v)
      BY <3>1 DEF RestartChangedUnit, Defer
    <3> QED
      BY <2>1, <3>2, RanNow DEF RestartUnit
  <2> QED
    BY <1>0, <2>1, <2>2, <2>3, <2>4, JobsPaid
<1>7. CASE Consume
  <2> PICK v \in todo : todo' = todo \ {v} /\ RestartConsumer(v)
    BY <1>7 DEF Consume
  <2>1. /\ UNCHANGED <<disk, managed, want, sha, pc>> /\ pc = "consume"
        /\ v \in Units /\ Known
    BY <1>7, TriggeredType DEF Consume, Stage, KnownBook, MistakesTimers
  <2>2. \A u \in Units : u # v /\ Member[u] = NoUnit => view'[u] = view[u]
    BY <2>1, SparesOthers DEF RestartConsumer, Defer, LeaveAlone, RestartUnit
  <2>3. restarted \subseteq restarted' /\ broken \subseteq broken'
    BY DEF RestartConsumer, Defer, LeaveAlone, RestartUnit
  <2>4. ASSUME Alone(v) PROVE v \in broken' \/ (v \in restarted' /\ Current(v)')
    <3>1. ~ExternallyActivated(v) /\ ~Deferred(v) /\ run[v] # "active"
      BY <2>1, <2>4, UnscheduledKnown, FleetAssumption
      DEF ExternallyActivated, Deferred, Alone, JobsRest
    <3>2. v \in broken' \/ RestartUnit(v)
      BY <3>1 DEF RestartConsumer, Defer
    <3> QED
      BY <2>1, <3>2, RanNow DEF RestartUnit
  <2> QED
    BY <1>0, <2>1, <2>2, <2>3, <2>4, JobsPaid
<1>8. CASE SelfOp
  <2>1. /\ UNCHANGED <<disk, view, pc, todo, restarts>> /\ pc = "save"
        /\ UNCHANGED <<restarted, broken, want, managed, sha>>
    BY <1>8 DEF SelfOp, SelfOpsScheduled, Activating
  <2> QED
    BY <1>1, <2>1 DEF Activating, Owed
<1> QED
  BY <1>2, <1>3, <1>4, <1>5, <1>6, <1>7, <1>8
  DEF Next, Apply, Begin, Write, WriteFails, WritesDone, RunHook, DaemonReload,
      DaemonReloadFails, Build, BuildFails, Save, RetryRestart, RetryDone, RollBack,
      Dies, JobFails, Health, Activating

LEMMA JobInit == Init => KnownBook /\ RetryBook /\ JobsRest /\ JobBook
BY DEF Init, Deployed, KnownBook, Known, RetryBook, JobsRest, JobBook, Activating,
       Daemon

\* No apply and no health pass starts a job that a deployed timer fires, by
\* whichever commit that timer came; and when an apply is saved every changed job,
\* and every one whose image was built again, that neither a pod nor a timer of the
\* Host starts, ran with what is deployed, or is on record as broken
\* (skipTimerTriggeredRestart, restartConsumer, restartableByHealth); as long as
\* neither this commit nor one before it had a rollback whose daemon-reload fails.
THEOREM JobsAlwaysAsScheduled ==
  ASSUME TimersKnownBefore
  PROVE  Spec => JobsAsScheduled
<1> DEFINE IInv == /\ Typed /\ DiskBook /\ Booked /\ KnownBook /\ RetryBook
                   /\ JobsRest /\ JobBook
<1>1. Init => IInv
  BY TypeInit, StageInit, DiskBookInit, BookedInit, JobInit DEF Typed
<1>2. IInv /\ [Next]_vars => IInv'
  BY TypeStep, StageStep, DiskBookStep, HookBookStep, RestartBookStep, KnownBookStep,
     RetryBookStep, JobsRestStep, JobBookStep
  DEF Typed, Booked
<1>3. IInv /\ [Next]_vars =>
        [\A u \in Units :
           /\ Kind[u] = "job" /\ disk'[u] # Absent /\ ~Asked(u)
           /\ Scheduled(u) /\ ~MistakesTimers(sha)
           => view'[u] = view[u]]_vars
  BY JobLeft
<1>4. IInv =>
        (pc = "save" /\ ~MistakesTimers(sha) /\ "status" \notin Faults[sha] =>
           \A u \in (ChangedUnits \cup BuildConsumers) \ broken :
             Kind[u] = "job" /\ Member[u] = NoUnit /\ Unscheduled(u) =>
               u \in restarted /\ Current(u))
  BY TriggeredType DEF JobBook, Alone, Activating, Owed, Ran
<1> QED
  BY <1>1, <1>2, <1>3, <1>4, PTL DEF Spec, JobsAsScheduled, LeftToTimers, RunOtherwise
=============================================================================
