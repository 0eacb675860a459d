-------------------------- MODULE SelfConfigProofs --------------------------
(* The self-restart guard, for any units, configs, commits and faults: no   *)
(* Agent runs with a config that contradicts itself, the lines only the     *)
(* Host may change never change, and the guard refuses no config it must    *)
(* take.                                                                    *)
EXTENDS SelfConfig, FiniteSetTheorems, TLAPS

\* What SelfConfig starts an Agent with: a config that loads.
Loaded ==
  /\ DOMAIN run = {"unit", "cfg", "secrets", "images", "scratch"}
  /\ run.cfg # Absent => Load(Config(run.cfg))

----------------------------------------------------------------------------
(* A config that loads is sound. *)

LEMMA ThreeAreFinite ==
  ASSUME NEW x, NEW y, NEW z
  PROVE  IsFiniteSet({x, y, z})
<1>1. IsFiniteSet({x}) /\ IsFiniteSet({y}) /\ IsFiniteSet({z})
  BY FS_Singleton
<1>2. IsFiniteSet({x} \cup {y})
  BY <1>1, FS_Union
<1>3. IsFiniteSet(({x} \cup {y}) \cup {z})
  BY <1>1, <1>2, FS_Union
<1>4. {x, y, z} = ({x} \cup {y}) \cup {z}
  OBVIOUS
<1> QED
  BY <1>3, <1>4

\* At most one way to log in to git, and a complete one (Validate).
LEMMA LoadedLogin ==
  ASSUME NEW c, Load(c)
  PROVE  /\ Cardinality(GitTokens \cap c.set) + Cardinality(AppModes(c)) <= 1
         /\ \A m \in AppModes(c) : m \subseteq c.set
<1>1. ValidGitTokens(c) /\ ValidGitHubApp(c)
  BY DEF Load, Parse, Validate
<1>2. IsFiniteSet(GitTokens \cap c.set) /\ IsFiniteSet(AppModes(c))
  <2>1. IsFiniteSet(GitTokens) /\ IsFiniteSet({Direct, OpRefs, PpRefs})
    BY ThreeAreFinite DEF GitTokens
  <2> QED
    BY <2>1, FS_Subset DEF AppModes
<1>3. Cardinality(GitTokens \cap c.set) \in Nat /\ Cardinality(AppModes(c)) \in Nat
  BY <1>2, FS_CardinalityType
<1>4. CASE AppModes(c) = {}
  BY <1>1, <1>3, <1>4, FS_EmptySet DEF ValidGitTokens
<1>5. CASE AppModes(c) # {}
  <2>1. Cardinality(AppModes(c)) = 1 /\ HasGitHubApp(c) /\ GitTokens \cap c.set = {}
    BY <1>1, <1>5 DEF ValidGitHubApp
  <2>2. PICK m \in {Direct, OpRefs, PpRefs} : m \subseteq c.set
    BY <2>1 DEF HasGitHubApp
  <2>3. m \in AppModes(c)
    BY <2>2 DEF AppModes, Direct, OpRefs, PpRefs
  <2>4. PICK x : AppModes(c) = {x}
    BY <1>2, <2>1, FS_Singleton
  <2>5. \A n \in AppModes(c) : n = m
    BY <2>3, <2>4
  <2> QED
    BY <2>1, <2>2, <2>5, FS_EmptySet
<1> QED
  BY <1>4, <1>5

\* What a client dials reaches the server, at a port that exists.
LEMMA LoadedListens ==
  ASSUME NEW c, Load(c)
  PROVE  /\ DialHost(c) \in Accepts(ListenHost(c))
         /\ ListenPort(c) \in Ports
         /\ c.metrics \in {UnsetPort, ListenPort(c)}
<1>1. ValidListenAddr(c)
  BY DEF Load, Parse, Validate
<1>2. DialHost(c) \in Accepts(ListenHost(c))
  BY DEF DialHost, Accepts
<1>3. CASE c.port = NoPort
  <2>1. c.metrics \in Ports \cup {UnsetPort} /\ ListenPort(c) = MetricsPort(c)
    BY <1>1, <1>3 DEF ValidListenAddr, ListenPort
  <2>2. DefaultPort \in Ports
    BY SMT DEF DefaultPort, Ports
  <2> QED
    BY <1>2, <2>1, <2>2 DEF MetricsPort
<1>4. CASE c.port # NoPort
  <2>1. c.port \in Ports /\ c.metrics \in {UnsetPort, c.port} /\ ListenPort(c) = c.port
    BY <1>1, <1>4 DEF ValidListenAddr, ListenPort
  <2> QED
    BY <1>2, <2>1
<1> QED
  BY <1>3, <1>4

\* No two settings name one file, or a file in the other's directory.
LEMMA LoadedApart ==
  ASSUME NEW c, Load(c), NEW s \in Credentials(c), NEW t \in Credentials(c), s # t
  PROVE  /\ PathOf(c, s) # PathOf(c, t)
         /\ IsDir(s) => ~Under(PathOf(c, t), PathOf(c, s))
BY DEF Load, DistinctCredentials, Overlap

----------------------------------------------------------------------------
(* Loaded is an invariant. *)

\* A container whose Agent can start has a config that loads.
LEMMA ContainerLoads ==
  CanStart(loaded, disk)
    => /\ DOMAIN Container = {"unit", "cfg", "secrets", "images", "scratch"}
       /\ Container.cfg # Absent => Load(Config(Container.cfg))
BY DEF Container, CanStart, Starts

LEMMA NoRunLoads ==
  /\ DOMAIN NoRun = {"unit", "cfg", "secrets", "images", "scratch"}
  /\ NoRun.cfg = Absent
BY DEF NoRun

LEMMA LoadedInit == Init => Loaded
BY ContainerLoads DEF Init, Loaded

LEMMA LoadedNext == Loaded /\ [Next]_vars => Loaded'
<1> SUFFICES ASSUME Loaded, [Next]_vars PROVE Loaded'
  OBVIOUS
<1>1. CASE run' = run
  BY <1>1 DEF Loaded
<1>2. CASE run' = NoRun
  BY <1>2, NoRunLoads DEF Loaded
<1>3. CASE Starting
  <2>1. CanStart(loaded, disk) /\ run' = Container
    BY <1>3 DEF Starting
  <2> QED
    BY <2>1, ContainerLoads DEF Loaded
<1>4. CASE WriteInside
  <2>1. PICK p \in Paths \ run.scratch : run' = [run EXCEPT !.scratch = @ \cup {p}]
    BY <1>4 DEF WriteInside
  <2>2. DOMAIN run' = DOMAIN run /\ run'.cfg = run.cfg
    BY <2>1 DEF Loaded
  <2> QED
    BY <2>2 DEF Loaded
<1>5. CASE Tick \/ WriteNext \/ Finish
  BY <1>1, <1>2, <1>5 DEF Tick, WriteNext, Finish
<1>6. CASE Fails \/ Ends \/ Exits
  BY <1>1, <1>2, <1>6 DEF Fails, Ends, Exits
<1>7. CASE Push \/ Deliver \/ Repull \/ EditUnit
  BY <1>1, <1>2, <1>7 DEF Push, Deliver, Repull, EditUnit
<1>8. CASE UNCHANGED vars
  BY <1>1, <1>8 DEF vars
<1> QED
  BY <1>3, <1>4, <1>5, <1>6, <1>7, <1>8 DEF Next, Reconciles

\* No Agent ever runs with a config that names two ways to log in to git, an
\* address its own clients do not reach, or one file for two credentials: the
\* checks of a loaded config (Config.Validate, rejectSharedCredential) suffice
\* whatever the Fleet renders and whenever the Agent starts.
THEOREM RunningConfigSoundAlways == Spec => []RunningConfigSound
<1>1. Init => Loaded
  BY LoadedInit
<1>2. Loaded /\ [Next]_vars => Loaded'
  BY LoadedNext
<1>3. Loaded => RunningConfigSound
  <2> SUFFICES ASSUME Loaded PROVE RunningConfigSound
    OBVIOUS
  <2>1. Running => Load(RunCfg)
    BY DEF Loaded, Running, RunCfg
  <2>2. OneGitLogin
    BY <2>1, LoadedLogin DEF OneGitLogin
  <2>3. ServerReachable
    BY <2>1, LoadedListens DEF ServerReachable
  <2>4. CredentialsApart
    BY <2>1, LoadedApart DEF CredentialsApart
  <2> QED
    BY <2>2, <2>3, <2>4 DEF RunningConfigSound
<1> QED
  BY <1>1, <1>2, <1>3, PTL DEF Spec

----------------------------------------------------------------------------
(* Types. *)

Fields == {"unit", "cfg", "secrets", "images", "scratch"}

\* An apply is what an Agent that is up does, and a container has a unit.
Typed ==
  /\ TypeOK /\ scenario \in DOMAIN Scenarios
  /\ head \in Scenarios[scenario].commits
  /\ faults <= Scenarios[scenario].faults
  /\ \A d \in UnitFiles : record[d] \in Units \cup {Absent}
  /\ agent # "up" => target = Absent
  /\ DOMAIN run = Fields /\ (run # NoRun => run.unit # Absent)

LEMMA Commits ==
  ASSUME Typed, NEW c \in Scenarios[scenario].commits
  PROVE  /\ c # Absent /\ DOMAIN c.files = Dests
         /\ \A d \in UnitFiles : c.files[d] \in DOMAIN Unit \cup {Absent}
BY SelfConfigAssumption DEF Typed

LEMMA ContainerTyped ==
  ASSUME loaded # Absent
  PROVE  DOMAIN Container = Fields /\ Container.unit # Absent /\ Container # NoRun
<1>1. DOMAIN Container = Fields /\ Container.unit # Absent
  BY DEF Container, Fields
<1>2. NoRun.unit = Absent
  BY DEF NoRun
<1> QED
  BY <1>1, <1>2

LEMMA NoRunTyped == DOMAIN NoRun = Fields /\ NoRun.unit = Absent
BY DEF NoRun, Fields

LEMMA Budgets ==
  ASSUME scenario \in DOMAIN Scenarios
  PROVE  /\ Scenarios[scenario].events \in 0..MaxEvents
         /\ Scenarios[scenario].faults \in 0..MaxFaults
         /\ Scenarios[scenario].given \cup Scenarios[scenario].places \subseteq Places
BY SelfConfigAssumption

LEMMA InitTyped == Init => Typed
<1> SUFFICES ASSUME Init PROVE Typed
  OBVIOUS
<1> DEFINE x == Scenarios[scenario]
<1>1. scenario \in DOMAIN Scenarios /\ head \in x.commits
  BY SelfConfigAssumption DEF Init
<1>2. /\ x.given \cup x.places \subseteq Places
      /\ x.events \in 0..MaxEvents /\ x.faults \in 0..MaxFaults
      /\ head # Absent /\ DOMAIN head.files = Dests
      /\ \A d \in UnitFiles : head.files[d] \in Units \cup {Absent}
  BY <1>1, SelfConfigAssumption DEF Units
<1>3. CanStart(loaded, disk) /\ run = Container
  BY DEF Init
<1>4. DOMAIN run = Fields /\ run.unit # Absent /\ run # NoRun
  BY <1>3, ContainerTyped DEF CanStart
<1>5. {head, target} \subseteq x.commits \cup {Absent}
  BY <1>1 DEF Init
<1>6. /\ MaxFaults \in Nat /\ faults = x.faults /\ events = x.events
      /\ agent = "up" /\ target = Absent /\ applying = {} /\ restart = FALSE
      /\ disk = head.files /\ record = disk
      /\ stored \in {x.given, x.places}
  BY SelfConfigAssumption DEF Init
<1> HIDE DEF x
<1>7. TypeOK
  BY <1>2, <1>4, <1>5, <1>6 DEF TypeOK, x
<1> QED
  BY <1>1, <1>2, <1>4, <1>6, <1>7 DEF Typed, x

LEMMA NextTyped == Typed /\ [Next]_vars => Typed'
<1> SUFFICES ASSUME Typed, [Next]_vars PROVE Typed'
  OBVIOUS
<1> USE DEF Typed, TypeOK, fleetVars, hostVars, applyVars
<1>0. head # Absent /\ MaxEvents \in Nat /\ MaxFaults \in Nat
  BY Commits, SelfConfigAssumption
<1>1. CASE Tick
  <2>1. Changed(head) \subseteq Dests /\ Restarts(head) \in BOOLEAN
    BY DEF Changed, Restarts
  <2> QED
    BY <1>0, <1>1, <2>1 DEF Tick, Idle
<1>2. CASE WriteNext
  <2>1. PICK d \in applying : /\ disk' = [disk EXCEPT ![d] = target.files[d]]
                              /\ applying' = applying \ {d}
    BY <1>2 DEF WriteNext
  <2> QED
    BY <1>2, <2>1 DEF WriteNext
<1>3. CASE Finish
  <2>1. /\ DOMAIN record' = Dests
        /\ \A d \in UnitFiles : record'[d] \in Units \cup {Absent}
    BY <1>3, Commits DEF Finish, Units
  <2> QED
    BY <1>3, <2>1, NoRunTyped DEF Finish
<1>4. CASE Fails
  <2>1. faults' \in 0..MaxFaults /\ faults' <= Scenarios[scenario].faults
    BY <1>0, <1>4, Budgets DEF Fails
  <2>2. DOMAIN disk' = Dests
    BY <1>4 DEF Fails
  <2> QED
    BY <1>4, <2>1, <2>2 DEF Fails
<1>5. CASE Ends
  <2>1. faults' \in 0..MaxFaults /\ faults' <= Scenarios[scenario].faults
    BY <1>0, <1>5, Budgets DEF Ends
  <2> QED
    BY <1>5, <2>1, NoRunTyped DEF Ends
<1>6. CASE Starting
  BY <1>6, ContainerTyped DEF Starting, CanStart
<1>7. CASE Exits
  BY <1>7 DEF Exits
<1>8. CASE Push \/ Deliver
  <2>1. events' \in 0..MaxEvents
    BY <1>0, <1>8 DEF Push, Deliver, Event
  <2>2. Scenarios[scenario].places \subseteq Places
    BY SelfConfigAssumption
  <2> QED
    BY <1>8, <2>1, <2>2 DEF Push, Deliver
<1>9. CASE WriteInside
  <2>1. events' \in 0..MaxEvents
    BY <1>0, <1>9 DEF WriteInside, Event
  <2>2. PICK p \in Paths \ run.scratch : run' = [run EXCEPT !.scratch = @ \cup {p}]
    BY <1>9 DEF WriteInside
  <2>3. DOMAIN run' = Fields /\ run'.unit = run.unit /\ run # NoRun
    BY <1>9, <2>2 DEF Fields, WriteInside
  <2>4. run' # NoRun
    BY <2>3, NoRunTyped
  <2> QED
    BY <1>9, <2>1, <2>3, <2>4 DEF WriteInside
<1>10. CASE Repull
  <2>1. events' \in 0..MaxEvents
    BY <1>0, <1>10 DEF Repull, Event
  <2> QED
    BY <1>10, <2>1 DEF Repull
<1>11. CASE EditUnit
  <2>1. events' \in 0..MaxEvents
    BY <1>0, <1>11 DEF EditUnit, Event
  <2>2. DOMAIN disk' = Dests
    BY <1>11 DEF EditUnit
  <2> QED
    BY <1>11, <2>1, <2>2, NoRunTyped DEF EditUnit, Idle
<1>12. CASE UNCHANGED vars
  BY <1>12 DEF vars
<1> QED
  BY <1>1, <1>2, <1>3, <1>4, <1>5, <1>6, <1>7, <1>8, <1>9, <1>10, <1>11, <1>12
  DEF Next, Reconciles

\* Every variable keeps its type: an apply under way belongs to an Agent that is
\* up, and an Agent that is up to a container.
THEOREM TypeCorrect == Spec => []TypeOK
<1>1. Typed => TypeOK
  BY DEF Typed
<1> QED
  BY <1>1, InitTyped, NextTyped, PTL DEF Spec

----------------------------------------------------------------------------
(* The Agent's unit is the one the guard has compared. *)

Edits == Scenarios[scenario].edits

\* The Agent's service is a quadlet of the state file.
Own(q) == /\ q \in Quadlets /\ record[q] # Absent /\ OldService(q) = Service
          /\ ServiceFiles(record) = {q}

\* A unit file is as the state file says, or as the Operator edited it.
Recorded(files, d) ==
  \/ files[d] = record[d]
  \/ record[d] # Absent /\ OldService(d) = Service /\ files[d] \in Edits

AsRecorded(files) == \A d \in UnitFiles : Recorded(files, d)

\* A unit file is that, or as the commit being applied has it.
Mixed(files, c) == \A d \in UnitFiles : Recorded(files, d) \/ files[d] = c.files[d]

AllAre(files, f) == \A d \in ServiceFiles(files) : Frozen(files[d]) = f

\* The guard let commit c through while the Agent's unit had the frozen lines f.
Fits(c, f) ==
  IF AgentQuadlets(c) = {}
  THEN ServiceFiles(c.files) = {}
  ELSE /\ OneAgentService(c)
       /\ Writes(c, AgentQuadlet(c)) => Frozen(c.files[AgentQuadlet(c)]) = f

Underway(f) ==
  /\ Fits(target, f) /\ applying \subseteq Changed(target)
  /\ Mixed(disk, target) /\ Mixed(before, target) /\ AllAre(before, f)
  /\ Uncut => AsRecorded(before)
  /\ \A d \in Changed(target) \ applying : disk[d] = target.files[d]

Resting(f) == \/ AsRecorded(disk)
              \/ ~Uncut /\ Fits(head, f) /\ Mixed(disk, head)

FrozenAs(f) ==
  /\ loaded # Absent => Frozen(loaded) = f
  /\ AllAre(disk, f)
  /\ IF target = Absent THEN Resting(f) ELSE Underway(f)

\* The state file has the Agent's quadlet, until a commit gives the Agent up.
Managed == \/ \E q \in Quadlets : Own(q)
           \/ agent = "gone" /\ ServiceFiles(record) = {}

UnitKept == Managed /\ \E u \in DOMAIN Unit : FrozenAs(Frozen(u))

\* A commit that unassigns the Agent's bundle, and has no quadlet of its service,
\* has no other unit file of it either: the guard does not check such a commit.
NoOtherService ==
  \A s \in DOMAIN Scenarios : \A c \in Scenarios[s].commits :
    AgentQuadlets(c) = {} /\ ~c.bundled => ServiceFiles(c.files) = {}

LEMMA TheAgentQuadlet ==
  ASSUME NEW c, AgentQuadlets(c) # {}
  PROVE  /\ AgentQuadlet(c) \in Quadlets /\ c.files[AgentQuadlet(c)] # Absent
         /\ Unit[c.files[AgentQuadlet(c)]].service = Service
BY DEF AgentQuadlet, AgentQuadlets

\* One file of a commit is the Agent's service.
LEMMA TheServiceFile ==
  ASSUME NEW c, AgentQuadlets(c) # {}, OneAgentService(c)
  PROVE  ServiceFiles(c.files) = {AgentQuadlet(c)}
BY TheAgentQuadlet DEF OneAgentService, ServiceFiles, IsService, UnitFiles

\* A unit file that is written, and is the service, has the frozen lines.
LEMMA WrittenFits ==
  ASSUME NEW c, NEW f, Fits(c, f), NEW d \in ServiceFiles(c.files),
         d \in Changed(c)
  PROVE  Frozen(c.files[d]) = f
<1>1. AgentQuadlets(c) # {} /\ OneAgentService(c)
  BY DEF Fits
<1>2. d = AgentQuadlet(c)
  BY <1>1, TheServiceFile
<1> QED
  BY <1>1, <1>2, TheAgentQuadlet DEF Fits, Writes, Changed

LEMMA OwnRecorded ==
  ASSUME Typed, NEW q, Own(q), NEW files, NEW d \in UnitFiles, Recorded(files, d)
  PROVE  /\ d \in ServiceFiles(files) <=> d = q
         /\ files[d] = record[d] \/ (d = q /\ files[d] \in Edits)
<1>1. \A u \in Edits : u # Absent /\ IsService(u)
  BY SelfConfigAssumption DEF Typed, Edits, IsService
<1>2. d \in ServiceFiles(record) <=> d = q
  BY DEF Own
<1>3. record[d] # Absent /\ OldService(d) = Service => d = q
  BY <1>2 DEF OldService, ServiceFiles, IsService
<1> QED
  BY <1>1, <1>2, <1>3 DEF Recorded, ServiceFiles

LEMMA OwnFiles ==
  ASSUME Typed, NEW q, Own(q), NEW files, AsRecorded(files)
  PROVE  ServiceFiles(files) = {q} /\ files[q] # Absent
<1>1. \A d \in UnitFiles : d \in ServiceFiles(files) <=> d = q
  BY OwnRecorded DEF AsRecorded
<1>2. q \in UnitFiles
  BY DEF Own, UnitFiles
<1>3. \A d \in ServiceFiles(files) : d \in UnitFiles /\ files[d] # Absent
  BY DEF ServiceFiles
<1> QED
  BY <1>1, <1>2, <1>3

\* What a reload loads is one of the files that are the service.
LEMMA Reloaded ==
  ASSUME NEW files, NEW f, AllAre(files, f), Reload(files)
  PROVE  /\ loaded' # Absent => Frozen(loaded') = f
         /\ StartsFrom(files) = {} <=> loaded' = Absent
<1>1. \A d \in StartsFrom(files) : d \in ServiceFiles(files) /\ files[d] # Absent
  BY DEF StartsFrom, ServiceFiles
<1>2. CASE StartsFrom(files) = {}
  BY <1>2 DEF Reload
<1>3. CASE StartsFrom(files) # {}
  <2>1. PICK d \in StartsFrom(files) : loaded' = files[d]
    BY <1>3 DEF Reload
  <2> QED
    BY <1>1, <1>3, <2>1 DEF AllAre
<1> QED
  BY <1>2, <1>3

\* What the loaded unit, the files and the commits are judged by stays.
LEMMA StillFrozen ==
  ASSUME NEW f, Managed, FrozenAs(f), UNCHANGED <<record, disk, loaded>>,
         UNCHANGED <<applying, target, before, head, scenario>>, faults' = faults,
         agent' = agent \/ agent # "gone"
  PROVE  Managed' /\ FrozenAs(f)'
<1>1. Managed'
  BY DEF Managed, Own, OldService, ServiceFiles, IsService
<1>2. Uncut' <=> Uncut
  BY DEF Uncut
<1>3. AllAre(disk, f)' /\ (loaded' # Absent => Frozen(loaded') = f)
  BY DEF FrozenAs, AllAre, ServiceFiles, IsService, Frozen
<1>4. ASSUME target = Absent PROVE Resting(f)'
  BY <1>2, <1>4
  DEF FrozenAs, Resting, AsRecorded, Mixed, Recorded, OldService, Edits, Fits,
      AgentQuadlets, AgentQuadlet, OneAgentService, ServiceFiles, IsService,
      Writes, Frozen
<1>5. ASSUME target # Absent PROVE Underway(f)'
  BY <1>2, <1>5
  DEF FrozenAs, Underway, AsRecorded, Mixed, Recorded, OldService, Edits, Fits,
      AgentQuadlets, AgentQuadlet, OneAgentService, ServiceFiles, IsService,
      Writes, Frozen, Changed, AllAre
<1> QED
  BY <1>1, <1>3, <1>4, <1>5 DEF FrozenAs

\* An idle Agent's files are recorded, or an apply of this very commit was cut
\* short: either way the guard compares the commit with what is loaded.
LEMMA TickFrozen ==
  ASSUME Typed, NoOtherService, NEW f, Managed, FrozenAs(f), Tick
  PROVE  Managed' /\ FrozenAs(f)'
<1> USE DEF fleetVars, hostVars
<1>1. /\ agent = "up" /\ target = Absent /\ Allows(head) /\ target' = head
      /\ before' = disk /\ applying' = Changed(head) /\ head # Absent
      /\ UNCHANGED <<record, disk, loaded, head, scenario, faults, agent>>
  BY Commits DEF Tick, Idle, Typed
<1>2. PICK q \in Quadlets : Own(q)
  BY <1>1 DEF Managed
<1>3. Resting(f) /\ AllAre(disk, f) /\ (loaded # Absent => Frozen(loaded) = f)
  BY <1>1 DEF FrozenAs
<1>4. Fits(head, f)
  <2>1. CASE AgentQuadlets(head) = {}
    <3>1. ~head.bundled
      <4>1. ~Writes(head, q) /\ (Deletes(head, q) => ~head.bundled)
        BY <1>1, <1>2, <2>1 DEF Allows, AgentServiceKept, Own
      <4>2. head.files[q] # record[q]
        BY <1>2, <2>1 DEF Own, OldService, AgentQuadlets
      <4> QED
        BY <4>1, <4>2 DEF Writes, Deletes
    <3> QED
      BY <2>1, <3>1 DEF Fits, NoOtherService, Typed
  <2>2. CASE AgentQuadlets(head) # {} /\ AsRecorded(disk)
    <3> DEFINE a == AgentQuadlet(head)
    <3>1. OneAgentService(head)
          /\ (Writes(head, a) /\ RunningUnit(head) # Absent
                => Frozen(head.files[a]) = Frozen(RunningUnit(head)))
      BY <1>1, <2>2 DEF Allows, GuardAllows, NextUnit
    <3>2. q \in ServiceFiles(disk) /\ disk[q] # Absent
      BY <1>2, <2>2, OwnFiles
    <3>3. {d \in Quadlets : OldService(d) = Service /\ disk[d] # Absent} = {q}
      <4>1. ASSUME NEW d \in Quadlets, OldService(d) = Service PROVE d = q
        BY <1>2, <4>1, SelfConfigAssumption
        DEF Own, OldService, ServiceFiles, IsService, UnitFiles
      <4> QED
        BY <1>2, <3>2, <4>1 DEF Own
    <3>4. RunningUnit(head) = disk[q]
      BY <3>3 DEF RunningUnit
    <3>5. Frozen(disk[q]) = f
      BY <1>3, <3>2 DEF AllAre
    <3> QED
      BY <2>2, <3>1, <3>2, <3>4, <3>5 DEF Fits
  <2> QED
    BY <1>3, <2>1, <2>2 DEF Resting
<1>5. Mixed(disk, head) /\ (Uncut => AsRecorded(disk))
  BY <1>3 DEF Resting, Mixed, AsRecorded
<1>6. Managed' /\ AllAre(disk, f)' /\ (loaded' # Absent => Frozen(loaded') = f)
  BY <1>1, <1>2, <1>3
  DEF Managed, Own, OldService, AllAre, ServiceFiles, IsService, Frozen
<1>7. Underway(f)'
  <2>1. Fits(target, f)' /\ Changed(target)' = Changed(head)
    BY <1>1, <1>4
    DEF Fits, AgentQuadlets, AgentQuadlet, OneAgentService, ServiceFiles,
        IsService, Writes, Frozen, Changed
  <2>2. Mixed(disk, target)' /\ Mixed(before, target)' /\ AllAre(before, f)'
        /\ (Uncut' => AsRecorded(before)')
    BY <1>1, <1>3, <1>5
    DEF Mixed, AsRecorded, Recorded, OldService, Edits, AllAre, ServiceFiles,
        IsService, Frozen, Uncut
  <2> QED
    BY <1>1, <2>1, <2>2 DEF Underway
<1> QED
  BY <1>1, <1>6, <1>7 DEF FrozenAs

LEMMA WriteFrozen ==
  ASSUME Typed, NEW f, Managed, FrozenAs(f), WriteNext
  PROVE  Managed' /\ FrozenAs(f)'
<1> USE DEF fleetVars, hostVars
<1>1. PICK d \in applying : /\ disk' = [disk EXCEPT ![d] = target.files[d]]
                            /\ applying' = applying \ {d}
  BY DEF WriteNext
<1>2. /\ target # Absent /\ DOMAIN disk = Dests
      /\ UNCHANGED <<record, loaded, head, scenario, faults, agent, target, before>>
  BY <1>1 DEF WriteNext, Typed, TypeOK
<1>3. Underway(f) /\ d \in Changed(target) /\ d \in Dests
  BY <1>1, <1>2 DEF FrozenAs, Underway, Changed
<1>4. \A e \in Dests : disk'[e] = IF e = d THEN target.files[d] ELSE disk[e]
  BY <1>1, <1>2, <1>3
<1>5. UnitFiles \subseteq Dests
  BY DEF UnitFiles, Dests
<1>6. AllAre(disk, f)'
  <2> SUFFICES ASSUME NEW e \in ServiceFiles(disk') PROVE Frozen(disk'[e]) = f
    BY DEF AllAre, ServiceFiles, IsService, Frozen
  <2>1. CASE e = d
    <3>1. e \in ServiceFiles(target.files)
      BY <1>3, <1>4, <2>1 DEF ServiceFiles
    <3> QED
      BY <1>3, <1>4, <2>1, <3>1, WrittenFits DEF Underway
  <2>2. CASE e # d
    BY <1>4, <1>5, <2>2 DEF FrozenAs, AllAre, ServiceFiles
  <2> QED
    BY <2>1, <2>2
<1>7. Managed' /\ (loaded' # Absent => Frozen(loaded') = f)
  BY <1>2 DEF FrozenAs, Managed, Own, OldService, ServiceFiles, IsService, Frozen
<1>8. Underway(f)'
  <2>1. Fits(target, f)' /\ Changed(target)' = Changed(target)
    BY <1>2, <1>3
    DEF Underway, Fits, AgentQuadlets, AgentQuadlet, OneAgentService,
        ServiceFiles, IsService, Writes, Frozen, Changed
  <2>2. Mixed(before, target)' /\ AllAre(before, f)'
        /\ (Uncut' => AsRecorded(before)')
    BY <1>2, <1>3
    DEF Underway, Mixed, AsRecorded, Recorded, OldService, Edits, AllAre,
        ServiceFiles, IsService, Frozen, Uncut
  <2>3. Mixed(disk, target)'
    BY <1>2, <1>3, <1>4, <1>5
    DEF Underway, Mixed, Recorded, OldService, Edits
  <2>4. applying' \subseteq Changed(target)
        /\ \A e \in Changed(target) \ applying' : disk'[e] = target.files[e]
    BY <1>1, <1>3, <1>4 DEF Underway, Changed
  <2> QED
    BY <1>2, <2>1, <2>2, <2>3, <2>4 DEF Underway
<1> QED
  BY <1>2, <1>6, <1>7, <1>8 DEF FrozenAs

\* When all is written, what the state file says is what the commit says; an
\* edit stays where the commit changes nothing.
LEMMA FinishFrozen ==
  ASSUME Typed, NoOtherService, NEW f, Managed, FrozenAs(f), Finish
  PROVE  Managed' /\ FrozenAs(f)'
<1> USE DEF fleetVars, hostVars
<1>1. /\ target # Absent /\ applying = {} /\ record' = target.files
      /\ target' = Absent /\ Reload(disk)
      /\ UNCHANGED <<disk, head, scenario, faults>>
  BY DEF Finish
<1>2. Underway(f) /\ AllAre(disk, f)
  BY <1>1 DEF FrozenAs
<1>3. ASSUME NEW d \in UnitFiles
      PROVE  \/ disk[d] = target.files[d]
             \/ /\ record[d] = target.files[d] /\ record[d] # Absent
                /\ OldService(d) = Service /\ disk[d] \in Edits
  <2>1. d \in Dests
    BY DEF UnitFiles, Dests
  <2> QED
    BY <1>1, <1>2, <2>1 DEF Underway, Changed, Mixed, Recorded
<1>4. AsRecorded(disk)'
  BY <1>1, <1>3 DEF AsRecorded, Recorded, OldService, Edits
<1>5. AllAre(disk, f)' /\ (loaded' # Absent => Frozen(loaded') = f)
  <2>1. AllAre(disk, f)'
    BY <1>1, <1>2 DEF AllAre, ServiceFiles, IsService, Frozen
  <2> QED
    BY <1>1, <1>2, <2>1, Reloaded
<1>6. Managed'
  <2>1. CASE AgentQuadlets(target) # {}
    <3>1. ServiceFiles(target.files) = {AgentQuadlet(target)}
      BY <1>2, <2>1, TheServiceFile DEF Underway, Fits
    <3> QED
      BY <1>1, <2>1, <3>1, TheAgentQuadlet
      DEF Managed, Own, OldService, ServiceFiles, IsService
  <2>2. CASE AgentQuadlets(target) = {}
    <3>1. ServiceFiles(target.files) = {}
      BY <1>2, <2>2 DEF Underway, Fits
    <3>2. ServiceFiles(disk) = {}
      <4> SUFFICES ASSUME NEW d \in ServiceFiles(disk) PROVE FALSE
        OBVIOUS
      <4>1. d \in UnitFiles /\ disk[d] # Absent /\ IsService(disk[d])
        BY DEF ServiceFiles
      <4>2. CASE disk[d] = target.files[d]
        BY <3>1, <4>1, <4>2 DEF ServiceFiles
      <4>3. CASE record[d] = target.files[d] /\ record[d] # Absent
                 /\ OldService(d) = Service
        BY <3>1, <4>1, <4>3 DEF ServiceFiles, OldService, IsService
      <4> QED
        BY <1>3, <4>1, <4>2, <4>3
    <3>3. loaded' = Absent
      BY <1>1, <1>2, <3>2, Reloaded DEF StartsFrom
    <3>4. agent' = "gone"
      BY <3>3 DEF Finish
    <3> QED
      BY <1>1, <3>1, <3>4 DEF Managed, ServiceFiles, IsService
  <2> QED
    BY <2>1, <2>2
<1> QED
  BY <1>1, <1>4, <1>5, <1>6 DEF FrozenAs, Resting

\* A rollback puts back what the apply found; after one that a fault caused, no
\* apply is uncut any more.
LEMMA FailsFrozen ==
  ASSUME Typed, NEW f, Managed, FrozenAs(f), Fails
  PROVE  Managed' /\ FrozenAs(f)'
<1> USE DEF fleetVars, hostVars
<1>1. /\ target = head /\ target # Absent /\ target' = Absent /\ Reload(disk')
      /\ UNCHANGED <<record, head, scenario, agent>>
      /\ disk' = [d \in Dests |-> IF d \in Secrets THEN disk[d] ELSE before[d]]
  BY Commits DEF Fails, Typed
<1>2. Underway(f)
  BY <1>1 DEF FrozenAs
<1>3. \A d \in UnitFiles : disk'[d] = before[d]
  BY <1>1, SelfConfigAssumption DEF UnitFiles, Dests
<1>4. AllAre(disk', f) /\ AllAre(disk, f)'
  BY <1>2, <1>3 DEF Underway, AllAre, ServiceFiles, IsService, Frozen
<1>5. loaded' # Absent => Frozen(loaded') = f
  BY <1>1, <1>4, Reloaded
<1>6. Uncut' => Uncut
  BY <1>1 DEF Fails, Uncut, Typed, TypeOK
<1>7. Resting(f)'
  <2>1. CASE Uncut'
    BY <1>1, <1>2, <1>3, <1>6, <2>1
    DEF Underway, Resting, AsRecorded, Recorded, OldService, Edits
  <2>2. CASE ~Uncut'
    <3>1. Mixed(disk, head)'
      BY <1>1, <1>2, <1>3 DEF Underway, Mixed, Recorded, OldService, Edits
    <3>2. Fits(head, f)'
      BY <1>1, <1>2, ZenonT(60)
      DEF Underway, Fits, AgentQuadlets, AgentQuadlet, OneAgentService,
          ServiceFiles, IsService, Writes, Frozen
    <3> QED
      BY <2>2, <3>1, <3>2 DEF Resting
  <2> QED
    BY <2>1, <2>2
<1>8. Managed'
  BY <1>1 DEF Managed, Own, OldService, ServiceFiles, IsService
<1> QED
  BY <1>1, <1>4, <1>5, <1>7, <1>8 DEF FrozenAs

\* What an apply that is cut short leaves is a mixture with the Fleet's commit.
LEMMA EndsFrozen ==
  ASSUME Typed, NEW f, Managed, FrozenAs(f), Ends
  PROVE  Managed' /\ FrozenAs(f)'
<1> USE DEF fleetVars, hostVars
<1>1. /\ target \in {head, Absent} /\ target' = Absent
      /\ UNCHANGED <<record, disk, head, scenario>> /\ agent = "up"
      /\ loaded' = loaded \/ Reload(disk)
  BY DEF Ends
<1>2. ~Uncut'
  BY <1>1 DEF Ends, Uncut, Typed, TypeOK
<1>3. AllAre(disk, f) /\ AllAre(disk, f)'
  BY <1>1 DEF FrozenAs, AllAre, ServiceFiles, IsService, Frozen
<1>4. loaded' # Absent => Frozen(loaded') = f
  BY <1>1, <1>3, Reloaded DEF FrozenAs
<1>5. AsRecorded(disk) \/ (Fits(head, f) /\ Mixed(disk, head))
  BY <1>1 DEF FrozenAs, Resting, Underway
<1>6. Resting(f)'
  BY <1>1, <1>2, <1>5
  DEF Resting, AsRecorded, Mixed, Recorded, OldService, Edits, Fits,
      AgentQuadlets, AgentQuadlet, OneAgentService, ServiceFiles, IsService,
      Writes, Frozen
<1>7. Managed'
  BY <1>1 DEF Managed, Own, OldService, ServiceFiles, IsService
<1> QED
  BY <1>1, <1>3, <1>4, <1>6, <1>7 DEF FrozenAs

\* The start removes only files the state file does not know.
LEMMA StartingFrozen ==
  ASSUME Typed, NEW f, Managed, FrozenAs(f), Starting
  PROVE  Managed' /\ FrozenAs(f)'
<1> USE DEF fleetVars, hostVars, applyVars
<1>1. /\ target = Absent /\ target' = Absent /\ agent # "gone"
      /\ UNCHANGED <<record, loaded, head, scenario, faults>>
  BY DEF Starting, Typed
<1>2. PICK removed \in SUBSET {d \in Dests : disk[d] # Absent /\ record[d] = Absent} :
        disk' = [d \in Dests |-> IF d \in removed THEN Absent ELSE disk[d]]
  BY DEF Starting
<1>3. \A d \in UnitFiles : disk'[d] = disk[d] \/ (disk'[d] = Absent /\ record[d] = Absent)
  BY <1>2 DEF UnitFiles, Dests
<1>4. AllAre(disk, f)'
  BY <1>1, <1>3 DEF FrozenAs, AllAre, ServiceFiles, IsService, Frozen
<1>5. Resting(f)'
  <2>1. Resting(f)
    BY <1>1 DEF FrozenAs
  <2>2. AsRecorded(disk) => AsRecorded(disk)'
    BY <1>1, <1>3 DEF AsRecorded, Recorded, OldService, Edits
  <2>3. Mixed(disk, head) => Mixed(disk, head)'
    BY <1>1, <1>3 DEF Mixed, Recorded, OldService, Edits
  <2>4. (Uncut' <=> Uncut) /\ (Fits(head, f) => Fits(head, f)')
    BY <1>1
    DEF Uncut, Fits, AgentQuadlets, AgentQuadlet, OneAgentService, ServiceFiles,
        IsService, Writes, Frozen
  <2> QED
    BY <2>1, <2>2, <2>3, <2>4 DEF Resting
<1>6. Managed' /\ (loaded' # Absent => Frozen(loaded') = f)
  BY <1>1 DEF FrozenAs, Managed, Own, OldService, ServiceFiles, IsService, Frozen
<1> QED
  BY <1>1, <1>4, <1>5, <1>6 DEF FrozenAs

\* The Fleet moves on while what is on the Host is recorded, or being applied.
LEMMA PushFrozen ==
  ASSUME NEW f, Managed, FrozenAs(f), Push
  PROVE  Managed' /\ FrozenAs(f)'
<1> USE DEF fleetVars, hostVars, applyVars
<1>1. /\ UNCHANGED <<record, disk, loaded, applying, target, before, scenario>>
      /\ UNCHANGED <<agent, faults>> /\ (Uncut \/ disk = record)
  BY DEF Push
<1>2. Managed' /\ (loaded' # Absent => Frozen(loaded') = f) /\ AllAre(disk, f)'
  BY <1>1
  DEF FrozenAs, Managed, Own, OldService, AllAre, ServiceFiles, IsService, Frozen
<1>3. ASSUME target = Absent PROVE Resting(f)'
  <2>1. AsRecorded(disk)
    BY <1>1, <1>3 DEF FrozenAs, Resting, AsRecorded, Recorded
  <2> QED
    BY <1>1, <2>1 DEF Resting, AsRecorded, Recorded, OldService, Edits
<1>4. ASSUME target # Absent PROVE Underway(f)'
  BY <1>1, <1>4
  DEF FrozenAs, Underway, AsRecorded, Mixed, Recorded, OldService, Edits, Fits,
      AgentQuadlets, AgentQuadlet, OneAgentService, ServiceFiles, IsService,
      Writes, Frozen, Changed, AllAre, Uncut
<1> QED
  BY <1>1, <1>2, <1>3, <1>4 DEF FrozenAs

\* The Operator edits the one file that is the service.
LEMMA EditFrozen ==
  ASSUME Typed, UnitKept, EditUnit
  PROVE  UnitKept'
<1> USE DEF fleetVars, hostVars, applyVars
<1>1. /\ agent = "up" /\ target = Absent /\ target' = Absent /\ Reload(disk')
      /\ UNCHANGED <<record, head, scenario, faults>> /\ agent' = "starting"
  BY DEF EditUnit, Idle
<1>2. PICK d \in Quadlets, u \in Edits :
        ServiceFiles(disk) = {d} /\ disk' = [disk EXCEPT ![d] = u]
  BY DEF EditUnit, Edits
<1>3. PICK q \in Quadlets : Own(q)
  BY <1>1 DEF UnitKept, Managed
<1>4. AsRecorded(disk)
  BY <1>1 DEF UnitKept, FrozenAs, Resting, EditUnit, AsRecorded, Recorded
<1>5. d = q /\ u \in DOMAIN Unit
  BY <1>2, <1>3, <1>4, OwnFiles, SelfConfigAssumption DEF Edits, Typed
<1>6. \A e \in UnitFiles : disk'[e] = IF e = q THEN u ELSE disk[e]
  BY <1>2, <1>5 DEF Typed, TypeOK, UnitFiles, Dests
<1>7. AsRecorded(disk')
  BY <1>2, <1>3, <1>4, <1>6 DEF AsRecorded, Recorded, Own
<1>8. ServiceFiles(disk') = {q} /\ disk'[q] = u
  BY <1>3, <1>6, <1>7, OwnFiles DEF UnitFiles
<1>9. AllAre(disk', Frozen(u))
  BY <1>8 DEF AllAre
<1>10. loaded' # Absent => Frozen(loaded') = Frozen(u)
  BY <1>1, <1>9, Reloaded
<1>11. Managed' /\ AsRecorded(disk)'
  BY <1>1, <1>3, <1>7
  DEF Managed, Own, OldService, ServiceFiles, IsService, AsRecorded, Recorded, Edits
<1>12. FrozenAs(Frozen(u))'
  BY <1>1, <1>9, <1>10, <1>11
  DEF FrozenAs, Resting, AllAre, ServiceFiles, IsService, Frozen
<1> QED
  BY <1>5, <1>11, <1>12 DEF UnitKept

LEMMA NextFrozen ==
  ASSUME Typed, NoOtherService, NEW f, Managed, FrozenAs(f), [Next]_vars, ~EditUnit
  PROVE  Managed' /\ FrozenAs(f)'
<1> USE DEF fleetVars, hostVars, applyVars
<1>1. CASE Exits
  BY <1>1, StillFrozen DEF Exits
<1>2. CASE Deliver \/ WriteInside \/ Repull
  BY <1>2, StillFrozen DEF Deliver, WriteInside, Repull
<1>3. CASE UNCHANGED vars
  BY <1>3, StillFrozen DEF vars
<1> QED
  BY <1>1, <1>2, <1>3, TickFrozen, WriteFrozen, FinishFrozen, FailsFrozen,
     EndsFrozen, StartingFrozen, PushFrozen
  DEF Next, Reconciles

LEMMA InitUnitKept == Init => UnitKept
<1> SUFFICES ASSUME Init PROVE UnitKept
  OBVIOUS
<1> DEFINE q == AgentQuadlet(head)
<1>0. Typed
  BY InitTyped
<1>1. /\ record = disk /\ loaded = disk[q] /\ target = Absent /\ disk = head.files
      /\ ServiceFiles(disk) = {q} /\ AgentQuadlets(head) # {}
  BY DEF Init
<1>2. q \in Quadlets /\ disk[q] # Absent /\ Unit[disk[q]].service = Service
  BY <1>1, TheAgentQuadlet
<1>3. loaded \in DOMAIN Unit
  BY <1>0, <1>1, <1>2, Commits DEF Typed, UnitFiles
<1>4. Own(q)
  BY <1>1, <1>2 DEF Own, OldService
<1>5. AsRecorded(disk) /\ AllAre(disk, Frozen(loaded))
  BY <1>1 DEF AsRecorded, Recorded, AllAre
<1> QED
  BY <1>1, <1>2, <1>3, <1>4, <1>5 DEF UnitKept, Managed, FrozenAs, Resting

LEMMA NextUnitKept ==
  ASSUME Typed, NoOtherService, UnitKept, [Next]_vars
  PROVE  UnitKept'
<1>1. PICK u \in DOMAIN Unit : FrozenAs(Frozen(u))
  BY DEF UnitKept
<1>2. CASE ~EditUnit
  <2> DEFINE f == Frozen(u)
  <2>1. Managed' /\ FrozenAs(f)'
    <3> HIDE DEF f
    <3> QED
      BY <1>1, <1>2, NextFrozen DEF UnitKept, f
  <2> QED
    BY <2>1 DEF UnitKept
<1> QED
  BY <1>2, EditFrozen

\* The lines only the Host's Operator may change are those of the unit systemd
\* has loaded before, through renames, pushes in the middle of an apply, any
\* number of crashes and rollbacks, and an Operator's edits
\* (checkSelfUnitChange, selfconfig.go).
THEOREM UnitAlwaysFrozen == ASSUME NoOtherService PROVE Spec => FrozenByHost
<1>1. Typed /\ UnitKept /\ [Next]_vars =>
        [\/ EditUnit \/ Absent \in {loaded, loaded'}
         \/ Frozen(loaded) = Frozen(loaded')]_vars
  <2> SUFFICES ASSUME Typed, UnitKept, [Next]_vars, ~EditUnit, loaded # Absent,
                      loaded' # Absent
               PROVE  Frozen(loaded) = Frozen(loaded')
    OBVIOUS
  <2>1. PICK u \in DOMAIN Unit : FrozenAs(Frozen(u))
    BY DEF UnitKept
  <2> DEFINE f == Frozen(u)
  <2>2. FrozenAs(f) /\ FrozenAs(f)'
    <3> HIDE DEF f
    <3> QED
      BY <2>1, NextFrozen DEF UnitKept, f
  <2> QED
    BY <2>2 DEF FrozenAs, Frozen
<1> QED
  BY <1>1, InitTyped, NextTyped, InitUnitKept, NextUnitKept, PTL
  DEF Spec, FrozenByHost

\* While nothing was cut short, an Agent with nothing to apply runs from the
\* quadlet of the commit it has applied, whatever the Fleet's other units call
\* themselves (oneAgentService, checkAgentServiceKept).
THEOREM AlwaysRunsTheFleetsUnit ==
  ASSUME NoOtherService PROVE Spec => []RunsTheFleetsUnit
<1>1. Typed /\ UnitKept => RunsTheFleetsUnit
  <2> SUFFICES ASSUME Typed, UnitKept, agent = "up", Idle, Uncut,
                      record = head.files
               PROVE  /\ AgentQuadlets(head) # {}
                      /\ ServiceFiles(disk) = {AgentQuadlet(head)}
    BY DEF RunsTheFleetsUnit
  <2>1. PICK q \in Quadlets : Own(q)
    BY DEF UnitKept, Managed
  <2>2. AsRecorded(disk)
    BY DEF UnitKept, FrozenAs, Resting, Idle
  <2>3. ServiceFiles(disk) = {q} /\ q \in AgentQuadlets(head)
    BY <2>1, <2>2, OwnFiles DEF Own, OldService, AgentQuadlets
  <2>4. AgentQuadlet(head) \in ServiceFiles(record)
    BY <2>3, TheAgentQuadlet DEF ServiceFiles, IsService, UnitFiles
  <2> QED
    BY <2>1, <2>3, <2>4 DEF Own
<1> QED
  BY <1>1, InitTyped, NextTyped, InitUnitKept, NextUnitKept, PTL DEF Spec

----------------------------------------------------------------------------
(* The guard refuses no more than it must. *)

ConfigOf(u, files) ==
  IF ConfigSecret(u) \in Secrets THEN files[ConfigSecret(u)] ELSE Absent

\* The apply leaves the Agent's unit and its config as they are.
LeavesAgent(c, u) ==
  AgentQuadlets(c) # {} =>
    /\ ~Writes(c, AgentQuadlet(c))
    /\ ConfigOf(u, c.files) = ConfigOf(u, record)

\* While no apply was cut short, the Host is as the state file says but for the
\* Operator's edit of the Agent's quadlet, and the Agent runs from what is loaded
\* with the config that is recorded.
WholeFor(q) ==
  /\ IF target = Absent
     THEN loaded = disk[q] /\ \A d \in Dests \ {q} : disk[d] = record[d]
     ELSE /\ loaded = before[q]
          /\ \A d \in Dests \ {q} : before[d] = record[d]
          /\ \A d \in Dests : d \in Changed(target) \ applying \/ disk[d] = before[d]
          /\ ~restart => LeavesAgent(target, loaded)
  /\ agent = "up" => run.unit = loaded /\ run.cfg = ConfigOf(loaded, record)

Whole == Uncut => \A q \in Quadlets : Own(q) => WholeFor(q)

LEMMA ConfigMounted ==
  ASSUME NEW u, ConfigSecret(u) # Absent, u \in Units
  PROVE  ConfigSecret(u) \in UnitSecrets(u)
<1> DEFINE ms == {m \in Mounts(u) : m.secret # Absent /\ m.target = Unit[u].cfgAt}
<1>1. ms # {}
  BY DEF ConfigSecret
<1>2. PICK m \in ms : ConfigSecret(u) = m.secret
  BY <1>1 DEF ConfigSecret
<1>3. PICK l \in Unit[u].lines : m = Mount(l)
  BY <1>2 DEF Mounts, MountsOf
<1>4. l.key = "secret" /\ m.secret = l.src
  BY <1>2, <1>3 DEF Mount
<1> QED
  BY <1>2, <1>3, <1>4 DEF UnitSecrets, Lines

LEMMA OwnIsUnique ==
  ASSUME NEW q, NEW p, Own(q), Own(p)
  PROVE  p = q
BY DEF Own

\* What is judged by the state file, the files and the Agent's run.
LEMMA StillWhole ==
  ASSUME Whole, UNCHANGED <<record, disk, loaded, applying, target, before>>,
         UNCHANGED <<restart, scenario, faults>>,
         agent' = "up" => agent = "up" /\ run'.unit = run.unit /\ run'.cfg = run.cfg
  PROVE  Whole'
<1>1. Uncut' <=> Uncut
  BY DEF Uncut
<1>2. ASSUME NEW q \in Quadlets, Own(q)' PROVE Own(q)
  BY <1>2 DEF Own, OldService, ServiceFiles, IsService
<1> QED
  BY <1>1, <1>2
  DEF Whole, WholeFor, Changed, LeavesAgent, AgentQuadlets, AgentQuadlet, Writes,
      ConfigOf, ConfigSecret, Mounts

LEMMA InitWhole == Init => Whole
<1> SUFFICES ASSUME Init, NEW q \in Quadlets, Own(q) PROVE WholeFor(q)
  BY DEF Whole
<1>1. q = AgentQuadlet(head)
  BY DEF Init, Own
<1> QED
  BY <1>1 DEF Init, WholeFor, Container, ConfigOf

\* The quadlet the guard compares is the one that is loaded.
LEMMA RunningIsLoaded ==
  ASSUME Typed, UnitKept, Whole, Uncut, agent = "up", target = Absent,
         NEW q \in Quadlets, Own(q), NEW c
  PROVE  /\ RunningUnit(c) = loaded /\ loaded = disk[q] /\ disk[q] \in Units
         /\ ServiceFiles(disk) = {q}
<1>1. AsRecorded(disk)
  BY DEF UnitKept, FrozenAs, Resting
<1>2. ServiceFiles(disk) = {q} /\ disk[q] # Absent
  BY <1>1, OwnFiles
<1>3. loaded = disk[q]
  BY DEF Whole, WholeFor
<1>4. {d \in Quadlets : OldService(d) = Service /\ disk[d] # Absent} = {q}
  <2>1. ASSUME NEW d \in Quadlets, OldService(d) = Service PROVE d = q
    BY <2>1, SelfConfigAssumption
    DEF Own, OldService, ServiceFiles, IsService, UnitFiles
  <2> QED
    BY <1>2, <2>1 DEF Own
<1>5. disk[q] \in Units
  <2>1. Recorded(disk, q) /\ record[q] \in Units
    BY <1>1 DEF AsRecorded, UnitFiles, Typed, Own
  <2> QED
    BY <2>1, SelfConfigAssumption DEF Recorded, Edits, Typed, Units
<1> QED
  BY <1>2, <1>3, <1>4, <1>5 DEF RunningUnit

\* An apply that will not restart the Agent leaves what it runs from alone: the
\* guard has refused to lose its config.
LEMMA TickWhole ==
  ASSUME Typed, UnitKept, Whole, Tick
  PROVE  Whole'
<1> USE DEF fleetVars, hostVars
<1>1. /\ agent = "up" /\ target = Absent /\ Allows(head) /\ target' = head
      /\ before' = disk /\ applying' = Changed(head) /\ head # Absent
      /\ restart' = Restarts(head)
      /\ UNCHANGED <<record, disk, loaded, run, head, scenario, faults, agent>>
  BY Commits DEF Tick, Idle, Typed
<1> SUFFICES ASSUME Uncut', NEW q \in Quadlets, Own(q)' PROVE WholeFor(q)'
  BY DEF Whole
<1>2. Uncut /\ Own(q)
  BY <1>1 DEF Uncut, Own, OldService, ServiceFiles, IsService
<1>3. WholeFor(q) /\ RunningUnit(head) = loaded /\ loaded \in Units
  BY <1>1, <1>2, RunningIsLoaded DEF Whole
<1>4. ~Restarts(head) => LeavesAgent(head, loaded)
  <2> SUFFICES ASSUME ~Restarts(head), AgentQuadlets(head) # {}
               PROVE  /\ ~Writes(head, AgentQuadlet(head))
                      /\ ConfigOf(loaded, head.files) = ConfigOf(loaded, record)
    BY DEF LeavesAgent
  <2>1. ~Writes(head, AgentQuadlet(head))
    BY DEF Restarts
  <2>2. NextUnit(head, RunningUnit(head)) = loaded
    BY <1>3, <2>1, SelfConfigAssumption DEF NextUnit, Units
  <2>3. LosesNoSource(loaded, head)
    BY <1>1, <2>2 DEF Allows, GuardAllows
  <2>4. ASSUME ConfigSecret(loaded) \in Secrets
        PROVE  head.files[ConfigSecret(loaded)] = record[ConfigSecret(loaded)]
    <3>1. ~Writes(head, ConfigSecret(loaded))
      BY <2>2, <2>4 DEF Restarts
    <3>2. ConfigSecret(loaded) # Absent
      BY <2>4, SelfConfigAssumption DEF Dests
    <3>3. ~Deletes(head, ConfigSecret(loaded))
      BY <1>3, <2>3, <2>4, <3>2, ConfigMounted DEF LosesNoSource
    <3> QED
      BY <3>1, <3>3 DEF Writes, Deletes
  <2> QED
    BY <2>1, <2>4 DEF ConfigOf
<1>5. LeavesAgent(head, loaded) => LeavesAgent(target, loaded)'
  BY <1>1
  DEF LeavesAgent, AgentQuadlets, AgentQuadlet, Writes, ConfigOf, ConfigSecret,
      Mounts
<1>6. ConfigOf(loaded, record)' = ConfigOf(loaded, record)
  BY <1>1 DEF ConfigOf, ConfigSecret, Mounts
<1> QED
  BY <1>1, <1>3, <1>4, <1>5, <1>6 DEF WholeFor, Changed

LEMMA WriteWhole ==
  ASSUME Typed, UnitKept, Whole, WriteNext
  PROVE  Whole'
<1> USE DEF fleetVars, hostVars
<1> SUFFICES ASSUME Uncut', NEW q \in Quadlets, Own(q)' PROVE WholeFor(q)'
  BY DEF Whole
<1>1. PICK d \in applying : /\ disk' = [disk EXCEPT ![d] = target.files[d]]
                            /\ applying' = applying \ {d}
  BY DEF WriteNext
<1>2. /\ target # Absent /\ DOMAIN disk = Dests
      /\ UNCHANGED <<record, loaded, run, head, scenario, faults, agent, target>>
      /\ UNCHANGED <<before, restart>>
  BY <1>1 DEF WriteNext, Typed, TypeOK
<1>3. d \in Changed(target)
  BY <1>1, <1>2 DEF UnitKept, FrozenAs, Underway
<1>4. Uncut /\ Own(q) /\ WholeFor(q)
  BY <1>2 DEF Whole, Uncut, Own, OldService, ServiceFiles, IsService
<1>5. \A e \in Dests : e \in Changed(target)' \ applying' \/ disk'[e] = before[e]
  BY <1>1, <1>2, <1>3, <1>4 DEF WholeFor, Changed
<1>6. /\ ConfigOf(loaded, record)' = ConfigOf(loaded, record)
      /\ LeavesAgent(target, loaded) => LeavesAgent(target, loaded)'
  BY <1>2
  DEF LeavesAgent, AgentQuadlets, AgentQuadlet, Writes, ConfigOf, ConfigSecret,
      Mounts
<1> QED
  BY <1>2, <1>4, <1>5, <1>6 DEF WholeFor

\* The Host after an apply is what the commit says, and an Agent that was not
\* restarted runs from the commit's unit and config already.
LEMMA FinishWhole ==
  ASSUME Typed, NoOtherService, UnitKept, Whole, Finish
  PROVE  Whole'
<1> USE DEF fleetVars, hostVars
<1> SUFFICES ASSUME Uncut', NEW p \in Quadlets, Own(p)' PROVE WholeFor(p)'
  BY DEF Whole
<1>1. /\ target # Absent /\ applying = {} /\ record' = target.files
      /\ target' = Absent /\ Reload(disk) /\ agent = "up"
      /\ UNCHANGED <<disk, head, scenario, faults>>
  BY DEF Finish
<1>2. PICK q \in Quadlets : Own(q)
  BY <1>1 DEF UnitKept, Managed
<1>3. Uncut /\ WholeFor(q)
  BY <1>1, <1>2 DEF Uncut, Whole
<1>4. /\ p \in UnitFiles /\ record'[p] # Absent /\ IsService(record'[p])
      /\ \A d \in UnitFiles : /\ target.files[d] # Absent
                              /\ IsService(target.files[d])
                              => d = p
  BY <1>1 DEF Own, ServiceFiles, IsService, UnitFiles
<1>5. ASSUME NEW d \in Dests, d # p
      PROVE  disk[d] = record'[d]
  <2>1. CASE d \in Changed(target)
    BY <1>1, <1>3, <2>1 DEF WholeFor, UnitKept, FrozenAs, Underway
  <2>2. CASE d \notin Changed(target)
    <3>1. disk[d] = before[d] /\ target.files[d] = record[d]
      BY <1>1, <1>3, <2>2 DEF WholeFor, Changed
    <3>2. d # q
      BY <1>2, <1>4, <1>5, <3>1 DEF Own, OldService, IsService, UnitFiles
    <3> QED
      BY <1>1, <1>3, <3>1, <3>2 DEF WholeFor
  <2> QED
    BY <2>1, <2>2
<1>6. AsRecorded(disk)' /\ ServiceFiles(disk) \subseteq {p}
  <2>1. \A d \in ServiceFiles(disk) : d \in UnitFiles /\ disk[d] # Absent
                                      /\ IsService(disk[d]) /\ d \in Dests
    BY DEF ServiceFiles, UnitFiles, Dests
  <2>2. ServiceFiles(disk) \subseteq {p}
    <3> SUFFICES ASSUME NEW d \in ServiceFiles(disk), d # p PROVE FALSE
      OBVIOUS
    <3>1. target.files[d] = disk[d]
      BY <1>1, <1>5, <2>1
    <3> QED
      BY <1>4, <2>1, <3>1
  <2>3. \E u \in DOMAIN Unit : FrozenAs(Frozen(u))
    BY DEF UnitKept
  <2>4. AsRecorded(disk)'
    <3>1. PICK u \in DOMAIN Unit : FrozenAs(Frozen(u))
      BY <2>3
    <3>2. \A d \in UnitFiles :
            \/ disk[d] = target.files[d]
            \/ /\ record[d] = target.files[d] /\ record[d] # Absent
               /\ OldService(d) = Service /\ disk[d] \in Edits
      <4> TAKE d \in UnitFiles
      <4>1. d \in Dests
        BY DEF UnitFiles, Dests
      <4> QED
        BY <1>1, <3>1, <4>1 DEF FrozenAs, Underway, Changed, Mixed, Recorded
    <3> QED
      BY <1>1, <3>2 DEF AsRecorded, Recorded, OldService, Edits
  <2> QED
    BY <2>2, <2>4
<1>7. agent' # "gone" => loaded' = disk[p]
  <2> SUFFICES ASSUME agent' # "gone" PROVE loaded' = disk[p]
    OBVIOUS
  <2>1. StartsFrom(disk) # {}
    BY <1>1 DEF Reload, Finish
  <2>2. StartsFrom(disk) = {p}
    BY <1>6, <2>1 DEF StartsFrom
  <2> QED
    BY <1>1, <2>2 DEF Reload
<1>8. agent' # "gone"
  <2>1. disk[p] # Absent /\ IsService(disk[p])
    <3>1. CASE disk[p] = record'[p]
      BY <1>4, <3>1
    <3>2. CASE disk[p] # record'[p]
      BY <1>1, <1>4, <1>6, <3>2, SelfConfigAssumption
      DEF AsRecorded, Recorded, Edits, Typed, IsService
    <3> QED
      BY <3>1, <3>2
  <2>2. p \in ServiceFiles(disk)
    BY <1>4, <2>1 DEF ServiceFiles
  <2>3. StartsFrom(disk) = {p}
    BY <1>6, <2>2 DEF StartsFrom
  <2> QED
    BY <1>1, <2>1, <2>3 DEF Reload, Finish
<1>9. ASSUME agent' = "up"
      PROVE  run'.unit = loaded' /\ run'.cfg = ConfigOf(loaded, record)'
  <2>1. ~restart /\ run' = run
    BY <1>1, <1>9 DEF Finish
  <2>2. LeavesAgent(target, loaded) /\ loaded = before[q]
        /\ run.unit = loaded /\ run.cfg = ConfigOf(loaded, record)
    BY <1>1, <1>3, <2>1 DEF WholeFor
  <2>3. AgentQuadlets(target) # {}
    BY <1>1 DEF Own, OldService, AgentQuadlets
  <2>4. AgentQuadlet(target) = p
    BY <1>4, <2>3, TheAgentQuadlet DEF IsService, UnitFiles
  <2>5. target.files[p] = record[p]
    BY <1>1, <1>4, <2>2, <2>3, <2>4 DEF LeavesAgent, Writes
  <2>6. p = q
    BY <1>1, <1>2, <1>4, <2>5 DEF Own, ServiceFiles
  <2>7. disk[p] = before[q]
    BY <1>1, <1>3, <2>5, <2>6 DEF WholeFor, Changed, Dests
  <2>8. loaded' = loaded
    BY <1>7, <1>8, <2>2, <2>7
  <2>9. ConfigOf(loaded, record)' = ConfigOf(loaded, target.files)
    BY <1>1, <2>8 DEF ConfigOf, ConfigSecret, Mounts
  <2> QED
    BY <2>1, <2>2, <2>3, <2>8, <2>9 DEF LeavesAgent
<1> QED
  BY <1>1, <1>5, <1>7, <1>8, <1>9 DEF WholeFor

\* Podman has refused no secret where nothing was cut short: only a fault makes
\* an apply fail.
LEMMA FailsWhole ==
  ASSUME Typed, UnitKept, Whole, Fails
  PROVE  ~Uncut'
<1> SUFFICES ASSUME Uncut' PROVE FALSE
  OBVIOUS
<1>1. /\ agent = "up" /\ target # Absent /\ UNCHANGED scenario
      /\ Scenarios[scenario].faults \in Nat /\ faults \in Nat
      /\ faults <= Scenarios[scenario].faults
  BY Commits, Budgets DEF Fails, fleetVars, Typed, TypeOK
<1>2. PICK d \in applying \cap Secrets :
        record[d] = Absent /\ disk[d] # Absent /\ UNCHANGED faults
  BY <1>1 DEF Fails, Uncut
<1>3. PICK q \in Quadlets : Own(q)
  BY <1>1 DEF UnitKept, Managed
<1>4. WholeFor(q)
  BY <1>1, <1>2, <1>3 DEF Whole, Uncut
<1>5. d \in Dests /\ d # q
  BY SelfConfigAssumption DEF Dests, UnitFiles
<1> QED
  BY <1>1, <1>2, <1>4, <1>5 DEF WholeFor

LEMMA StartingWhole ==
  ASSUME Typed, UnitKept, Whole, Starting
  PROVE  Whole'
<1> USE DEF fleetVars, hostVars, applyVars
<1> SUFFICES ASSUME Uncut', NEW q \in Quadlets, Own(q)' PROVE WholeFor(q)'
  BY DEF Whole
<1>1. /\ target = Absent /\ target' = Absent /\ run' = Container
      /\ UNCHANGED <<record, loaded, head, scenario, faults>>
  BY DEF Starting, Typed
<1>2. Uncut /\ Own(q) /\ WholeFor(q)
  BY <1>1 DEF Whole, Uncut, Own, OldService, ServiceFiles, IsService
<1>3. PICK removed \in SUBSET {d \in Dests : disk[d] # Absent /\ record[d] = Absent} :
        disk' = [d \in Dests |-> IF d \in removed THEN Absent ELSE disk[d]]
  BY DEF Starting
<1>4. \A d \in Dests : disk'[d] = disk[d]
  <2>1. removed = {}
    BY <1>1, <1>2, <1>3 DEF WholeFor, Own
  <2> QED
    BY <1>3, <2>1
<1>5. q \in Dests /\ q \notin Secrets /\ Secrets \subseteq Dests
  BY SelfConfigAssumption DEF UnitFiles, Dests
<1>6. run'.unit = loaded /\ run'.cfg = ConfigOf(loaded, disk)
  BY <1>1 DEF Container, ConfigOf
<1>7. ConfigOf(loaded, disk) = ConfigOf(loaded, record)
  BY <1>1, <1>2, <1>5 DEF ConfigOf, WholeFor
<1>8. ConfigOf(loaded, record)' = ConfigOf(loaded, record)
  BY <1>1 DEF ConfigOf, ConfigSecret, Mounts
<1> QED
  BY <1>1, <1>2, <1>4, <1>5, <1>6, <1>7, <1>8 DEF WholeFor

LEMMA EditWhole ==
  ASSUME Typed, UnitKept, Whole, EditUnit
  PROVE  Whole'
<1> USE DEF fleetVars, hostVars, applyVars
<1> SUFFICES ASSUME Uncut', NEW q \in Quadlets, Own(q)' PROVE WholeFor(q)'
  BY DEF Whole
<1>1. /\ agent = "up" /\ target = Absent /\ target' = Absent /\ Reload(disk')
      /\ UNCHANGED <<record, head, scenario, faults>> /\ agent' = "starting"
  BY DEF EditUnit, Idle
<1>2. Uncut /\ Own(q) /\ WholeFor(q)
  BY <1>1 DEF Whole, Uncut, Own, OldService, ServiceFiles, IsService
<1>3. PICK d \in Quadlets, u \in Edits :
        ServiceFiles(disk) = {d} /\ disk' = [disk EXCEPT ![d] = u]
  BY DEF EditUnit, Edits
<1>4. d = q
  BY <1>1, <1>2, <1>3, RunningIsLoaded
<1>5. \A e \in Dests \ {q} : disk'[e] = disk[e]
  BY <1>3, <1>4 DEF Typed, TypeOK
<1>6. AsRecorded(disk)
  BY <1>1, <1>2 DEF UnitKept, FrozenAs, Resting
<1>7. AsRecorded(disk')
  <2>1. \A e \in UnitFiles : Recorded(disk, e) /\ e \in Dests
    BY <1>6 DEF AsRecorded, UnitFiles, Dests
  <2>2. disk'[q] = u
    BY <1>3, <1>4 DEF Typed, TypeOK, Dests
  <2> QED
    BY <1>2, <1>3, <1>5, <2>1, <2>2 DEF AsRecorded, Recorded, Own
<1>8. ServiceFiles(disk') = {q}
  BY <1>2, <1>7, OwnFiles
<1>9. loaded' = disk'[q]
  BY <1>1, <1>8 DEF Reload, StartsFrom
<1> QED
  BY <1>1, <1>2, <1>5, <1>9 DEF WholeFor

LEMMA NextWhole ==
  ASSUME Typed, NoOtherService, UnitKept, Whole, [Next]_vars
  PROVE  Whole'
<1> USE DEF fleetVars, hostVars, applyVars
<1>1. CASE Exits
  BY <1>1, StillWhole DEF Exits
<1>2. CASE Push \/ Deliver \/ Repull
  BY <1>2, StillWhole DEF Push, Deliver, Repull
<1>3. CASE WriteInside
  <2>1. PICK p \in Paths \ run.scratch : run' = [run EXCEPT !.scratch = @ \cup {p}]
    BY <1>3 DEF WriteInside
  <2>2. run'.unit = run.unit /\ run'.cfg = run.cfg
    BY <2>1 DEF Typed, Fields
  <2> QED
    BY <1>3, <2>2, StillWhole DEF WriteInside
<1>4. CASE UNCHANGED vars
  BY <1>4, StillWhole DEF vars
<1>5. CASE Ends
  <2>1. ~Uncut'
    BY <1>5 DEF Ends, Uncut, Typed, TypeOK
  <2> QED
    BY <2>1 DEF Whole
<1>6. CASE Fails
  BY <1>6, FailsWhole DEF Whole
<1> QED
  BY <1>1, <1>2, <1>3, <1>4, <1>5, <1>6, TickWhole, WriteWhole, FinishWhole,
     StartingWhole, EditWhole
  DEF Next, Reconciles

\* Units with the same frozen lines have the same mounts, and the same config.
LEMMA SameMounts ==
  ASSUME NEW u \in Units, NEW v \in Units, Frozen(u) = Frozen(v)
  PROVE  /\ Mounts(u) = Mounts(v) /\ ConfigSecret(u) = ConfigSecret(v)
         /\ VolumesFrom(u) = VolumesFrom(v) /\ UnitSecrets(u) = UnitSecrets(v)
<1>1. Unit[u].lines = Unit[v].lines /\ Unit[u].cfgAt = Unit[v].cfgAt
  BY DEF Frozen
<1>2. Mounts(u) = Mounts(v)
  BY <1>1 DEF Mounts, MountsOf
<1> QED
  BY <1>1, <1>2 DEF ConfigSecret, VolumesFrom, UnitSecrets, Lines

\* A credential that the Operator has delivered where plain directories and
\* volumes are mounted is seen now, and by the next container.
LEMMA DeliveredSeen ==
  ASSUME NEW c, NEW u \in Units, NEW v \in Units, NEW cfg, NEW s \in Located(cfg),
         run.unit = u, Mounts(u) = Mounts(v), VolumesFrom(u) = VolumesFrom(v),
         ~VolumesFrom(u), \A m \in Mounts(u) : m.placed,
         NEW x \in stored, stored \subseteq Places, x.path = PathOf(cfg, s),
         Innermost(Mounts(u), x.path) # {},
         \A m \in Innermost(Mounts(u), x.path) :
           /\ m.src = x.src /\ m.volumeUnit = Absent /\ m.secret = Absent
           /\ ~m.empty /\ ~m.image
  PROVE  s \in SameView(u, v, c, cfg) /\ PathOf(cfg, s) \in SeenNow
<1> DEFINE held == Innermost(Mounts(u), x.path)
<1>1. MayHold(Mounts(v), PathOf(cfg, s)) = held
  <2>1. {m \in Mounts(v) : m.placed} = Mounts(u) /\ {m \in Mounts(v) : ~m.placed} = {}
    OBVIOUS
  <2> QED
    BY <2>1 DEF MayHold
<1>2. \A m \in held : ~FreshMount(m, c) /\ m.placed
  BY SelfConfigAssumption DEF FreshMount, Dests, Innermost
<1>3. s \in SameView(u, v, c, cfg)
  BY <1>1, <1>2 DEF SameView
<1>4. x.path \in Paths /\ x = [src |-> x.src, path |-> x.path]
  BY SelfConfigAssumption DEF Paths
<1>5. MountsAt[u][x.path] = held
  <2>1. RealMounts[u] = Mounts(u)
    BY DEF RealMounts, VolumesFrom
  <2> QED
    BY <1>4, <2>1 DEF MountsAt
<1>6. \A m \in held : [src |-> m.src, path |-> x.path] \in stored
  BY <1>4
<1>7. Shows(u, run.secrets, run.images, run.scratch, x.path)
  BY <1>5, <1>6 DEF Shows
<1> QED
  BY <1>3, <1>4, <1>7 DEF SeenNow, Sees

\* What the guard asks of an acceptable commit holds.
LEMMA AcceptableAllowed ==
  ASSUME Typed, UnitKept, Whole, Uncut, agent = "up", Idle, Acceptable(head)
  PROVE  Allows(head)
<1> DEFINE u == loaded
           a == AgentQuadlet(head)
           next == NextUnit(head, u)
           s == ConfigSecret(u)
           cfg == Config(head.files[s])
<1>1. PICK q \in Quadlets : Own(q)
  BY DEF UnitKept, Managed
<1>2. /\ RunningUnit(head) = u /\ u = disk[q] /\ u \in Units /\ u # Absent
      /\ StartsFrom(disk) = {q} /\ run.unit = u
  <2>1. ServiceFiles(disk) = {q} /\ RunningUnit(head) = u /\ u = disk[q] /\ u \in Units
    BY <1>1, RunningIsLoaded DEF Idle
  <2> QED
    BY <1>1, <2>1, SelfConfigAssumption DEF StartsFrom, Whole, WholeFor, Units
<1>3. /\ AgentQuadlets(head) # {} /\ OneAgentService(head)
      /\ \A d \in Dests \ Secrets : record[d] # Absent => head.files[d] # Absent
      /\ \A d \in Secrets : head.files[d] # Absent
      /\ Frozen(u) = Frozen(head.files[a]) /\ s \in Secrets /\ ~VolumesFrom(u)
      /\ \A m \in Mounts(u) : m.placed
      /\ Load(cfg) /\ Credentials(cfg) = Located(cfg) /\ Has(cfg, "repo_url")
      /\ \A t \in Credentials(cfg) :
           \/ IsDir(t)
           \/ \E x \in stored :
                /\ x.path = PathOf(cfg, t)
                /\ Innermost(Mounts(u), x.path) # {}
                /\ \A m \in Innermost(Mounts(u), x.path) :
                     m.src = x.src /\ m.volumeUnit = Absent
                     /\ m.secret = Absent /\ ~m.empty /\ ~m.image
  BY <1>2 DEF Acceptable
<1>4. next \in Units /\ Frozen(next) = Frozen(u)
  <2>1. head.files[a] \in Units
    BY <1>3, TheAgentQuadlet, Commits DEF Typed, UnitFiles, Units
  <2> QED
    BY <1>2, <1>3, <2>1 DEF NextUnit
<1>5. /\ Mounts(next) = Mounts(u) /\ ConfigSecret(next) = s
      /\ VolumesFrom(next) = VolumesFrom(u)
  BY <1>2, <1>4, SameMounts
<1>6. LosesNoSource(next, head)
  <2>1. ASSUME NEW v \in UnitVolumes(next) PROVE v \in Dests
    <3>1. PICK l \in Unit[next].lines : v = VolumeUnit(l) /\ v # Absent
      BY <1>4, <2>1 DEF UnitVolumes, Mounts, MountsOf, Mount
    <3> QED
      BY <3>1 DEF VolumeUnit, Dests
  <2>2. \A d \in Dests : ~Deletes(head, d)
    BY <1>3 DEF Deletes
  <2> QED
    BY <2>1, <2>2 DEF LosesNoSource, Dests
<1>7. CheckRenderedConfig(cfg, SameView(u, next, head, cfg), SeenNow)
  <2>1. ASSUME NEW t \in Credentials(cfg)
        PROVE  /\ t \in SameView(u, next, head, cfg)
               /\ IsDir(t) \/ PathOf(cfg, t) \in SeenNow
    <3>1. t \in Located(cfg)
      BY <1>3
    <3>2. CASE IsDir(t)
      BY <3>1, <3>2 DEF SameView
    <3>3. CASE ~IsDir(t)
      <4>1. PICK x \in stored :
              /\ x.path = PathOf(cfg, t) /\ Innermost(Mounts(u), x.path) # {}
              /\ \A m \in Innermost(Mounts(u), x.path) :
                   /\ m.src = x.src /\ m.volumeUnit = Absent
                   /\ m.secret = Absent /\ ~m.empty /\ ~m.image
        BY <1>3, <3>3
      <4>2. stored \subseteq Places
        BY DEF Typed, TypeOK
      <4> HIDE DEF u, next, cfg
      <4> QED
        BY <1>2, <1>3, <1>4, <1>5, <3>1, <4>1, <4>2, DeliveredSeen
    <3> QED
      BY <3>2, <3>3
  <2> HIDE DEF cfg, next, u
  <2> QED
    BY <1>3, <2>1 DEF CheckRenderedConfig, CheckStartup, Load
<1> QED
  BY <1>2, <1>3, <1>4, <1>5, <1>6, <1>7 DEF Allows, GuardAllows

\* The guard refuses no config it must take: as soon as an acceptable commit's
\* credentials are delivered, the Agent runs with its config or applies it
\* (sameView, CheckRenderedConfig).
THEOREM ConfigAlwaysTaken == ASSUME NoOtherService PROVE Spec => []ConfigTaken
<1>1. Typed /\ UnitKept /\ Whole => ConfigTaken
  <2> SUFFICES ASSUME Typed, UnitKept, Whole, agent = "up", Idle, Uncut,
                      Acceptable(head), Changed(head) = {}
               PROVE  run.cfg = head.files[ConfigSecret(run.unit)]
    BY AcceptableAllowed DEF ConfigTaken
  <2>1. PICK q \in Quadlets : Own(q)
    BY DEF UnitKept, Managed
  <2>2. /\ run.unit = loaded /\ run.cfg = ConfigOf(loaded, record)
        /\ loaded = disk[q] /\ ServiceFiles(disk) = {q}
    BY <2>1, RunningIsLoaded DEF Whole, WholeFor, Idle
  <2>3. ConfigSecret(loaded) \in Secrets
    BY <2>1, <2>2 DEF Acceptable, StartsFrom
  <2> QED
    BY <2>2, <2>3 DEF ConfigOf, Changed, Dests
<1> QED
  BY <1>1, InitTyped, NextTyped, InitUnitKept, NextUnitKept, InitWhole,
     NextWhole, PTL
  DEF Spec
=============================================================================
