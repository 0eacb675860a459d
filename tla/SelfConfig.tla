----------------------------- MODULE SelfConfig -----------------------------
(***************************************************************************)
(* The self-restart guard (pkg/agent/selfconfig.go): which changes an      *)
(* apply may make to the Agent's own unit and config, so that the Agent's  *)
(* next start finds a config it can start with.                            *)
(*                                                                         *)
(* The Fleet's files that matter are quadlets, raw units, .volume units    *)
(* and Podman secrets.  An apply writes them one by one, in the order of   *)
(* their categories, and the Agent's process may end between any two of    *)
(* them; whatever is on the Host then is what its next start meets.        *)
(*                                                                         *)
(* A container sees files through the mounts of the unit it was started    *)
(* from: Host directories and named volumes as they are now, secrets and   *)
(* images as they were when it started, and a tmpfs or anonymous volume    *)
(* only for as long as it lives.                                           *)
(***************************************************************************)
EXTENDS AgentConfig

CONSTANTS
  Quadlets, Raws,   \* destinations of container quadlets and of raw units
  Volumes,          \* destinations of .volume units
  Secrets,          \* names of Podman secrets
  Absent,
  Service,          \* the Agent's service (config.AgentService)
  Unit,             \* u: what the unit file u says
  Config(_),        \* Config(x): what the config x says
  Rank,             \* ApplyRank of a destination's category
  ImageHas,         \* ImageHas[i]: files an image carries
  Places,           \* [src, path]: credential files an Operator may deliver
  Scenarios,        \* Scenarios[s]: the commits of s and those it starts at,
                    \* an Operator's edits, what is given of the places, events
                    \* and faults
  MaxEvents, MaxFaults

Dests == Quadlets \cup Raws \cup Volumes \cup Secrets
None  == [d \in Dests |-> Absent]

UnitFiles == Quadlets \cup Raws

\* A commit c resolves to c.files, and assigns the Agent's bundle or not. An
\* Operator edits the Agent's quadlet to another one of the same service.
ASSUME SelfConfigAssumption ==
  /\ MaxEvents \in Nat /\ MaxFaults \in Nat
  /\ UnitFiles \cap Secrets = {} /\ Service # Absent
  /\ Absent \notin Dests /\ Absent \notin DOMAIN Unit
  /\ \A x \in Places : x = [src |-> x.src, path |-> x.path]
  /\ \A s \in DOMAIN Scenarios :
       LET x == Scenarios[s]
       IN  /\ x.starts \subseteq x.commits /\ x.given \cup x.places \subseteq Places
           /\ x.events \in 0..MaxEvents /\ x.faults \in 0..MaxFaults
           /\ \A u \in x.edits : u \in DOMAIN Unit /\ Unit[u].service = Service
           /\ \A c \in x.commits :
                /\ c # Absent /\ DOMAIN c.files = Dests
                /\ \A d \in UnitFiles : c.files[d] \in DOMAIN Unit \cup {Absent}

VARIABLES
  head,      \* the Fleet's commit
  record,    \* Managed Files of the state file
  disk,      \* files and Podman secrets of the Host
  loaded,    \* the unit file systemd has loaded for the Agent's service
  stored,    \* credential files in the Host's directories and volumes
  pulled,    \* image mounts whose image has the credentials now
  run,       \* the Agent's container; NoRun while there is none
  agent,     \* "up", "starting", "exited" or "gone"
  applying,  \* destinations the running apply has yet to write
  target,    \* the commit it applies
  before,    \* what it found, for a rollback
  restart,   \* the apply has written the Agent's unit or config
  scenario, events, faults

fleetVars == <<head, scenario>>
hostVars  == <<disk, loaded, stored, pulled>>
applyVars == <<applying, target, before, restart>>
vars == <<head, record, disk, loaded, stored, pulled, run, agent, applying, target,
          before, restart, scenario, events, faults>>

NoRun == [unit |-> Absent, cfg |-> Absent, secrets |-> {}, images |-> {},
          scratch |-> {}]

----------------------------------------------------------------------------
(* The mounts of a unit (pkg/agent/unitmounts.go). A unit's lines are records
   [key, src, at, kind, args]; args says the line is an argument in PodmanArgs=,
   and at is Unset where the line names no target. *)

\* A .volume source names a unit only in a line Quadlet reads itself.
VolumeUnit(l) == IF l.src \in Volumes /\ ~l.args THEN l.src ELSE Absent

IsMount(l) == \/ l.key \in {"volume", "mount", "tmpfs", "volatile"}
              \/ l.key = "secret" /\ l.kind = "mount"

Target(l) == CASE l.key = "volatile" -> <<"tmp">>
               [] l.key = "secret" /\ l.at = Unset ->
                    <<"run", "secrets", l.src>>
               [] OTHER -> l.at

\* Without a source, a volume is an anonymous one.
Empty(l) == \/ l.key \in {"tmpfs", "volatile"}
            \/ l.key = "volume" /\ l.src = ""
            \/ l.key = "mount" /\ (\/ l.kind \in {"tmpfs", "ramfs", "devpts"}
                                   \/ l.kind = "volume" /\ l.src = "")

Mount(l) == [target |-> Target(l), placed |-> l.placed, empty |-> Empty(l),
             image |-> l.key = "mount" /\ l.kind = "image",
             volumeUnit |-> VolumeUnit(l), src |-> l.src,
             secret |-> IF l.key = "secret" THEN l.src ELSE Absent]

Units == DOMAIN Unit
Lines(u, keys) == {l \in Unit[u].lines : l.key \in keys}
MountsOf == [u \in Units |-> {Mount(l) : l \in {k \in Unit[u].lines : IsMount(k)}}]
Mounts(u) == MountsOf[u]
VolumesFrom(u) == Lines(u, {"volumes-from"}) # {}

\* Secrets of either type: mounted, or in the environment.
UnitSecrets(u) == {l.src : l \in Lines(u, {"secret"})}
UnitVolumes(u) == {m.volumeUnit : m \in Mounts(u)} \ {Absent}

\* The mounts at the deepest target that holds p.
Innermost(ms, p) ==
  LET held == {m \in ms : Under(p, m.target)}
  IN  {m \in held : \A n \in held : Len(n.target) <= Len(m.target)}

\* Mutant: a mount at a specifier target is overlooked.
MayHoldPlaced(ms, p) == Innermost({m \in ms : m.placed}, p)

\* A mount whose target the guard cannot place may hold any path.
MayHold(ms, p) ==
  Innermost({m \in ms : m.placed}, p) \cup {m \in ms : ~m.placed}

----------------------------------------------------------------------------
(* What a container sees. *)

\* secrets, images and scratch are those of the container.
Paths == {x.path : x \in Places}

\* --volumes-from mounts what another container has.
RealMounts ==
  [u \in Units |->
     Mounts(u) \cup {[target |-> l.at, placed |-> l.placed, empty |-> FALSE,
                     image |-> TRUE, volumeUnit |-> Absent, src |-> l.src,
                     secret |-> Absent] : l \in Lines(u, {"volumes-from"})}]

\* The mounts that show path p in a container of unit u.
MountsAt == [u \in Units |-> [p \in Paths |-> Innermost(RealMounts[u], p)]]

Shows(u, secrets, images, scratch, p) ==
  LET ms == MountsAt[u][p]
  IN  IF ms = {} THEN p \in ImageHas[Unit[u].image]
      ELSE \A m \in ms :
             CASE m.empty -> p \in scratch
               [] m.image -> m.src \in images
               [] m.secret # Absent -> m.secret \in secrets
               [] OTHER -> [src |-> m.src, path |-> p] \in stored

Sees(u, secrets, images, scratch) ==
  {p \in Paths : Shows(u, secrets, images, scratch, p)}

SeenNow == Sees(run.unit, run.secrets, run.images, run.scratch)

\* Where the Agent in u's container reads its config.
ConfigSecret(u) ==
  LET ms == {m \in Mounts(u) : m.secret # Absent /\ m.target = Unit[u].cfgAt}
  IN  IF ms = {} THEN Absent ELSE (CHOOSE m \in ms : TRUE).secret

Present(files) == {s \in Secrets : files[s] # Absent}

\* Podman needs every secret, and Quadlet every .volume unit.
SourcesThere(u, files) ==
  /\ UnitSecrets(u) \cap Secrets \subseteq Present(files)
  /\ \A v \in UnitVolumes(u) : files[v] # Absent

\* A relative credential path is looked up somewhere else.
Located(c) == {s \in Credentials(c) : c.spelled}

\* Can a container of unit u start now, and the Agent in it? A config the
\* Fleet does not render is the Operator's, and fits.
CanStart(u, files) ==
  /\ u # Absent /\ SourcesThere(u, files)
  /\ LET s == ConfigSecret(u)
     IN  s \in Secrets =>
           LET c == Config(files[s])
           IN  /\ Starts(c, Sees(u, Present(files), pulled, {}))
               /\ Credentials(c) \subseteq Located(c)

\* The unit files of the Host that are the Agent's service, by their own name,
\* by what Quadlet generates, or by an alias.
IsService(u) == Service \in {Unit[u].service, Unit[u].alias}
ServiceFiles(files) ==
  {d \in UnitFiles : files[d] # Absent /\ IsService(files[d])}

\* A raw unit ranks above what Quadlet generates.
StartsFrom(files) ==
  LET ds == ServiceFiles(files)
  IN  IF ds \cap Raws # {} THEN ds \cap Raws ELSE ds

----------------------------------------------------------------------------
(* The changes of an apply, against the state file. *)

Changed(c) == {d \in Dests : c.files[d] # record[d]}
Writes(c, d)  == c.files[d] # record[d] /\ c.files[d] # Absent
Deletes(c, d) == c.files[d] # record[d] /\ c.files[d] = Absent

\* The service a container quadlet of the state generates.
OldService(d) == IF record[d] = Absent THEN Absent ELSE Unit[record[d]].service

\* The resolved container quadlet that generates the Agent's service.
AgentQuadlets(c) ==
  {d \in Quadlets : /\ c.files[d] # Absent
                    /\ Unit[c.files[d]].service = Service}
AgentQuadlet(c) == CHOOSE d \in AgentQuadlets(c) : TRUE

\* Mutant: only the path of the commit's own quadlet is looked at.
RunningUnitNew(c) == disk[AgentQuadlet(c)]

\* The unit the Agent runs from: where the state says, else at the quadlet's
\* own path when the state does not know it.
RunningUnit(c) ==
  LET recorded == {d \in Quadlets : OldService(d) = Service /\ disk[d] # Absent}
      created == {d \in {AgentQuadlet(c)} : record[d] = Absent}
      paths == IF recorded # {} THEN recorded ELSE created
  IN  IF paths = {} THEN Absent ELSE disk[CHOOSE d \in paths : TRUE]

----------------------------------------------------------------------------
(* The guard. *)

\* Mutant: aliases are not looked at.
OneAgentServiceByName(c) ==
  \A d \in UnitFiles :
    /\ d # AgentQuadlet(c) /\ c.files[d] # Absent
    => Unit[c.files[d]].service # Service

\* No other file of the commit is the Agent's service too.
OneAgentService(c) ==
  \A d \in UnitFiles :
    /\ d # AgentQuadlet(c) /\ c.files[d] # Absent
    => ~IsService(c.files[d])

\* Without a quadlet for the service: the one the Agent runs from is neither
\* turned into another service, nor removed while the bundle is assigned.
AgentServiceKept(c) ==
  \A d \in {e \in Quadlets : OldService(e) = Service} :
    /\ ~Writes(c, d)
    /\ Deletes(c, d) => ~c.bundled

\* The lines only the Host's Operator may change.
Frozen(u) ==
  [lines |-> Unit[u].lines, cfgAt |-> Unit[u].cfgAt, other |-> Unit[u].other]

\* Mutant: only mounted secrets count.
LosesNoMount(next, c) ==
  /\ \A m \in Mounts(next) : m.secret \in Secrets => ~Deletes(c, m.secret)
  /\ \A v \in UnitVolumes(next) : ~Deletes(c, v)

LosesNoSource(next, c) ==
  /\ \A s \in UnitSecrets(next) \cap Secrets : ~Deletes(c, s)
  /\ \A v \in UnitVolumes(next) : ~Deletes(c, v)

\* Mutant: an image mount shows what it showed.
FreshEmpty(m, c) ==
  \/ m.empty
  \/ m.secret \in Secrets /\ Writes(c, m.secret)
  \/ m.volumeUnit \in Volumes /\ m.volumeUnit \in Changed(c)

\* A mount that a fresh start fills otherwise than the running container.
FreshMount(m, c) ==
  \/ m.empty \/ m.image
  \/ m.secret \in Secrets /\ Writes(c, m.secret)
  \/ m.volumeUnit \in Volumes /\ m.volumeUnit \in Changed(c)

\* Mutant: a new image may show any file otherwise.
SameViewImage(u, next, c, cfg) ==
  {s \in Located(cfg) :
     \/ IsDir(s)
     \/ /\ ~VolumesFrom(next) /\ Unit[u].image = Unit[next].image
        /\ \A m \in MayHold(Mounts(next), PathOf(cfg, s)) : ~FreshMount(m, c)}

\* Credential files a fresh container of next shows as the running one does.
SameView(u, next, c, cfg) ==
  {s \in Located(cfg) :
     \/ IsDir(s)
     \/ /\ ~VolumesFrom(next)
        /\ LET held == MayHold(Mounts(next), PathOf(cfg, s))
           IN  /\ Unit[u].image # Unit[next].image => \E m \in held : m.placed
               /\ \A m \in held : ~FreshMount(m, c)}

\* The unit the next start uses: the Fleet's when the apply writes it.
NextUnit(c, running) ==
  LET q == AgentQuadlet(c)
  IN  IF Writes(c, q) \/ running = Absent THEN c.files[q]
      ELSE running

\* Does the guard let commit c through, with the unit running on disk?
GuardAllows(c, running) ==
  LET writes == Writes(c, AgentQuadlet(c))
      next   == NextUnit(c, running)
      secret == ConfigSecret(next)
      checked == /\ secret \in Secrets /\ c.files[secret] # Absent
                 /\ writes \/ Writes(c, secret)
      cfg    == Config(c.files[secret])
      located == IF running = Absent /\ writes THEN Located(cfg)
                 ELSE SameView(IF running = Absent THEN next ELSE running,
                               next, c, cfg)
  IN  /\ OneAgentService(c)
      /\ LosesNoSource(next, c)
      /\ writes /\ running # Absent => Frozen(next) = Frozen(running)
      /\ checked => CheckRenderedConfig(cfg, located, SeenNow)

Allows(c) ==
  IF AgentQuadlets(c) = {} THEN AgentServiceKept(c)
  ELSE GuardAllows(c, RunningUnit(c))

\* Mutant: only a new quadlet restarts the Agent.
RestartsUnit(c) == AgentQuadlets(c) # {} /\ Writes(c, AgentQuadlet(c))

\* The apply restarts the Agent when it has written its quadlet, or the config
\* its next unit mounts.
Restarts(c) ==
  /\ AgentQuadlets(c) # {}
  /\ LET s == ConfigSecret(NextUnit(c, RunningUnit(c)))
     IN  \/ Writes(c, AgentQuadlet(c))
         \/ s \in Secrets /\ Writes(c, s)

----------------------------------------------------------------------------
(* The Agent's reconciliations. *)

Idle == applying = {} /\ target = Absent

\* Commits the guard refuses leave everything as it is.
Tick ==
  /\ agent = "up" /\ Idle /\ ~restart
  /\ Changed(head) # {} /\ Allows(head)
  /\ applying' = Changed(head) /\ target' = head /\ before' = disk
  /\ restart' = Restarts(head)
  /\ UNCHANGED <<record, hostVars, run, agent, fleetVars, events, faults>>

\* One write of the apply. Podman does not create a secret that is there.
WriteNext ==
  /\ agent = "up"
  /\ \E d \in applying :
       /\ \A e \in applying : Rank[d] <= Rank[e]
       /\ ~(d \in Secrets /\ record[d] = Absent /\ disk[d] # Absent)
       /\ disk' = [disk EXCEPT ![d] = target.files[d]]
       /\ applying' = applying \ {d}
  /\ UNCHANGED <<record, loaded, stored, pulled, run, agent, target, before, restart,
                 fleetVars, events, faults>>

\* What a daemon-reload makes of the unit files: one of them is the service.
Reload(files) ==
  loaded' \in IF StartsFrom(files) = {} THEN {Absent}
              ELSE {files[d] : d \in StartsFrom(files)}

\* After the reload the state is saved; without its unit the Agent has been
\* stopped for good.
Finish ==
  /\ agent = "up" /\ applying = {} /\ target # Absent
  /\ Reload(disk)
  /\ record' = target.files /\ target' = Absent /\ before' = None
  /\ agent' = IF loaded' = Absent THEN "gone"
              ELSE IF restart THEN "starting" ELSE "up"
  /\ restart' = FALSE
  /\ run' = IF agent' = "up" THEN run ELSE NoRun
  /\ UNCHANGED <<applying, disk, stored, pulled, fleetVars, events, faults>>

\* A write fails: the rollback puts every file back, but no secret.
Fails ==
  /\ agent = "up" /\ target = head
  /\ \/ faults > 0 /\ faults' = faults - 1
     \/ /\ \E d \in applying \cap Secrets : record[d] = Absent /\ disk[d] # Absent
        /\ UNCHANGED faults
  /\ disk' = [d \in Dests |-> IF d \in Secrets THEN disk[d] ELSE before[d]]
  /\ Reload(disk')
  /\ applying' = {} /\ target' = Absent /\ before' = None /\ restart' = FALSE
  /\ UNCHANGED <<record, stored, pulled, run, agent, fleetVars, events>>

\* The process ends, by a crash or because somebody restarts the service; or the
\* Host reboots, though not between the delete and the create of a renamed
\* quadlet, when systemd would find no unit to start.
Ends ==
  /\ agent = "up" /\ target \in {head, Absent}
  /\ faults > 0 /\ faults' = faults - 1
  /\ \/ UNCHANGED loaded
     \/ StartsFrom(disk) # {} /\ Reload(disk)
  /\ agent' = "starting" /\ run' = NoRun
  /\ applying' = {} /\ target' = Absent /\ before' = None /\ restart' = FALSE
  /\ UNCHANGED <<record, disk, stored, pulled, fleetVars, events>>

\* The container podman makes of the loaded unit.
Container ==
  LET s == ConfigSecret(loaded)
  IN  [unit |-> loaded, cfg |-> IF s \in Secrets THEN disk[s] ELSE Absent,
       secrets |-> Present(disk), images |-> pulled, scratch |-> {}]

\* systemd starts the service, and the Agent in its container reads its config
\* and checks it; then it removes what the state file does not know.
Starting ==
  /\ agent \in {"starting", "exited"}
  /\ CanStart(loaded, disk)
  /\ run' = Container /\ agent' = "up"
  /\ \E removed \in SUBSET {d \in Dests : disk[d] # Absent
                                        /\ record[d] = Absent} :
       disk' = [d \in Dests |-> IF d \in removed THEN Absent ELSE disk[d]]
  /\ UNCHANGED <<record, loaded, stored, pulled, applyVars, fleetVars, events,
                 faults>>

\* An Agent that cannot start exits, and systemd tries again.
Exits ==
  /\ agent = "starting" /\ ~CanStart(loaded, disk)
  /\ agent' = "exited"
  /\ UNCHANGED <<record, hostVars, run, applyVars, fleetVars, events, faults>>

----------------------------------------------------------------------------
(* What goes on around it. *)

Event == events > 0 /\ events' = events - 1

\* No apply was cut short in this behaviour.
Uncut == faults = Scenarios[scenario].faults

\* The Fleet stands still while the Agent makes good an apply that was cut short:
\* where the Host and the state file differ, other commits are Reconcile's.
Push ==
  /\ Event /\ (Uncut \/ disk = record)
  /\ head' \in Scenarios[scenario].commits \ {head}
  /\ UNCHANGED <<record, hostVars, run, agent, applyVars, scenario, faults>>

\* The Operator delivers a credential file into a Host directory or a volume.
Deliver ==
  /\ Event
  /\ \E x \in Scenarios[scenario].places \ stored : stored' = stored \cup {x}
  /\ UNCHANGED <<record, disk, loaded, pulled, run, agent, applyVars, fleetVars,
                 faults>>

\* Somebody puts one into the running container, where it does not last.
WriteInside ==
  /\ Event /\ agent = "up"
  /\ \E p \in Paths \ run.scratch :
       /\ \E m \in Innermost(Mounts(run.unit), p) : m.empty
       /\ run' = [run EXCEPT !.scratch = @ \cup {p}]
  /\ UNCHANGED <<record, hostVars, agent, applyVars, fleetVars, faults>>

\* The image behind an image mount gains or loses its credentials.
Repull ==
  /\ Event /\ agent = "up"
  /\ \E i \in {m.src : m \in {n \in RealMounts[run.unit] : n.image}} :
          pulled' = IF i \in pulled THEN pulled \ {i} ELSE pulled \cup {i}
  /\ UNCHANGED <<record, disk, loaded, stored, run, agent, applyVars, fleetVars,
                 faults>>

\* The Operator edits the quadlet on the Host, to one that starts, and restarts
\* the Agent, as the guard's refusal says.
EditUnit ==
  /\ Event /\ agent = "up" /\ Idle /\ (Uncut \/ disk = record)
  /\ \E d \in Quadlets, u \in Scenarios[scenario].edits :
       /\ ServiceFiles(disk) = {d} /\ record[d] # Absent
       /\ disk[d] # u /\ CanStart(u, disk)
       /\ \A x \in (UnitSecrets(u) \cap Secrets) \cup UnitVolumes(u) :
            record[x] # Absent
       /\ disk' = [disk EXCEPT ![d] = u]
  /\ Reload(disk')
  /\ agent' = "starting" /\ run' = NoRun
  /\ UNCHANGED <<record, stored, pulled, applyVars, fleetVars, faults>>

----------------------------------------------------------------------------
\* The Agent runs from the quadlet of the Fleet's commit.
Init ==
  /\ scenario \in DOMAIN Scenarios
  /\ head \in Scenarios[scenario].starts /\ head.bundled
  /\ AgentQuadlets(head) # {}
  /\ stored \in {Scenarios[scenario].given, Scenarios[scenario].places}
  /\ disk = head.files /\ record = disk
  /\ loaded = disk[AgentQuadlet(head)]
  /\ pulled \in SUBSET {m.src : m \in {n \in RealMounts[loaded] : n.image}}
  /\ ServiceFiles(disk) = {AgentQuadlet(head)} /\ CanStart(loaded, disk)
  /\ run = Container
  /\ agent = "up" /\ applying = {} /\ target = Absent /\ before = None
  /\ restart = FALSE
  /\ events = Scenarios[scenario].events /\ faults = Scenarios[scenario].faults

Reconciles == Tick \/ WriteNext \/ Finish

Next == \/ Reconciles \/ Fails \/ Ends \/ Starting \/ Exits
        \/ Push \/ Deliver \/ WriteInside \/ Repull \/ EditUnit

Spec == Init /\ [][Next]_vars

----------------------------------------------------------------------------
(* Properties. *)

TypeOK ==
  /\ {head, target} \subseteq Scenarios[scenario].commits \cup {Absent}
  /\ stored \subseteq Places /\ applying \subseteq Dests
  /\ DOMAIN disk = Dests /\ DOMAIN record = Dests
  /\ agent \in {"up", "starting", "exited", "gone"} /\ restart \in BOOLEAN
  /\ target = Absent => applying = {} /\ ~restart
  /\ (agent = "up") <=> run # NoRun
  /\ events \in 0..MaxEvents /\ faults \in 0..MaxFaults

\* No commit of this behaviour gives the Agent up.
Staying == \A c \in Scenarios[scenario].commits : c.bundled

\* Whenever the Agent's process ends, also between two writes of an apply, its
\* next start finds a unit with all its sources, a config that loads, and every
\* credential file the config names, with the unit systemd has loaded and with
\* the one a reboot loads, if one is there: no commit locks the Agent out.
NextStartReady ==
  Staying =>
    /\ loaded # Absent
    /\ \A u \in {loaded} \cup {disk[d] : d \in StartsFrom(disk)} : CanStart(u, disk)
    /\ agent # "gone"

\* The mounts, the identity and the config path of the unit the Agent is started
\* from change only by the hand of the Host's Operator, through renames, crashes
\* and rollbacks.
FrozenByHost ==
  [][\/ EditUnit \/ Absent \in {loaded, loaded'}
     \/ Frozen(loaded) = Frozen(loaded')]_vars

\* While the Fleet manages the Agent and no apply was cut short, an Agent that
\* has nothing to apply runs from the one quadlet of the commit it has applied,
\* whatever else the Fleet's units call themselves.
RunsTheFleetsUnit ==
  /\ agent = "up" /\ Idle /\ Uncut
  /\ record = head.files /\ head.bundled
  => AgentQuadlets(head) # {} /\ ServiceFiles(disk) = {AgentQuadlet(head)}

\* Must commit c be applied now? It leaves the unit's
\* frozen lines and sources alone, and all credentials its config names lie in a
\* Host directory.
Acceptable(c) ==
  /\ AgentQuadlets(c) # {} /\ OneAgentService(c)
  /\ \A d \in Dests \ Secrets : record[d] # Absent => c.files[d] # Absent
  /\ \A s \in Secrets : c.files[s] # Absent
  /\ \A d \in StartsFrom(disk) :
       LET u == disk[d]
           cfg == Config(c.files[ConfigSecret(u)])
       IN  /\ Frozen(u) = Frozen(c.files[AgentQuadlet(c)])
           /\ ConfigSecret(u) \in Secrets /\ ~VolumesFrom(u)
           /\ \A m \in Mounts(u) : m.placed
           /\ Load(cfg) /\ Credentials(cfg) = Located(cfg)
           /\ Has(cfg, "repo_url")
           /\ \A s \in Credentials(cfg) :
                \/ IsDir(s)
                \/ \E x \in stored :
                     /\ x.path = PathOf(cfg, s)
                     /\ Innermost(Mounts(u), x.path) # {}
                     /\ \A m \in Innermost(Mounts(u), x.path) :
                          m.src = x.src /\ m.volumeUnit = Absent
                          /\ m.secret = Absent /\ ~m.empty /\ ~m.image

\* The guard refuses no more than it must: once the Operator has delivered what
\* a config names, an idle Agent runs with that config or takes the commit, if no
\* apply was cut short (what that leaves behind is Reconcile's).
ConfigTaken ==
  agent = "up" /\ Idle /\ Uncut /\ Acceptable(head)
    => \/ Changed(head) # {} /\ Allows(head)
       \/ run.cfg = head.files[ConfigSecret(run.unit)]

\* The config the Agent runs with, if the Fleet renders it.
Running == agent = "up" /\ run.cfg # Absent
RunCfg  == Config(run.cfg)

\* An Agent has at most one way to log in to git, and it is complete.
OneGitLogin ==
  Running => /\ Cardinality(GitTokens \cap RunCfg.set)
                  + Cardinality(AppModes(RunCfg)) <= 1
             /\ \A m \in AppModes(RunCfg) : m \subseteq RunCfg.set

\* What a server bound to host h accepts connections to.
Accepts(h) == IF h \in Wildcards \cup {AllHosts} THEN {Loopback, "10.0.0.5"}
              ELSE {h}

\* What the health check and the trigger command dial reaches the Agent's
\* server, at a port the kernel can bind, and every setting that names a port
\* names this one.
ServerReachable ==
  Running => /\ DialHost(RunCfg) \in Accepts(ListenHost(RunCfg))
             /\ ListenPort(RunCfg) \in Ports
             /\ RunCfg.metrics \in {UnsetPort, ListenPort(RunCfg)}

\* No credential the Agent sends somewhere is another one: no two settings of a
\* running Agent's config name the same file, or a file in a directory of the
\* other.
CredentialsApart ==
  Running => \A s, t \in Credentials(RunCfg) :
    s # t => /\ PathOf(RunCfg, s) # PathOf(RunCfg, t)
             /\ IsDir(s) => ~Under(PathOf(RunCfg, t), PathOf(RunCfg, s))

\* No config that contradicts itself is ever run with: it would be refused only
\* where it is used, by git, by a port or by a server, when the Agent is the one
\* that has to deploy the correction (Validate, rejectSharedCredential).
RunningConfigSound == OneGitLogin /\ ServerReachable /\ CredentialsApart
=============================================================================
