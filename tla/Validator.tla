----------------------------- MODULE Validator -----------------------------
(***************************************************************************)
(* validate and the Agents over one Fleet commit: `picolet validate`       *)
(* (pkg/validator) resolves every Host without a key, renders the Agent    *)
(* bundles strictly and runs its Fleet-wide passes; then Agents resolve    *)
(* their Hosts and check the files alike, while the vaults change and      *)
(* calls to them fail.                                                     *)
(***************************************************************************)
EXTENDS Resolver, BuildUnit

\* What Quadlet lets a unit name, on which the order of its conversions rests:
\* networks and images name no unit, volumes images and builds only, and no
\* unit names a kube.  A path is its segments.
UnitsWellFormed(f) ==
    \A s \in DOMAIN f.tree :
        LET file == f.tree[s] IN
        /\ file.ext \in {"network", "image"} => file.uses = {}
        /\ \A t \in DOMAIN f.tree :
             f.tree[t].ext \in QuadletExtensions /\ f.tree[t].dest \in file.uses =>
                 /\ f.tree[t].ext # "kube"
                 /\ file.ext = "volume" => f.tree[t].ext \in {"image", "build"}
        /\ {file.build.file.at, file.build.workDir.at} \subseteq Seq(STRING)

ASSUME ValidatorAssumption ==
    \A f \in Fleets : UnitsWellFormed(f) /\ \A p \in DOMAIN f.files : IsFile(f.files[p])

-----------------------------------------------------------------------------
(* The validator on a resolve's files. *)

\* Podman converts a unit once it knows the units it names, and the resource
\* of each: prefilled from the unit, or set as the unit itself is converted.
Prefill      == {"build", "container", "pod"}
PreConvert   == {"image", "network", "volume", "container", "kube", "pod"}
ConvertOrder == [image |-> 1, network |-> 2, volume |-> 2, build |-> 3, container |-> 4,
                 kube |-> 4, pod |-> 5]

Quadlets == {f \in run.out : Dest(f.category) = "quadlet" /\ F.tree[f.src].unit # ""}
Names(files) == {F.tree[f.src].dest : f \in files}
Uses(f) == F.tree[f.src].uses

\* Mutant: the pass ahead of the per-file one is left out.
PrefilledOnly == Names({q \in Quadlets : q.category \in Prefill})

\* buildUnitsInfoFromFiles; an error of this pass is the unit's own later.
Converted[rank \in 0..5] ==
    IF rank = 0 THEN Names({q \in Quadlets : q.category \in Prefill})
    ELSE Converted[rank - 1] \cup
         Names({q \in Quadlets : /\ q.category \in PreConvert
                                 /\ ConvertOrder[q.category] = rank
                                 /\ Uses(q) \subseteq Converted[rank - 1]})

UnitsInfo == Converted[5]

\* analyzeQuadlet: the Agent's own unit joins no pod.
SelfUnits == {"picolet", "picolet-system"}
QuadletClass(f) ==
    IF F.tree[f.src].unit = ""               THEN "syntax"
    ELSE IF ~(Uses(f) \subseteq UnitsInfo)   THEN "conversion"
    ELSE IF F.tree[f.src].pod /\ F.tree[f.src].unit \in SelfUnits THEN "selfPod"
    ELSE "ok"

\* delivery: a path in the data directories is wrong if the Fleet delivers
\* nothing there; any other one may be there on the Host.
HostDataDir == << "data" >>
UnitDir     == << "quadlets" >>
DataFiles == {HostDataDir \o F.tree[f.src].place : f \in {x \in run.out : Dest(x.category) = "data"}}
Owns(path) == \E sub \in {"files", "manifests"} : IsPrefix(Append(HostDataDir, sub), path)
DeliversBelow(dir) == \E file \in DataFiles : IsStrictPrefix(dir, file)

MissesContainerfile(u, p) ==
    /\ p.complete
    /\ \A file \in p.files : Owns(file) /\ file \notin DataFiles
    /\ u.file = NoValue => DeliversBelow(p.context)

MissesDir(dir) == Owns(dir) /\ ~DeliversBelow(dir)

ChecksBuild(u, p) ==
    /\ ~MissesContainerfile(u, p)
    /\ ~(p.named /\ MissesDir(p.context))
    /\ ~(IsAbs(u.workDir) /\ MissesDir(u.workDir.at))

\* What the parser of its category finds in a file's content.
ContentCheck(f) == IF f.src \in DOMAIN F.tree THEN F.tree[f.src].check ELSE "ok"

\* The error of a file; a parser's quotes the content.
AnalyzeFile(f) ==
    IF ~Supported(f.category) THEN Err("unsupported")
    ELSE IF f.category = "secret" /\ f.content \subseteq {Blank} THEN Err("emptySecret")
    ELSE IF ContentCheck(f) # "ok" THEN [class |-> "invalid", quotes |-> f.content]
    ELSE IF Dest(f.category) = "quadlet" /\ QuadletClass(f) # "ok" THEN Err(QuadletClass(f))
    ELSE IF f.category = "build" /\ ~ChecksBuild(F.tree[f.src].build,
                                                 ResolveBuild(F.tree[f.src].build, UnitDir))
    THEN Err("undelivered")
    ELSE NoErr

\* checkAgentConfigMount: the secret the Agent's own Quadlet mounts its config
\* from is one of the bundle's.
AgentConfigMount ==
    {F.tree[f.src].config : f \in {x \in run.out :
        /\ Dest(x.category) = "quadlet"
        /\ F.tree[x.src].unit = AgentService(F.hosts[run.host])}} \ {""}
SecretNames == {DestName(F, f.src) : f \in {x \in run.out : x.category = "secret"}}

FileErrors == {AnalyzeFile(f) : f \in run.out} \ {NoErr}

\* scrubError: the Agent's errors lose the values of the files it decrypted.
Scrub(values) == {v \in values : ~(/\ v.what = "secret"
                                   /\ F.refs[v.ref].scheme = "sops"
                                   /\ F.refs[v.ref].path \in run.opened)}

Analyze ==
    /\ Done("analyze")
    /\ Unchanging /\ UNCHANGED faults
    /\ IF Strict
       THEN IF AgentConfigMount \subseteq SecretNames THEN run' = [run EXCEPT !.pc = "done"]
            ELSE Fail(Err("configMount"))
       ELSE IF FileErrors = {} THEN run' = [run EXCEPT !.pc = "done"]
       ELSE \E e \in FileErrors : Fail([e EXCEPT !.quotes = Scrub(@)])

-----------------------------------------------------------------------------
(* validate: ValidateAll resolves the Hosts one by one, then the Agent      *)
(* bundles, then checks the SOPS files.                                     *)

Hosts == DOMAIN F.hosts
NoCI  == [phase |-> "load", todo |-> {}, readers |-> {}, unresolved |-> {}, bad |-> FALSE]

LoadFleet ==
    /\ ci.phase = "load"
    /\ ci' = IF LoadAll(F, FALSE) THEN [NoCI EXCEPT !.phase = "hosts", !.todo = Hosts]
             ELSE [NoCI EXCEPT !.phase = "done", !.bad = TRUE]
    /\ UNCHANGED << F, vault, faults, run >>

ValidateHost(h) ==
    /\ ci.phase = "hosts" /\ Done("idle") /\ h \in ci.todo
    /\ run' = Begun("validate", h, Resolve(F, F.hosts[h]))
    /\ UNCHANGED << F, vault, faults, ci >>

\* Only Hosts the Agent's bundle is assigned to have one to render.
ValidateAgentBundle(h) ==
    /\ ci.phase = "bundles" /\ Done("idle") /\ h \in ci.todo
    /\ run' = Begun("bundle", h, ServicesOnly(AgentService(F.hosts[h])))
    /\ UNCHANGED << F, vault, faults, ci >>

Bundled == {h \in Hosts : AssignedAgentService(F, F.hosts[h])}

AfterTodo(c) ==
    IF c.todo # {} THEN c
    ELSE IF c.phase = "hosts" /\ Bundled # {} THEN [c EXCEPT !.phase = "bundles", !.todo = Bundled]
    ELSE [c EXCEPT !.phase = "passes"]

AnalyzeClasses == {"invalid", "unsupported", "emptySecret", "syntax", "conversion", "selfPod",
                   "undelivered"}

\* A Host's SOPS files count once it resolved, whether or not they are valid.
Tell ==
    /\ run.pc \in {"done", "failed"} /\ run.mode # "agent"
    /\ LET resolved == run.pc = "done" \/ run.err.class \in AnalyzeClasses
           next == [ci EXCEPT !.todo = @ \ {run.host}, !.bad = @ \/ run.pc = "failed"]
       IN ci' = AfterTodo(IF run.mode = "bundle" THEN next
                          ELSE IF resolved
                          THEN [next EXCEPT !.readers = @ \cup {<< run.host, p >> : p \in run.reached}]
                          ELSE [next EXCEPT !.unresolved = @ \cup {run.host}])
    /\ run' = Idle
    /\ UNCHANGED << F, vault, faults >>

\* Mutant: that some Host reads the file is enough.
ReadsFileSomewhere(k, path) == Owners(F, k) # {} /\ \E h \in Hosts : << h, path >> \in ci.readers

\* audience.readsFile
ReadsFile(k, path) == \E h \in Owners(F, k) : << h, path >> \in ci.readers

\* The audience pass; skipped while some Host's files are unknown.
AudienceFails(path) ==
    /\ ci.unresolved = {} /\ OperatorsLoad(F)
    /\ \E k \in Recipients(F.files[path]) : k \notin OperatorKeys(F) /\ ~ReadsFile(k, path)

SopsFileFails(path) ==
    \/ F.files[path].state # "sops"
    \/ AudienceFails(path)
    \/ RuleClass(F.rules, path, F.files[path]) # "ok"

ValidateSOPSFiles ==
    /\ ci.phase = "passes"
    /\ ci' = [ci EXCEPT !.phase = "done",
                        !.bad = @ \/ ~OperatorsLoad(F) \/ \E p \in DOMAIN F.files : SopsFileFails(p)]
    /\ UNCHANGED << F, vault, faults, run >>

-----------------------------------------------------------------------------
(* An Agent's resolve of its Host (loadAndResolveHost), and its vaults.     *)

AgentResolves(name) ==
    /\ ci.phase = "done" /\ Done("idle")
    /\ LoadAll(F, TRUE)
    /\ \E h \in FindHost(F, name) : run' = Begun("agent", h, Resolve(F, F.hosts[h]))
    /\ UNCHANGED << F, vault, faults, ci >>

AgentEnds ==
    /\ run.mode = "agent" /\ run.pc \in {"done", "failed"}
    /\ run' = Idle
    /\ UNCHANGED << F, vault, faults, ci >>

Rotate(ref) ==
    /\ run.mode = "agent" /\ run.pc \notin {"done", "failed"}
    /\ vault[ref] < MaxRotations
    /\ vault' = [vault EXCEPT ![ref] = @ + 1]
    /\ UNCHANGED << F, faults, ci, run >>

Init ==
    /\ F \in Fleets
    /\ vault = [x \in Vaults |-> 0]
    /\ faults = 0
    /\ ci = NoCI
    /\ run = Idle

ResolveStep == \/ ExpandAndValidate \/ Collect \/ ResolveCache \/ ResolveDirectSecrets
               \/ BuildFile \/ BuildHooks \/ Analyze

Next ==
    \/ LoadFleet \/ ValidateSOPSFiles \/ Tell
    \/ \E h \in Hosts : ValidateHost(h) \/ ValidateAgentBundle(h)
    \/ ResolveStep
    \/ \E h \in Hosts : AgentResolves(F.hosts[h].hostname)
    \/ AgentEnds
    \/ \E ref \in Vaults : Rotate(ref)

Spec == Init /\ [][Next]_vars

-----------------------------------------------------------------------------
(* Properties. *)

Held(f)    == {v \in f.content : v.what \in {"secret", "stub"}}
Finished   == run.pc = "done"
RenderedFiles == {f \in run.out : ~IsProviderRef(F, f.src)}

\* The state has its shape: content is of known kinds, versions are bounded.
TypeOK ==
    /\ vault \in [Vaults -> 0..MaxRotations] /\ faults \in 0..MaxFaults
    /\ ci.phase \in {"load", "hosts", "bundles", "passes", "done"}
    /\ ci.todo \subseteq Hosts /\ ci.unresolved \subseteq Hosts /\ ci.bad \in BOOLEAN
    /\ ci.readers \subseteq Hosts \X {F.refs[x].path : x \in DOMAIN F.refs}
    /\ run.mode \in {"none", "validate", "bundle", "agent"}
    /\ run.resolved \subseteq SchemeSet
    /\ run.pending \cup run.data \subseteq DOMAIN F.refs
    /\ DOMAIN run.cache \subseteq run.pending /\ DOMAIN run.direct \subseteq run.set.secrets
    /\ \A f \in run.out : \A v \in f.content :
         v.what \in {"secret", "stub", "plain", "blank", "pending", "empty", "hostonly"}
    /\ run.pc = "failed" <=> run.err # NoErr

\* A ref collected on the first pass is read once: however a vault rotates
\* meanwhile, every template of the resolve renders the same value of it.
CollectedOnce ==
    \A f, g \in RenderedFiles : \A v \in Held(f), w \in Held(g) :
        v.ref = w.ref /\ v.ref \in run.pending => v = w

\* No file is built from a first-pass placeholder, whichever calls the second
\* pass makes that the first did not.
NoPendingRendered == \A f \in run.out : Pending \notin f.content

\* No Quadlet and no raw unit holds a provider's value, through any chain of
\* templates it includes.
UnitsHoldNoSecret ==
    \A f \in run.out : Dest(f.category) \in {"quadlet", "systemd"} => Held(f) = {}

\* A resolve that ends well built every assigned file once, each to a
\* destination of its own; only direct secrets of an unconfigured provider
\* are missing, and never a SOPS one.
DoneIsComplete ==
    Finished =>
        LET assigned == Expand(F, run.set)
            built    == {FileRef(f.src, f.category) : f \in run.out}
        IN  /\ built \subseteq assigned
            /\ \A r \in assigned \ built :
                 \E p \in {"op", "pp"} : IsRefOf(p, r.src) /\ ~HasReader(p)
            /\ \A f, g \in run.out : f # g =>
                 DestPath(F, FileRef(f.src, f.category)) # DestPath(F, FileRef(g.src, g.category))

\* The SOPS files a Host is assigned to read, by its templates' calls and its
\* direct secrets.
AssignedCalls(h) ==
    UNION {Range(Flat(F, r.src, Templates)) :
             r \in {x \in Expand(F, Resolve(F, F.hosts[h])) : Template(x.src)}}
AssignedFiles(h) ==
    SopsPaths({x \in {c.arg : c \in AssignedCalls(h)} \cup Resolve(F, F.hosts[h]).secrets :
                 IsRefOf("sops", x)})

\* A vault's call whose argument validate, which has no vault, never looks at.
Unchecked(c) ==
    /\ c.fn \in {"readOpSecret", "readProtonPassSecret"}
    /\ c.built \/ ~IsRefOf(SchemeOf(c.fn), c.arg)

\* What validate accepts, an Agent that holds its Host's declared identity and
\* has every provider resolves: only a provider, a secret file of the Host,
\* ciphertext that was tampered with or an argument that validate never looked
\* at can still fail it.
ValidatedResolves ==
    /\ run.mode = "agent" /\ run.pc = "failed" /\ ~ci.bad
    /\ AgeRecipients(F.hosts[run.host]) \subseteq Agent.ids /\ {"op", "pp"} \subseteq Agent.providers
    => \/ run.err.class \in {"provider", "secretFile", "edited"}
       \/ run.err.class = "notARef" /\ \E c \in AssignedCalls(run.host) : Unchecked(c)

\* A commit passes validate only if each of its SOPS files is encrypted to
\* Operators and to Hosts that are assigned a use of it, to no one else.
ValidatedAudience ==
    ci.phase = "done" /\ ~ci.bad =>
        \A p \in DOMAIN F.files : \A k \in Recipients(F.files[p]) :
            k \in OperatorKeys(F) \/ \E h \in Owners(F, k) : p \in AssignedFiles(h)

\* The files of a bootstrap bundle hold no provider value and no placeholder
\* of one: a bootstrap would apply it as the Agent's config.
BootstrapHoldsNoValue ==
    run.mode = "bundle" /\ Finished =>
        \A f \in run.out : Held(f) = {} /\ \A p \in SchemeSet : Empty(p) \notin f.content

\* An error that leaves a resolve tells no value decrypted from SOPS, and a
\* vault's value only where it quotes the file that did not parse.
ErrorsHoldNoValue ==
    \A v \in run.err.quotes :
        v.what = "secret" => run.err.class = "invalid" /\ F.refs[v.ref].scheme # "sops"

\* A file that holds a SOPS value is marked, so that no content hash of it is
\* shown and a keyless dry-run does not compare it.
SopsMarked ==
    \A f \in run.out : (\E v \in Held(f) : F.refs[v.ref].scheme = "sops") => f.sopsValues

\* An Agent deploys the values of its SOPS refs or nothing: no placeholder of
\* a keyless read, and none where it has no identity.
AgentRendersValues ==
    run.mode = "agent" =>
        \A f \in run.out : Empty("sops") \notin f.content /\ \A v \in f.content : v.what # "stub"

\* However a resolve orders its files, the Quadlets that name only units of
\* the resolve, whose own references lead there too, are converted.
CrossReferencesConvert ==
    run.pc = "analyze" =>
        \A f \in Quadlets :
            /\ Supported(f.category)
            /\ \A q \in {f} \cup {g \in Quadlets : F.tree[g.src].dest \in Uses(f)} :
                 Uses(q) \subseteq Names({g \in Quadlets : Supported(g.category)})
            => QuadletClass(f) # "conversion"

\* A build that runs in a directory the Fleet delivers, by an explicit
\* WorkingDirectory=, finds its relative File= there, whatever else the unit says.
BuildsFound ==
    Finished /\ ~Strict =>
        \A f \in {x \in run.out : x.category = "build"} :
            LET u == F.tree[f.src].build IN
            /\ IsAbs(u.workDir) /\ Owns(u.workDir.at) /\ u.file.kind = "rel"
            /\ u.setWorkDir.kind \in {"none", "file", "unit", "rel"}
            => u.workDir.at \o u.file.at \in DataFiles

\* Every file holds the values it is to hold, read once and none of them a
\* stand-in for one.
ValuesRendered ==
    CollectedOnce /\ NoPendingRendered /\ BootstrapHoldsNoValue /\ AgentRendersValues

\* No provider's value gets where it is not to be: into a unit, an error, or a
\* hash that is shown.
SecretsContained == UnitsHoldNoSecret /\ ErrorsHoldNoValue /\ SopsMarked

\* A unit finds what it names, whatever the order of the files.
ReferencesFound == CrossReferencesConvert /\ BuildsFound

\* batchResolveDirectSecrets and buildFiles: a ref of a provider that is not
\* configured is skipped, so the rest of the resolve can proceed.
UnconfiguredSkipped ==
    \A f \in run.out : IsProviderRef(F, f.src) => f.content # {Blank}
=============================================================================
