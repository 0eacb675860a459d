------------------------------- MODULE Fleet -------------------------------
(***************************************************************************)
(* A Fleet repository as picolet reads it (pkg/config, and the expansion   *)
(* of pkg/resolver): which commits load, which files a Host is assigned,   *)
(* of which category each is and where it deploys.                         *)
(*                                                                         *)
(* A commit F is a record                                                  *)
(*   broken    the files of "fleet.yml", "assignments.yml", "operators.yml"*)
(*             that do not parse or hold a retired key                     *)
(*   ports     the Agents' default ports, by AgentKind                     *)
(*   hosts     host directory -> what its host.yml declares                *)
(*   base, roles, features    assignment groups [paths, secrets, services] *)
(*   tree      source -> what the file at it is (see Source)               *)
(*   entries   `paths:` entry -> [state, sources below it]                 *)
(*   refs      Secret Reference -> [scheme, path, ptr, name]               *)
(*   files     path -> the SOPS file at it (module Sops)                   *)
(*   rules     the root's creation rules (module Sops)                     *)
(*   operators Operator -> age recipients                                  *)
(* A Source is a record                                                    *)
(*   service   the bundle it lies in, or ""                                *)
(*   role      "meta" for a bundle's picolet.yml, "sops" for a SOPS file   *)
(*             or .sops.yaml, "file" for any other                         *)
(*   named     the names among manifests/, files/ and secrets/ its path    *)
(*             has, deep when one is not its first segment                 *)
(*   ext       extension, without .tmpl                                    *)
(*   dest      its path below the directory it deploys to                  *)
(*   regular   it is a regular file                                        *)
(*   template, calls, unit, container, hooks    (module Resolver)          *)
(*   uses, pod, build, place, config, check     (module Validator)         *)
(***************************************************************************)
EXTENDS Sops, FiniteSetsExt

-----------------------------------------------------------------------------
(* The category table. *)

\* Row order is resolution order.
Rows == << "network", "systemd", "volume", "image", "build", "container", "kube",
           "pod", "manifest", "file", "secret", "artifact" >>
Categories == {Rows[i] : i \in DOMAIN Rows}
Row(c)     == CHOOSE i \in DOMAIN Rows : Rows[i] = c

Dest(c) == CASE c = "systemd"             -> "systemd"
             [] c \in {"manifest", "file"} -> "data"
             [] c = "secret"               -> "secret"
             [] OTHER                      -> "quadlet"

\* How a category's unit is named: by the file, by Podman, or not at all.
UnitNaming(c) == CASE Dest(c) = "systemd" -> "file"
                   [] Dest(c) = "quadlet" -> "generated"
                   [] OTHER               -> "none"

Supported(c) == c # "artifact"

SystemdExtensions == {"service", "timer", "socket", "target", "path"}
QuadletExtensions == {c \in Categories : Dest(c) = "quadlet"}
CategoryForExtension(ext) ==
    IF ext \in SystemdExtensions THEN "systemd"
    ELSE IF ext \in QuadletExtensions THEN ext ELSE "none"

SegmentCategory == [manifests |-> "manifest", files |-> "file", secrets |-> "secret"]

\* The category of a source reached through its bundle or a `paths:` entry;
\* in the latter case a bundle's directories are not the first segment.
CategoryForPath(s, bundled) ==
    IF Cardinality(s.named) > 1 THEN "none"
    ELSE IF s.named # {}
    THEN IF s.deep \/ (s.service # "" /\ ~bundled) THEN "none"
         ELSE SegmentCategory[CHOOSE n \in s.named : TRUE]
    ELSE CategoryForExtension(s.ext)

-----------------------------------------------------------------------------
(* Hosts.  A host.yml is a record [hostname, machine, user, port, role,     *)
(* features, recipients, fault], with "" or 0 for what it leaves out and    *)
(* fault one of "none", "unknownKey", "recipients" (a malformed             *)
(* age_recipients:) and "invalid".                                          *)

AgentKind(host)    == IF host.user = "" THEN "rootful" ELSE "user"
AgentService(host) == IF host.user = "" THEN "picolet-system" ELSE "picolet"

\* loadHost: lenient for the Agent, strict for every other caller.
HostLoads(host, lenient) ==
    \/ host.fault = "none"
    \/ lenient /\ host.fault \in {"unknownKey", "recipients"}

AgeRecipients(host) == IF host.fault = "recipients" THEN {} ELSE host.recipients
Machine(host)       == IF host.machine = "" THEN host.hostname ELSE host.machine
ListenPort(F, host) == IF host.port # 0 THEN host.port ELSE F.ports[AgentKind(host)]

\* validateTopology: hostnames differ, and so do the users and the ports of a
\* Machine.
DistinctHosts(F) ==
    \A d, e \in DOMAIN F.hosts :
        LET h == F.hosts[d]  g == F.hosts[e] IN
        d # e => /\ h.hostname # g.hostname
                 /\ Machine(h) = Machine(g) =>
                       h.user # g.user /\ ListenPort(F, h) # ListenPort(F, g)

LoadAll(F, lenient) ==
    /\ F.broken \cap {"fleet.yml", "assignments.yml"} = {}
    /\ DOMAIN F.hosts # {}
    /\ \A d \in DOMAIN F.hosts :
         /\ HostLoads(F.hosts[d], lenient)
         /\ F.hosts[d].port # 0 \/ AgentKind(F.hosts[d]) \in DOMAIN F.ports
    /\ DistinctHosts(F)

\* FindHost: by directory, else by hostname.
FindHost(F, name) ==
    IF name \in DOMAIN F.hosts THEN {name}
    ELSE {d \in DOMAIN F.hosts : F.hosts[d].hostname = name}

\* HostRecipientOwners names Hosts by their directories.
Owners(F, recipient) ==
    {d \in DOMAIN F.hosts : recipient \in AgeRecipients(F.hosts[d])}

\* LoadOperators: a recipient belongs to an Operator or to Hosts, never both.
OperatorKeys(F) == UNION {F.operators[o] : o \in DOMAIN F.operators}
OperatorsLoad(F) ==
    /\ "operators.yml" \notin F.broken
    /\ \A k \in OperatorKeys(F) : IsRecipient(k) /\ Owners(F, k) = {}

-----------------------------------------------------------------------------
(* Assignments: the merge of base, role and features, and its expansion     *)
(* into categorized files.                                                  *)

Groups(F, host) ==
    {F.base} \cup {F.roles[r] : r \in {host.role} \cap DOMAIN F.roles}
             \cup {F.features[f] : f \in host.features \cap DOMAIN F.features}

Resolve(F, host) ==
    [paths    |-> UNION {g.paths    : g \in Groups(F, host)},
     secrets  |-> UNION {g.secrets  : g \in Groups(F, host)},
     services |-> UNION {g.services : g \in Groups(F, host)}]

AssignedAgentService(F, host) == AgentService(host) \in Resolve(F, host).services

\* ResolveServicesForHost asks for assigned bundles only.
ServicesOnly(service) == [paths |-> {}, secrets |-> {}, services |-> {service}]

Bundle(F, service) == {s \in DOMAIN F.tree : F.tree[s].service = service}

\* expandTree skips hook metadata and SOPS files.
Walked(F, sources) == {s \in sources : F.tree[s].role = "file"}
Metadata(F, service) == {s \in Bundle(F, service) : F.tree[s].role = "meta"}

WalkFails(F, sources, bundled) ==
    \E s \in Walked(F, sources) :
        ~F.tree[s].regular \/ CategoryForPath(F.tree[s], bundled) = "none"

\* A missing or empty bundle, or one with two picolet.yml, fails.
BundleFails(F, service) ==
    \/ Walked(F, Bundle(F, service)) = {}
    \/ Cardinality(Metadata(F, service)) > 1
    \/ \E s \in Metadata(F, service) : ~F.tree[s].regular
    \/ WalkFails(F, Bundle(F, service), TRUE)

\* An entry outside the Fleet or missing from it fails, and so does one that
\* names a SOPS file itself.
PathFails(F, entry) ==
    \/ entry \notin DOMAIN F.entries
    \/ entry \in DOMAIN F.tree /\ F.tree[entry].role = "sops"
    \/ WalkFails(F, F.entries[entry], FALSE)

\* rejectPlainSOPSSecrets
PlainSopsSecret(F, secret) == secret \in DOMAIN F.tree /\ F.tree[secret].role = "sops"

ExpandFails(F, set) ==
    \/ \E b \in set.services : BundleFails(F, b)
    \/ \E e \in set.paths : PathFails(F, e)
    \/ \E s \in set.secrets : PlainSopsSecret(F, s)

\* A fileRef: a file reached twice deploys once.
FileRef(src, category) == [src |-> src, category |-> category]

BundleRefs(F, b) ==
    {FileRef(s, CategoryForPath(F.tree[s], TRUE)) : s \in Walked(F, Bundle(F, b))}
EntryRefs(F, e) ==
    {FileRef(s, CategoryForPath(F.tree[s], FALSE)) : s \in Walked(F, F.entries[e])}

Expand(F, set) ==
    (UNION {BundleRefs(F, b) : b \in set.services})
    \cup (UNION {EntryRefs(F, e) : e \in set.paths})
    \cup {FileRef(s, "secret") : s \in set.secrets}

HookFiles(F, set) == UNION {Metadata(F, b) : b \in set.services}

IsProviderRef(F, src) == src \in DOMAIN F.refs

\* The Podman secret a ref deploys as.
SecretName(F, ref) == F.refs[ref].name

\* destPath; a ref that yields no Podman secret name, or a secret of the Host
\* only, which is not in the tree, is named by itself.
DestName(F, src) ==
    IF IsProviderRef(F, src) THEN SecretName(F, src)
    ELSE IF src \in DOMAIN F.tree THEN F.tree[src].dest ELSE src
DestPath(F, ref) == << Dest(ref.category), DestName(F, ref.src) >>

DestFails(F, refs) == \E r \in refs : IsProviderRef(F, r.src) /\ SecretName(F, r.src) = ""

\* Mutant: secrets by reference are left out.
CollidesInTree(F, refs) ==
    \E r \in refs, t \in refs :
        /\ r.src # t.src /\ ~IsProviderRef(F, r.src) /\ ~IsProviderRef(F, t.src)
        /\ DestPath(F, r) = DestPath(F, t)

\* detectCollisions
Collides(F, refs) ==
    \E r \in refs, t \in refs : r.src # t.src /\ DestPath(F, r) = DestPath(F, t)
=============================================================================
