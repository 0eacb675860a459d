---------------------------- MODULE MCValidator ----------------------------
(* Commits for model-checking Validator: two Hosts on one Machine, of which h1
   is varied: what a template calls and of which category it is; which direct
   secrets it is assigned; to whom its SOPS files are encrypted; and every way
   a commit fails to load or to expand. *)
EXTENDS Validator

----------------------------------------------------------------------------
(* SOPS files. *)

Leaf(enc, empty) == [kind |-> "leaf", enc |-> enc, empty |-> empty]
SopsFile(groups, sealed) ==
  [state |-> "sops", groups |-> groups, sealed |-> sealed, needs |-> 0,
   walks |-> TRUE, mac |-> TRUE,
   tree |-> ("a" :> Leaf(TRUE, FALSE)) @@ ("plain" :> Leaf(FALSE, FALSE))
            @@ ("none" :> Leaf(FALSE, TRUE))
            @@ ("map" :> [kind |-> "map", enc |-> TRUE, empty |-> FALSE])]
ForHost1 == SopsFile(<<{"k1", "ko"}>>, <<{"k1", "ko"}>>)

Ref(scheme, name) == [scheme |-> scheme, path |-> "", ptr |-> Whole, name |-> name,
                      form |-> "ok"]
SopsRef(path, ptr, name) == [scheme |-> "sops", path |-> path, ptr |-> ptr,
                             name |-> name, form |-> "ok"]
Refs ==
  ("op1" :> Ref("op", "op1")) @@ ("op2" :> Ref("op", "op2")) @@ ("pp1" :> Ref("pp", "pp1"))
  @@ ("op9" :> Ref("op", "op9"))
  @@ ("sa" :> SopsRef("x.sops.yaml", "a", "a"))
  @@ ("splain" :> SopsRef("x.sops.yaml", "plain", "plain"))
  @@ ("snone" :> SopsRef("x.sops.yaml", "none", "none"))
  @@ ("smap" :> SopsRef("x.sops.yaml", "map", "map"))
  @@ ("sgone" :> SopsRef("x.sops.yaml", "gone", "gone"))
  @@ ("sall" :> SopsRef("x.sops.yaml", Whole, ""))
  @@ ("sb" :> SopsRef("y.sops.yaml", "a", "b"))
  @@ ("sesc" :> [SopsRef("../z", Whole, "z") EXCEPT !.form = "notClean"])
  @@ ("sbad" :> [SopsRef("x.sops.yaml", "~", "q") EXCEPT !.form = "badPointer"])

MCVaults == {"op1", "op2", "pp1"}

----------------------------------------------------------------------------
(* The tree. *)

NoBuild == [file |-> NoValue, setWorkDir |-> NoValue, workDir |-> NoValue]
Containerfile == Value("abs", <<"data", "files", "Containerfile">>)

Source(service, named, ext, dest) ==
  [service |-> service, role |-> "file", named |-> named, deep |-> FALSE, ext |-> ext,
   dest |-> dest, regular |-> TRUE, template |-> FALSE, calls |-> <<>>, unit |-> "",
   container |-> "", config |-> "", check |-> "ok", uses |-> {}, pod |-> FALSE, place |-> <<>>,
   build |-> NoBuild, hooks |-> <<>>]
Tmpl(s, calls) == [s EXCEPT !.template = TRUE, !.calls = calls]

DataFile(service, name) ==
  [Source(service, {"files"}, "none", "files/" \o name) EXCEPT !.place = <<"files", name>>]

Quadlet == [Source("", {}, "container", "app.container") EXCEPT !.unit = "app",
            !.container = "app"]
AgentQuadlet == [Source("picolet-system", {}, "container", "picolet-system.container")
                 EXCEPT !.unit = "picolet-system", !.config = "config"]
AgentSecret == Tmpl(Source("picolet-system", {"secrets"}, "yml", "config"),
                    <<Call("text", ""), Call("readSecretFile", "broker")>>)
Hook(name, unit, action, container) ==
  [name |-> name, unit |-> unit, quadlet |-> TRUE, action |-> action,
   container |-> container, valid |-> TRUE]
Hooks1 == [Source("web", {}, "yml", "picolet.yml") EXCEPT !.role = "meta",
           !.hooks = <<Hook("reload", "app.container", "signal", "app")>>]
Sops1 == [Source("", {}, "yaml", "x.sops.yaml") EXCEPT !.role = "sops"]

BaseTree ==
  ("units/app.container" :> Quadlet)
  @@ ("units/raw.service" :> Source("", {}, "service", "raw.service"))
  @@ ("units/x.sops.yaml" :> Sops1)
  @@ ("services/picolet-system/picolet-system.container" :> AgentQuadlet)
  @@ ("services/picolet-system/secrets/config" :> AgentSecret)
  @@ ("services/web/web.build" :>
        [Source("web", {}, "build", "web.build") EXCEPT !.unit = "web-build",
         !.build = [NoBuild EXCEPT !.file = Containerfile]])
  @@ ("services/web/files/Containerfile" :> DataFile("web", "Containerfile"))
  @@ ("services/web/picolet.yml" :> Hooks1)
  @@ ("lib" :> Tmpl(Source("", {}, "", "lib"), <<>>))
  @@ ("deeper" :> Tmpl(Source("", {}, "", "deeper"), <<Call("renderTemplate", "lib")>>))

Host(name, user, role, recipients) ==
  [hostname |-> name, machine |-> "m", user |-> user, port |-> 0, role |-> role,
   features |-> {}, recipients |-> recipients, fault |-> "none"]
Group(paths, secrets, services) ==
  [paths |-> paths, secrets |-> secrets, services |-> services]
NoGroup == Group({}, {}, {})

AgentOf(providers, ids) == [providers |-> providers, ids |-> ids, secrets |-> {"broker", "token"}]

Base ==
  [broken |-> {}, ports |-> [rootful |-> 1, user |-> 2],
   hosts |-> ("h1" :> Host("h1", "", "web", {"k1"})) @@ ("h2" :> Host("h2", "u", "db", {"k2"})),
   base |-> NoGroup,
   roles |-> [web |-> Group({"units"}, {}, {"picolet-system", "web"}), db |-> NoGroup],
   features |-> [extra |-> NoGroup],
   tree |-> BaseTree,
   entries |-> [units |-> {"units/app.container", "units/raw.service", "units/x.sops.yaml"}],
   refs |-> Refs, files |-> ("x.sops.yaml" :> ForHost1),
   rules |-> [state |-> "valid", groups |-> ("x.sops.yaml" :> <<{"k1", "ko"}>>)],
   operators |-> [alice |-> {"ko"}],
   agents |-> [h1 |-> AgentOf({"op", "pp"}, {"k1"}), h2 |-> AgentOf({}, {"k2"})]]

----------------------------------------------------------------------------
(* What a template calls, and where: at t, the file of h1 the family varies. *)

Op1  == Call("readOpSecret", "op1")
Op2  == [Call("readOpSecret", "op2") EXCEPT !.built = TRUE]
Op9  == [Call("readOpSecret", "op9") EXCEPT !.built = TRUE]
Pp1  == Call("readProtonPassSecret", "pp1")
Sa   == Call("readSopsSecret", "sa")
SData == Call("readSopsData", "smap")
When(c, when) == [c EXCEPT !.when = when]

Bodies ==
  [op     |-> <<Op1>>,
   pair   |-> <<Op1, Pp1>>,
   sops   |-> <<Sa, Call("readSopsSecret", "splain")>>,
   data   |-> <<SData, Op1>>,
   mixed  |-> <<Op1, Sa, SData>>,
   lib    |-> <<Call("renderTemplate", "deeper")>>,
   loop   |-> <<Call("renderTemplate", "units/loop")>>,
   built  |-> <<Op1, Op2, Sa>>,
   lost   |-> <<Op1, Op9>>,
   fromdata |-> <<SData, Op2>>,
   late   |-> <<Op1, When(Pp1, "value")>>,
   units  |-> <<When(Op1, "units"), When(Sa, "units")>>,
   latedata |-> <<Op1, When(Call("readSopsData", "sb"), "value")>>,
   file   |-> <<Call("readSecretFile", "token")>>,
   nofile |-> <<Call("readSecretFile", "lost")>>,
   badptr |-> <<Call("readSopsSecret", "sgone")>>,
   notref |-> <<Call("readSopsSecret", "op1")>>,
   notop  |-> <<Sa, Call("readOpSecret", "pp1")>>,
   unread |-> <<Call("text", ""), Op2>>,
   escape |-> <<Call("readSopsSecret", "sesc")>>]

Where ==
  [container |-> Quadlet, service |-> Source("", {}, "service", "t.service"),
   file |-> Source("", {"files"}, "yml", "files/t.yml"),
   bad |-> [Source("", {"files"}, "yml", "files/t.yml") EXCEPT !.check = "invalid"],
   manifest |-> Source("", {"manifests"}, "yml", "manifests/t.yml"),
   secret |-> Source("", {"secrets"}, "yml", "t"),
   meta |-> [Hooks1 EXCEPT !.service = "web"]]

\* The SOPS files body reads; another one in the commit would be read by no Host.
FilesRead(body) ==
  {Refs[c.arg].path : c \in {x \in Range(Bodies[body] \o IF body = "lib" THEN <<Sa>> ELSE <<>>) :
                              x.arg \in DOMAIN Refs}} \cap {"x.sops.yaml", "y.sops.yaml"}

\* The calls of body at where, in h1's role.
Rendering(body, where, providers, ids) ==
  LET t   == IF where = "meta" THEN "services/web/picolet.yml"
             ELSE IF where = "container" THEN "units/app.container" ELSE "units/t"
      old == Base.tree
      src == Tmpl(Where[where], IF body = "loop" THEN <<Call("renderTemplate", t)>>
                                ELSE Bodies[body])
  IN  [Base EXCEPT
        !.tree = (t :> src) @@ ("lib" :> Tmpl(old["lib"], <<Op1, Sa>>)) @@ old,
        !.entries.units = @ \cup (IF where = "meta" THEN {} ELSE {t}),
        !.files = [p \in FilesRead(body) |-> ForHost1],
        !.agents["h1"] = AgentOf(providers, ids)]

\* Direct secrets of h1.
Direct(secrets, providers, ids) ==
  [Base EXCEPT !.roles["web"].secrets = secrets, !.agents["h1"] = AgentOf(providers, ids)]

\* Who a file is encrypted to, who reads it and who the rule names.
Audience(groups, sealed, readers, rule, needs) ==
  [Base EXCEPT
     !.files = ("x.sops.yaml" :> [SopsFile(groups, sealed) EXCEPT !.needs = needs]),
     !.rules.groups = IF rule THEN ("x.sops.yaml" :> groups) ELSE @,
     !.roles["web"].secrets = IF "h1" \in readers THEN {"sa"} ELSE {},
     !.roles["db"].secrets  = IF "h2" \in readers THEN {"sa"} ELSE {}]

----------------------------------------------------------------------------
(* Commits that do not load, do not expand or are not valid. *)

With(path, source) == [Base EXCEPT !.tree = (path :> source) @@ @, !.entries.units = @ \cup {path}]

Odd ==
  [base     |-> Base,
   broken   |-> [Base EXCEPT !.broken = {"fleet.yml"}],
   brokenop |-> [Base EXCEPT !.broken = {"operators.yml"}],
   unknown  |-> [Base EXCEPT !.hosts["h2"].fault = "unknownKey"],
   nokeys   |-> [Base EXCEPT !.hosts["h1"].fault = "recipients"],
   invalid  |-> [Base EXCEPT !.hosts["h2"].fault = "invalid"],
   noport   |-> [Base EXCEPT !.ports = [user |-> 2]],
   sameport |-> [Base EXCEPT !.hosts["h2"].port = 1],
   sameuser |-> [Base EXCEPT !.hosts["h2"].user = "", !.hosts["h2"].port = 3],
   samename |-> [Base EXCEPT !.hosts["h2"].hostname = "h1"],
   othername |-> [Base EXCEPT !.hosts["h1"].hostname = "host1", !.hosts["h1"].machine = ""],
   feature  |-> [Base EXCEPT !.hosts["h2"].features = {"extra", "none"},
                             !.features["extra"] = Group({}, {"token"}, {})],
   shared   |-> [Base EXCEPT !.operators["alice"] = {"ko", "k1"}],
   badkey   |-> [Base EXCEPT !.operators["alice"] = {"ssh"}],
   missing  |-> [Base EXCEPT !.roles["web"].services = @ \cup {"lost"}],
   twometa  |-> [Base EXCEPT !.tree = ("services/web/picolet.yml.tmpl" :> Hooks1) @@ @],
   linkmeta |-> [Base EXCEPT !.tree["services/web/picolet.yml"].regular = FALSE],
   nopath   |-> [Base EXCEPT !.roles["web"].paths = {"lost"}],
   sopspath |-> [Base EXCEPT !.roles["web"].paths = {"units/x.sops.yaml"},
                             !.entries = ("units/x.sops.yaml" :> {"units/x.sops.yaml"}) @@ @],
   sopssecret |-> [Base EXCEPT !.roles["web"].secrets = {"units/x.sops.yaml"}],
   inbundle |-> [Base EXCEPT !.roles["web"].paths = {"services"},
                             !.entries = ("services" :> {"services/web/files/Containerfile"}) @@ @],
   noext    |-> With("units/t", Source("", {}, "", "t")),
   link     |-> With("units/t", [Source("", {}, "timer", "t") EXCEPT !.regular = FALSE]),
   deep     |-> With("units/t", [Source("", {"files"}, "yml", "t") EXCEPT !.deep = TRUE]),
   both     |-> With("units/t", Source("", {"files", "secrets"}, "yml", "t")),
   artifact |-> With("units/t", Source("", {}, "artifact", "t")),
   collide  |-> With("units/t", Source("web", {}, "container", "app.container")),
   collide2 |-> [With("units/t", Source("", {"secrets"}, "yml", "op1")) EXCEPT
                   !.roles["web"].secrets = {"op1"}],
   unnamed  |-> [Base EXCEPT !.roles["web"].secrets = {"sall"}],
   unparsed |-> [Base EXCEPT !.tree["units/app.container"].unit = "",
                             !.tree["units/app.container"].check = "invalid"],
   context  |-> [Base EXCEPT !.tree["services/web/web.build"].build.file.at = <<"data", "files", "lost">>],
   selfpod  |-> [Base EXCEPT !.tree["services/picolet-system/picolet-system.container"].pod = TRUE],
   renamed  |-> [Base EXCEPT !.tree["units/app.container"].container = "other"],
   badhook  |-> [Base EXCEPT !.tree["services/web/picolet.yml"].hooks =
                   <<[Hook("a", "x", "restart", "") EXCEPT !.valid = FALSE]>>],
   twohooks |-> [Base EXCEPT !.tree["services/web/picolet.yml"].hooks =
                   <<Hook("a", "app.container", "restart", ""),
                     Hook("a", "app.container", "restart", "")>>],
   noconfig |-> [Base EXCEPT !.tree["services/picolet-system/secrets/config"].dest = "renamed"],
   strictop |-> [Base EXCEPT !.tree["services/picolet-system/secrets/config"].calls = <<Op1>>],
   strictsops |-> [Base EXCEPT !.tree["services/picolet-system/secrets/config"].calls = <<SData>>],
   outside  |-> [Base EXCEPT !.tree["services/picolet-system/secrets/config"].calls =
                   <<Call("renderTemplate", "lib")>>],
   twice    |-> [Base EXCEPT
                   !.tree = ("units/t" :> Tmpl(Where["file"], <<Op1>>))
                     @@ ("units/u" :> Tmpl(Where["manifest"], <<Op1, Op2, Pp1>>)) @@ @,
                   !.entries.units = @ \cup {"units/t", "units/u"}],
   drift    |-> [Base EXCEPT !.rules.groups = ("x.sops.yaml" :> <<{"ko"}>>)],
   badrule  |-> [Base EXCEPT !.rules.state = "invalid"],
   norules  |-> [Base EXCEPT !.rules.state = "none"],
   clear    |-> [Base EXCEPT !.files["x.sops.yaml"].state = "plain"],
   large    |-> [Base EXCEPT !.files["x.sops.yaml"].state = "large",
                             !.roles["web"].secrets = {"sa"}],
   edited   |-> [Base EXCEPT !.files["x.sops.yaml"].mac = FALSE, !.roles["web"].secrets = {"sa"}],
   walk     |-> [Base EXCEPT !.files["x.sops.yaml"].walks = FALSE, !.roles["web"].secrets = {"sa"}]]

----------------------------------------------------------------------------
(* Units that name other units, and builds. *)

Small(paths, tree) ==
  [Base EXCEPT !.roles["web"] = Group({"units"}, {}, {}), !.entries.units = paths, !.tree = tree @@ @]

Unit(ext, dest, uses) == [Source("", {}, ext, dest) EXCEPT !.unit = dest, !.uses = uses]

\* What a unit may name.
Refers == [container |-> {"network", "volume", "image", "build", "pod", "container", "artifact"},
           kube |-> {"network"}, pod |-> {"network", "volume"}, build |-> {"network", "volume"},
           volume |-> {"image", "build"}, network |-> {}, image |-> {}, artifact |-> {}]

\* a names b, and b the unit c or nothing; either may be missing.
Naming(kind, other, last, missing) ==
  LET tree == ("units/a" :> Unit(kind, "a", {"b"}))
              @@ ("units/b" :> Unit(other, "b", IF last = "none" THEN {} ELSE {"c"}))
              @@ ("units/c" :> Unit(IF last = "none" THEN "network" ELSE last, "c", {}))
  IN  Small({"units/a", "units/b", "units/c"} \ missing, tree)

Building(file, set, work, delivered) ==
  Small({"units/t.build"} \cup delivered,
        ("units/t.build" :> [Source("", {}, "build", "t.build") EXCEPT !.unit = "t-build",
           !.build = [file |-> file, setWorkDir |-> set, workDir |-> work]])
        @@ ("units/f" :> DataFile("", "Containerfile")) @@ ("units/g" :> DataFile("", "Dockerfile")))

LocalValues == {NoValue, Value("abs", <<"data", "files">>), Value("abs", <<"srv">>),
                Value("percent", <<"%h", "x">>)}
Sets  == LocalValues \cup {Value("file", <<>>), Value("unit", <<>>), Value("rel", <<"ctx">>),
                           Value("url", <<"u">>)}
BuildFiles == {NoValue, Containerfile, Value("abs", <<"srv", "Containerfile">>),
          Value("rel", <<"Containerfile">>), Value("rel", <<"lost">>), Value("inner", <<"%i">>),
          Value("percent", <<"%h", "x">>), Value("url", <<"u">>), Value("httpish", <<"httpd">>),
          Value("stdin", <<"-">>)}

----------------------------------------------------------------------------
ProviderSets == {{}, {"op"}, {"op", "pp"}}
SecretSets == {s \in SUBSET {"op1", "pp1", "sa", "snone", "smap", "token", "sbad"} :
                 Cardinality(s) \in 1..2}
Groups2 == {<<{"k1", "ko"}>>, <<{"k1", "k2", "ko"}>>, <<{"k1"}, {"k2", "ko"}>>, <<{"k2"}>>,
            <<{"k1", "ssh"}>>, <<>>}

Ids ==
  {<<"render", b, w, p, k>> : b \in DOMAIN Bodies, w \in DOMAIN Where, p \in ProviderSets,
                              k \in {{}, {"k1"}}}
  \cup {<<"direct", s, p, k>> : s \in SecretSets, p \in ProviderSets, k \in {{}, {"k1"}, {"k2"}}}
  \cup {<<"audience", g, s, r, rule, n>> : g \in Groups2, s \in {<<{"k1"}>>, <<{"k1"}, {"k2"}>>},
          r \in SUBSET {"h1", "h2"}, rule \in BOOLEAN, n \in 0..2}
  \cup UNION {UNION {{<<"naming", k, o, c, gone>> : c \in Refers[o] \cup {"none"},
                      gone \in {{}, {"units/b"}, {"units/c"}}} : o \in Refers[k]} : k \in DOMAIN Refers}
  \cup {<<"build", f, s, w, d>> : f \in BuildFiles, s \in Sets, w \in LocalValues,
          d \in {{}, {"units/g"}, {"units/f"}}}
  \cup {<<"odd", o>> : o \in DOMAIN Odd}

CommitOf(id) ==
  CASE id[1] = "render"   -> Rendering(id[2], id[3], id[4], id[5])
    [] id[1] = "direct"   -> Direct(id[2], id[3], id[4])
    [] id[1] = "audience" -> Audience(id[2], id[3], id[4], id[5], id[6])
    [] id[1] = "naming"   -> Naming(id[2], id[3], id[4], id[5])
    [] id[1] = "build"    -> Building(id[2], id[3], id[4], id[5])
    [] OTHER              -> Odd[id[2]]

MCFleets == {CommitOf(id) : id \in Ids}
=============================================================================
