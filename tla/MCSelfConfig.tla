---------------------------- MODULE MCSelfConfig ----------------------------
(* Agents for model-checking SelfConfig: commits that change how the Agent
   logs in, where it listens and which credential files it names; commits that
   name a credential under every kind of mount; and commits that move, replace
   or drop the Agent's unit and what it needs. *)
EXTENDS SelfConfig, TLC

MCSecrets == {"cfg", "tok"}
RankTable == [d \in {"q1", "q2", "raw", "vol", "cfg", "tok"} |->
             CASE d = "vol" -> 20 [] d \in MCSecrets -> 50
               [] d = "raw" -> 60 [] OTHER -> 100] @@ <<>>

----------------------------------------------------------------------------
(* Units. *)

Line(key, src, at) ==
  [key |-> key, src |-> src, at |-> at, kind |-> "mount", args |-> FALSE,
   placed |-> TRUE]

BaseLines == {Line("secret", "cfg", <<"cfg">>),
              Line("volume", "h1", <<"creds">>)}

\* One mount of every kind that may hold a credential.
RichLines ==
  BaseLines \cup
  {Line("tmpfs", "", <<"creds", "tmp">>),
   Line("volume", "vol", <<"vol">>),
   Line("secret", "tok", <<"tok">>),
   [Line("mount", "i9", <<"img">>) EXCEPT !.kind = "image"]}

UnitOf(lines, image, service, alias) ==
  [lines |-> lines, image |-> image, service |-> service, alias |-> alias,
   cfgAt |-> <<"cfg">>, other |-> "exec"]

UnitTable ==
  [u \in {"base", "image", "wide", "rich", "rich2", "env", "from", "other",
          "alias", "home"} |->
     CASE u = "base" -> UnitOf(BaseLines, "i1", "agent", "")
       [] u = "image" -> UnitOf(BaseLines, "i2", "agent", "")
       [] u = "wide" ->
            UnitOf(BaseLines \cup {Line("volume", "h2", <<"more">>)}, "i1",
                   "agent", "")
       [] u = "rich" -> UnitOf(RichLines, "i1", "agent", "")
       [] u = "rich2" -> UnitOf(RichLines, "i2", "agent", "")
       [] u = "env" ->
            UnitOf(BaseLines \cup
                     {[Line("secret", "tok", Unset) EXCEPT !.kind = "env"]},
                   "i1", "agent", "")
       [] u = "from" ->
            UnitOf(BaseLines \cup {Line("volumes-from", "i8", <<"vf">>)}, "i1",
                   "agent", "")
       [] u = "home" ->
            UnitOf(BaseLines \cup
                     {[Line("volume", "", <<"home">>) EXCEPT !.placed = FALSE]},
                   "i1", "agent", "")
       [] u = "other" -> UnitOf(BaseLines, "i1", "other", "")
       [] u = "alias" -> UnitOf(BaseLines, "i1", "other", "agent")] @@ <<>>

MCImageHas == [i \in {"i1", "i2"} |-> IF i = "i1" THEN {<<"in">>} ELSE {}]

----------------------------------------------------------------------------
(* Configs. *)

NoPaths == [s \in FileSettings |-> Unset]
Blocks  == {"onepassword", "protonpass", "sops"}
Needed  == {"hostname", "repo_url", "op.token_path", "sops.age_identity_path"}

\* Every required setting is there; two credentials lie on the Host.
Plain == [set |-> Needed, blocks |-> Blocks, host |-> "", port |-> NoPort,
          path |-> [NoPaths EXCEPT !["op.token_path"] = <<"creds", "op">>,
                                   !["sops.age_identity_path"] =
                                     <<"creds", "age">>],
          metrics |-> UnsetPort, spelled |-> TRUE, parses |-> TRUE]

\* The names of configs; Config says what each holds.
Logins ==
  {<<"login", logins>> :
     logins \in SUBSET (GitTokens \cup Direct \cup OpRefs
                        \cup {"pp.github_app_id_ref"})}

Listens ==
  {<<"listen", h, p, m>> :
     h \in {"", AllHosts, "0.0.0.0", "10.0.0.5"}, p \in {NoPort, 0, 80, 70000},
     m \in {UnsetPort, 80, 9417, 65536}}

CredPaths == {<<"creds", "a">>, <<"creds", "s">>, <<"creds", "s", "b">>}
Shared ==
  {<<"shared", set, p, q, r>> :
     set \in SUBSET {"webhook_secret_path", "pp.session_dir", "pp.pat_path"},
     p \in CredPaths, q \in CredPaths, r \in CredPaths \cup {<<"creds", "op">>}}

\* A git token under each mount, in the image, and in a home directory.
TokenPaths == {<<"creds", "git">>, <<"creds", "tmp", "git">>, <<"img", "git">>,
               <<"vol", "git">>, <<"tok">>, <<"home", "git">>, <<"in">>}
Token(p) == <<"token", p>>
PlainCfg == <<"plain">>
Tokens   == {Token(p) : p \in TokenPaths} \cup {PlainCfg}
Relative == <<"relative">>
Broken   == <<"broken">>

MCConfig(x) ==
     CASE x[1] = "login" ->
            [Plain EXCEPT !.set = Needed \cup x[2],
                          !.path["git_token_path"] = <<"creds", "git">>,
                          !.path["github_private_key_path"] =
                            <<"creds", "key">>]
       [] x[1] = "listen" ->
            [Plain EXCEPT !.host = x[2], !.port = x[3], !.metrics = x[4]]
       [] x[1] = "shared" ->
            [Plain EXCEPT !.set = Needed \cup x[2],
                          !.path["webhook_secret_path"] = x[3],
                          !.path["pp.session_dir"] = x[4],
                          !.path["pp.pat_path"] = x[5]]
       [] x[1] = "token" ->
            [Plain EXCEPT !.set = Needed \cup {"git_token_path"},
                          !.path["git_token_path"] = x[2]]
       [] x[1] = "relative" ->
            [Plain EXCEPT !.set = Needed \cup {"git_token_path"},
                          !.path["git_token_path"] = <<"creds", "git">>,
                          !.spelled = FALSE]
       [] x[1] = "broken" -> [Plain EXCEPT !.parses = FALSE]
       [] OTHER -> Plain

----------------------------------------------------------------------------
(* Commits: a unit file for each place, the config and what else is mounted. *)

Commit(q1, q2, raw, vol, tok, cfg, bundled) ==
  [files |-> [q1 |-> q1, q2 |-> q2, raw |-> raw, vol |-> vol, tok |-> tok,
              cfg |-> cfg],
   bundled |-> bundled]

Simple(cfg) == Commit("base", Absent, Absent, Absent, "t", cfg, TRUE)

PathCommits ==
  {Commit(q, Absent, Absent, v, t, c, TRUE) :
     q \in {"rich", "rich2"}, v \in {"v1", "v2"}, t \in {"t", "t2"},
     c \in Tokens \ {Token(<<"home", "git">>)}}

FirstPaths ==
  {c \in PathCommits : c.files.q1 = "rich" /\ c.files.vol = "v1"
                       /\ c.files.tok = "t"}

FromCommits ==
  {Commit("from", Absent, Absent, Absent, "t", c, TRUE) :
     c \in {PlainCfg, Token(<<"vf", "git">>), Relative, Broken}}
  \cup {Commit("home", Absent, Absent, Absent, "t", c, TRUE) :
         c \in {PlainCfg, Token(<<"home", "git">>)}}
  \cup {Simple(PlainCfg),
        Commit("image", Absent, Absent, Absent, "t", Token(<<"creds", "git">>),
               TRUE)}

UnitCommits ==
  {Commit(q1, q2, raw, Absent, "t", c, TRUE) :
     q1 \in {"base", "image", "wide", "other", "alias", Absent},
     q2 \in {"base", "image", "alias", Absent}, raw \in {"base", Absent},
     c \in {PlainCfg}}

SourceCommits ==
  {Commit(q, Absent, Absent, v, t, PlainCfg, TRUE) :
     q \in {"base", "env", "rich"}, v \in {"v1", Absent}, t \in {"t", Absent}}

\* The Host leaves the Fleet's hands, or joins them again.
LeaveCommits ==
  {Simple(PlainCfg), Commit(Absent, Absent, Absent, Absent, Absent, Absent, FALSE),
   Commit("other", Absent, Absent, Absent, "t", PlainCfg, FALSE)}

SettingsCommits == {Simple(c) : c \in Logins \cup Listens \cup Shared}


At(src, path) == [src |-> src, path |-> path]
Always == {At("h1", <<"creds", "op">>), At("h1", <<"creds", "age">>)}
HostDirs == {At("h1", <<"creds", f>>) : f \in {"git", "key", "a", "s"}}
            \cup {At("h1", <<"creds", "s", "b">>)}
Volumed == {At("vol", <<"vol", "git">>)}

Elsewhere == {At("", p) : p \in TokenPaths \cup {<<"vf", "git">>}}
AllPlaces == Always \cup HostDirs \cup Volumed \cup Elsewhere

Scenario(commits, starts, edits, places, pushes, ends) ==
  [commits |-> commits, starts |-> starts, edits |-> edits, places |-> places, given |-> Always,
   events |-> pushes, faults |-> ends]

\* No credential of the first config is where an image is mounted.
NotPulled(commits) ==
  {c \in commits :
     c.files.cfg \notin {Token(<<"img", "git">>), Token(<<"vf", "git">>)}}

First == {Simple(PlainCfg)}

ScenarioTable ==
  [s \in {"logins", "listens", "shared", "paths", "from", "units", "sources",
          "leave"} |->
     CASE s = "logins" ->
            Scenario(First \cup {Simple(c) : c \in Logins}, First, {},
                     Always \cup HostDirs, 1, 0)
       [] s = "listens" ->
            Scenario(First \cup {Simple(c) : c \in Listens}, First, {}, Always,
                     1, 0)
       [] s = "shared" ->
            Scenario(First \cup {Simple(c) : c \in Shared}, First, {},
                     Always \cup HostDirs, 1, 0)
       [] s = "paths" ->
            Scenario(PathCommits, NotPulled(FirstPaths), {},
                     Always \cup Volumed \cup {At("h1", <<"creds", "git">>)},
                     2, 1)
       [] s = "from" ->
            Scenario(FromCommits, NotPulled(FromCommits), {},
                     Always \cup {At("h1", <<"creds", "git">>)}, 3, 1)
       [] s = "units" ->
            Scenario(UnitCommits, UnitCommits, {"wide", "base"}, Always, 2, 1)
       [] s = "sources" ->
            Scenario(SourceCommits, SourceCommits, {"env", "base", "rich"},
                     Always, 3, 1)
       [] s = "leave" -> Scenario(LeaveCommits, First, {}, Always, 3, 1)]
    @@ <<>>

\* A constant given a value by name is evaluated once.
MCUnit      == UnitTable
MCScenarios == ScenarioTable
MCPlaces    == AllPlaces
MCRank      == RankTable
=============================================================================
