----------------------------- MODULE AgentConfig -----------------------------
(* The Agent's config file (pkg/agentcfg): which configs are accepted, which
   files they name as credentials, and which address the HTTP server binds.

   A config is a record: set, the settings that have a value; blocks, the
   optional blocks that are there; path, where each file setting points;
   host and port, the two parts of listen_addr ("" without); metrics, the
   value of metrics_port; spelled, FALSE when a credential path is relative;
   parses, FALSE when the YAML does not parse strictly. *)
EXTENDS Integers, FiniteSets, Sequences

CONSTANT Unset         \* the path of a file setting without a value

\* A path is the sequence of its components.
Under(p, q) == Len(q) <= Len(p) /\ SubSeq(p, 1, Len(q)) = q

----------------------------------------------------------------------------
(* Which ways of authenticating to git and GitHub a config may name. *)

Has(c, s) == s \in c.set

Direct == {"github_app_id", "github_installation_id", "github_private_key_path"}
OpRefs == {"op.github_app_id_ref", "op.github_installation_id_ref",
           "op.github_private_key_ref"}
PpRefs == {"pp.github_app_id_ref", "pp.github_installation_id_ref",
           "pp.github_private_key_ref"}
GitTokens == {"git_token_path", "op.git_token_ref", "pp.git_token_ref"}

\* The modes of GitHub App login a config uses, some of whose fields it sets.
AppModes(c) == {m \in {Direct, OpRefs, PpRefs} : m \cap c.set # {}}

HasGitHubApp(c) == \E m \in {Direct, OpRefs, PpRefs} : m \subseteq c.set

ValidGitTokens(c) == Cardinality(GitTokens \cap c.set) <= 1

\* Mutant: a git token and a GitHub App may both be there.
ValidGitHubAppAlone(c) ==
  AppModes(c) # {} => Cardinality(AppModes(c)) = 1 /\ HasGitHubApp(c)

\* All fields of one mode, and no git token beside them.
ValidGitHubApp(c) ==
  AppModes(c) # {} => /\ Cardinality(AppModes(c)) = 1
                      /\ HasGitHubApp(c)
                      /\ GitTokens \cap c.set = {}

----------------------------------------------------------------------------
(* The address of the HTTP server, and the one its clients dial. *)

DefaultPort == 9417
UnsetPort   == 0              \* metrics_port without a value
NoPort      == -1             \* a listen_addr without a port
Loopback    == "127.0.0.1"
Wildcards   == {"0.0.0.0", "::"}
AllHosts    == "all"          \* listen_addr ":<port>"

\* A portless listen_addr takes its port from metrics_port; without any
\* listen_addr the server binds loopback.
MetricsPort(c) == IF c.metrics = UnsetPort THEN DefaultPort ELSE c.metrics
ListenHost(c)  == IF c.host = "" THEN Loopback ELSE c.host
ListenPort(c)  == IF c.port = NoPort THEN MetricsPort(c) ELSE c.port

\* Mutant: a client dials what the server binds.
DialHostBound(c) == ListenHost(c)

DialHost(c) == IF ListenHost(c) \in Wildcards \cup {AllHosts}
               THEN Loopback ELSE ListenHost(c)

Ports == 1..65535

\* What a port may be, and that two settings never name different ones.
ValidListenAddr(c) ==
  /\ c.metrics \in Ports \cup {UnsetPort}
  /\ c.port # NoPort => /\ c.port \in Ports
                        /\ c.metrics \in {UnsetPort, c.port}

----------------------------------------------------------------------------
(* The credential files. *)

FileSettings == {"op.token_path", "pp.pat_path", "pp.session_dir",
                 "git_token_path", "github_private_key_path",
                 "webhook_secret_path", "mqtt.password_path",
                 "sops.age_identity_path"}

BlockOf(s) ==
  CASE s = "op.token_path" -> "onepassword"
    [] s \in {"pp.pat_path", "pp.session_dir"} -> "protonpass"
    [] s = "mqtt.password_path" -> "mqtt"
    [] s = "sops.age_identity_path" -> "sops"
    [] OTHER -> "top"

IsDir(s) == s = "pp.session_dir"

\* pass-cli's directory: the configured one, or the default beside a token.
SessionDir == <<"var", "session">>
PathOf(c, s) ==
  IF s = "pp.session_dir" /\ s \notin c.set /\ "pp.pat_path" \in c.set
  THEN SessionDir
  ELSE IF s \in c.set THEN c.path[s] ELSE Unset

Credentials(c) ==
  {s \in FileSettings : /\ BlockOf(s) \in c.blocks \cup {"top"}
                        /\ PathOf(c, s) # Unset}

\* Mutant: a directory holds nothing but itself.
OverlapSpelled(c, s, t) == PathOf(c, s) = PathOf(c, t)

\* Two settings that name one file, or a file in the other's directory.
Overlap(c, s, t) ==
  \/ PathOf(c, s) = PathOf(c, t)
  \/ IsDir(s) /\ Under(PathOf(c, t), PathOf(c, s))
  \/ IsDir(t) /\ Under(PathOf(c, s), PathOf(c, t))

DistinctCredentials(c) ==
  \A s, t \in Credentials(c) : s # t => ~Overlap(c, s, t)

----------------------------------------------------------------------------
(* What is checked when. *)

\* What a block that is there must have.
Required(b) == CASE b = "onepassword" -> {"op.token_path"}
                 [] b = "mqtt" -> {"mqtt.broker_url"}
                 [] b = "sops" -> {"sops.age_identity_path"}
                 [] OTHER -> {}

Validate(c) ==
  /\ Has(c, "hostname")
  /\ \A b \in c.blocks : Required(b) \subseteq c.set
  /\ Has(c, "mqtt.password_path") => Has(c, "mqtt.username")
  /\ ValidListenAddr(c)
  /\ ValidGitTokens(c)
  /\ ValidGitHubApp(c)

Parse(c) == c.parses /\ Validate(c)

\* A config the Agent loads from its file at startup.
Load(c) == Parse(c) /\ DistinctCredentials(c)

\* Whatever a directory is for, it need not be there. sees is what the
\* checking process sees of the credential files.
CheckStartup(c, sees) ==
  /\ Has(c, "repo_url")
  /\ \A s \in Credentials(c) : IsDir(s) \/ PathOf(c, s) \in sees

\* Can the Agent start with c?
Starts(c, sees) == Load(c) /\ CheckStartup(c, sees)

\* The same checks on a config that is not installed yet; located is the set of
\* settings whose file the check may read where it is spelled.
CheckRenderedConfig(c, located, sees) ==
  /\ Parse(c) /\ Credentials(c) \subseteq located
  /\ DistinctCredentials(c) /\ CheckStartup(c, sees)
=============================================================================
