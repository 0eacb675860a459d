----------------------------- MODULE MCApplier -----------------------------
(* A Host for model-checking Applier, moved through the commits of one of  *)
(* three Fleets: "rt", a web service with reload hooks, a pod and its      *)
(* member, raw units, a job and the Agent's own container; "b", two builds *)
(* from one context and what runs their images; "s", an app.               *)
EXTENDS Applier

MCContents == {"x", "y"}

RTShas == {"rt1", "rt2", "rt3", "rt4", "rt5"}
BShas  == {"b1", "b2", "b3", "b4", "b5"}
SShas  == {"s1", "s2"}
MCShas == RTShas \cup BShas \cup SShas

MCFollows ==
  [c \in MCShas |-> CHOOSE f \in {RTShas, BShas, SShas} : c \in f]

RTUnits == {"web", "pod", "member", "job", "tick", "setup", "raw", "picolet"}
RTData  == {"web.yml", "tls", "member.yml", "agent.yml"}
BUnits  == {"img", "base", "app", "pod", "member", "job", "tick", "raw", "setup",
            "picolet"}
BData   == {"Containerfile"}
MCUnits == RTUnits \cup BUnits
MCData  == RTData \cup BData

MCKind ==
  [u \in MCUnits |->
     CASE u = "pod" -> "pod" [] u = "job" -> "job" [] u = "tick" -> "timer"
       [] u = "setup" -> "provision" [] u = "raw" -> "service"
       [] u \in {"img", "base"} -> "build" [] OTHER -> "container"]

MCMember == [u \in MCUnits |-> IF u = "member" THEN "pod" ELSE NoUnit]

MCFires == [tick |-> "job"]

\* The images of the first Fleet are pulled: it never writes a build.
MCRequires ==
  [u \in MCUnits |->
     CASE u \in {"app", "member", "job"} -> "img" [] u = "picolet" -> "base"
       [] OTHER -> NoUnit]
MCInputs == [b \in {"img", "base"} |-> BData]

\* Data before raw units before quadlets.
MCRank ==
  [p \in MCUnits \cup MCData |->
     IF p \in MCData THEN 1 ELSE IF p \in {"tick", "setup", "raw"} THEN 2
     ELSE 3]

\* A commit with every one of these files x but for those named.
Holding(paths, ys, gone) ==
  [p \in MCUnits \cup MCData |->
     IF p \notin paths \/ p \in gone THEN "absent"
     ELSE IF p \in ys THEN "y" ELSE "x"]

RT(ys, gone) == Holding(RTUnits \cup RTData, ys, gone)
B(ys, gone)  == Holding(BUnits \cup BData, ys, gone)

\* rt4 changes only the hooks of rt2; rt5 moves the Host to another Agent.
MCFleet ==
  [rt1 |-> RT({}, {"setup", "raw"}),
   rt2 |-> RT({"web.yml", "tls", "member.yml", "member", "job", "agent.yml"},
              {"tick"}),
   rt3 |-> RT({"setup", "web", "web.yml", "pod", "member", "picolet"}, {}),
   rt4 |-> RT({"web.yml", "tls", "member.yml", "member", "job", "agent.yml"},
              {"tick"}),
   rt5 |-> RT({"web", "job"}, {"tick", "pod", "member", "picolet"}),
   b1  |-> B({}, {"member", "pod", "raw"}),
   b2  |-> B({"Containerfile", "pod"}, {"job", "tick"}),
   b3  |-> B({"Containerfile", "app", "setup"}, {"pod", "member", "tick"}),
   b4  |-> B({"img", "app", "pod", "member", "job"}, {"raw"}),
   b5  |-> B({"pod", "job"}, {"tick"}),
   s1  |-> Holding({"app", "img", "Containerfile", "picolet"}, {}, {}),
   s2  |-> Holding({"app", "raw", "img", "Containerfile", "picolet"},
                   {"app", "Containerfile"}, {})]

MCHooks == {"reload", "rotate", "rotate2", "bounce", "agent"}
MCHookRank ==
  [reload |-> 1, rotate |-> 2, rotate2 |-> 3, bounce |-> 4, agent |-> 5]
MCNameRank ==
  [agent |-> 1, bounce |-> 2, reload |-> 3, rotate |-> 4, rotate2 |-> 5]
MCTriggers ==
  [reload |-> {"web.yml"}, rotate |-> {"tls"}, rotate2 |-> {"tls", "web.yml"},
   bounce |-> {"member.yml"}, agent |-> {"agent.yml"}]
MCHookUnit ==
  [reload |-> "web", rotate |-> "web", rotate2 |-> "web",
   bounce |-> "member", agent |-> "picolet"]
MCAction ==
  [reload |-> "reload", rotate |-> "reload", rotate2 |-> "reload",
   bounce |-> "restart", agent |-> "reload"]
MCFallback ==
  [reload |-> {"rt3", "rt4"}, rotate |-> {"rt4"}, rotate2 |-> {}, bounce |-> {},
   agent |-> {"rt3", "rt4"}]

\* rotate2 signals the same container as rotate.
MCEffect ==
  [reload |-> "http", rotate |-> "signal", rotate2 |-> "signal",
   bounce |-> "restart", agent |-> "agent"]

\* What fails: in the first Fleet what runs, in the second what is written,
\* built and started, in the third the rollback.
MCFaults ==
  [c \in MCShas |-> CASE c = "rt3" -> {"hook", "died", "timeout", "crash", "status"}
                      [] c \in RTShas -> {"hook", "died", "timeout", "crash"}
                      [] c \in BShas -> {"write", "stop", "op", "reload", "build",
                                        "dependency", "selfop"}
                      [] c \in SShas -> {"write", "restore", "crash", "consumer"}]

Refusing == [c \in MCShas |-> {"refused"}]
=============================================================================
