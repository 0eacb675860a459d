------------------------------ MODULE Machine ------------------------------
(***************************************************************************)
(* `picolet bootstrap machine` and `bootstrap teardown --machine`: bringing *)
(* up, and down, every Host of a Machine, step by step; runs that fail for *)
(* one Host, that are interrupted, and that are run again, while the       *)
(* Agents already there go on, and an operator bootstraps a Host by hand.  *)
(***************************************************************************)
EXTENDS Bootstrap

CONSTANTS
  Rootful,    \* Hosts without a user of their own
  HostRank    \* the order of the Hosts by name

\* A step and where it comes in the plan.
StepKinds == {"user", "subids", "linger", "manager", "socket", "dirs",
              "checkout", "credential", "bootstrap", "teardown"}
Steps     == [host : Hosts, kind : StepKinds]
KindRank  == [user |-> 1, subids |-> 2, linger |-> 3, manager |-> 4,
              socket |-> 5, dirs |-> 6, checkout |-> 7, credential |-> 8,
              bootstrap |-> 9, teardown |-> 10]
Phase(k)  == IF k \in {"credential", "bootstrap", "teardown"}
             THEN KindRank[k] ELSE 1

UserKinds == {"user", "subids", "linger", "manager"}
Setup     == UserKinds \cup {"socket", "dirs"}

ASSUME MachineAssumption ==
  /\ Rootful \subseteq Hosts /\ HostRank \in [Hosts -> Nat]
  /\ \A g, h \in Hosts : HostRank[g] = HostRank[h] => g = h
  /\ Slots = {"run", "alone"}

VARIABLES
  has,       \* has[h]: what is set up for the Host
  readable,  \* every user can read the checkout
  owned,     \* owned[h]: the credential file has its owner and mode
  run,       \* the run or teardown of the Machine
  told       \* Hosts a summary named as needing a restart of their Agent

vars == <<bootVars, has, readable, owned, run, told>>
machineVars == <<has, readable, owned, run, told>>

Run == [pc        : {"idle", "step", "boot", "restart", "wait"},
        mode      : {"run", "teardown"},
        todo      : SUBSET Steps,
        stopped   : SUBSET Hosts,    \* a step of the Host failed
        required  : SUBSET Hosts,    \* a credential file was written
        restarted : SUBSET Hosts,    \* and the Agent restarted for it
        cancelled : BOOLEAN]

NoRun == [pc |-> "idle", mode |-> "run", todo |-> {}, stopped |-> {},
          required |-> {}, restarted |-> {}, cancelled |-> FALSE]

TypeOK ==
  /\ BootTypeOK
  /\ has \in [Hosts -> SUBSET Setup]
  /\ readable \in BOOLEAN /\ owned \in [Hosts -> BOOLEAN]
  /\ run \in Run /\ told \in SUBSET Hosts

\* A Host without an Agent may have its user already, with or without
\* subordinate IDs.
Init ==
  /\ BootInit
  /\ has \in [Hosts -> {{}, {"user"}, {"user", "subids"}, Setup}]
  /\ \A h \in Hosts : /\ loaded[h] <=> has[h] = Setup
                      /\ h \notin hosts => has[h] = {}
                      /\ h \in Rootful => has[h] \in {{}, Setup}
  /\ readable \in BOOLEAN
  /\ (\E h \in Hosts : loaded[h]) => readable
  /\ owned = loaded
  /\ run = NoRun /\ told = {}

----------------------------------------------------------------------------
(* The plan. *)

Planned(h) ==
  ((IF h \in Rootful THEN {"socket", "dirs"} ELSE Setup \cup {"checkout"})
   \cup (IF source[h] = NoCred THEN {} ELSE {"credential"})
   \cup {"bootstrap"})

\* The plan is phase-major, and by Host within a phase.
Precedes(s, t) ==
  \/ Phase(s.kind) < Phase(t.kind)
  \/ /\ Phase(s.kind) = Phase(t.kind)
     /\ \/ HostRank[s.host] < HostRank[t.host]
        \/ s.host = t.host /\ KindRank[s.kind] <= KindRank[t.kind]

NextStep(s) == s \in run.todo /\ \A t \in run.todo : Precedes(s, t)

\* The command starts, as a rule after the checkout was updated.
StartRun ==
  /\ run.pc = "idle"
  /\ \/ checkout' = head /\ UNCHANGED events
     \/ checkout # head /\ Event /\ UNCHANGED checkout
  /\ run' = [NoRun EXCEPT !.pc = "step",
               !.todo = {s \in Steps : /\ s.host \in hosts
                                       /\ s.kind \in Planned(s.host)}]
  /\ UNCHANGED <<hosts, head, hostVars, source, cred, read, boot, faults, has,
                 readable, owned, told>>

StartTeardown ==
  /\ run.pc = "idle" /\ Event
  /\ run' = [NoRun EXCEPT !.pc = "step", !.mode = "teardown",
               !.todo = {s \in Steps : /\ s.host \in hosts
                                       /\ s.kind = "teardown"}]
  /\ UNCHANGED <<fleetVars, hostVars, source, cred, read, boot, faults,
                 has, readable, owned, told>>

\* A signal cancels the command's context.
Interrupt ==
  /\ run.pc # "idle" /\ ~run.cancelled /\ Event
  /\ run' = [run EXCEPT !.cancelled = TRUE]
  /\ UNCHANGED <<fleetVars, hostVars, source, cred, read, boot, faults,
                 has, readable, owned, told>>

----------------------------------------------------------------------------
(* What a run does with a step. *)

\* The summary names the Hosts whose Agent still has to be restarted.
Ends(r) == run' = NoRun /\ told' = told \cup (r.required \ r.restarted)

\* Mutant: an interrupted run forgets the step that was applied meanwhile.
GoesOnForgetful(r, s, ok) ==
  LET on == [r EXCEPT !.pc = "step", !.todo = @ \ {s},
                      !.stopped = IF ok THEN @ ELSE @ \cup {s.host}]
  IN IF run.cancelled THEN Ends(run) ELSE run' = on /\ UNCHANGED told

\* The run goes on as r after step s was applied, or failed; an interrupted
\* run ends, with what was applied recorded.
GoesOn(r, s, ok) ==
  LET on == [r EXCEPT !.pc = "step", !.todo = @ \ {s},
                      !.stopped = IF ok THEN @ ELSE @ \cup {s.host}]
  IN IF run.cancelled THEN Ends(r) ELSE run' = on /\ UNCHANGED told

Summary ==
  /\ run.pc = "step" /\ run.todo = {}
  /\ Ends(run)
  /\ UNCHANGED <<bootVars, has, readable, owned>>

\* The end state of a step holds.
Done(h, k) ==
  CASE k = "checkout"   -> readable
    [] k = "credential" -> cred[h] = source[h] /\ owned[h]
    [] k \in Setup      -> k \in has[h]
    [] OTHER            -> FALSE

\* A step of a stopped Host is skipped; one whose end state holds is not
\* applied.  Neither looks for an interruption.
Passes(s) ==
  /\ run.mode = "run" /\ (s.host \in run.stopped \/ Done(s.host, s.kind))
  /\ run' = [run EXCEPT !.todo = @ \ {s}]
  /\ UNCHANGED <<bootVars, has, readable, owned, told>>

Applied(s) ==
  run.mode = "run" /\ s.host \notin run.stopped /\ ~Done(s.host, s.kind)

\* What a setup step brings about: a new user has subordinate IDs, and the
\* subordinate IDs of an old one are only verified.
SetsUp(s) ==
  /\ Applied(s) /\ s.kind \in Setup
  /\ LET ok == /\ s.kind # "subids"
               /\ s.kind \in {"user", "dirs"} \/ s.host \in Rootful
                  \/ "user" \in has[s.host]
               /\ s.kind # "manager"
               /\ run.cancelled => s.kind = "dirs"
         gets == IF s.kind = "user" THEN {"user", "subids"} ELSE {s.kind}
     IN \/ /\ ok /\ NoFault
           /\ has' = [has EXCEPT ![s.host] = @ \cup gets]
           /\ GoesOn(run, s, TRUE)
        \/ /\ \/ ~ok /\ NoFault /\ s.kind # "manager"
              \/ s.kind = "manager" /\ run.cancelled /\ NoFault
              \/ Fault("op")
           /\ UNCHANGED has
           /\ GoesOn(run, s, FALSE)
  /\ UNCHANGED <<fleetVars, hostVars, source, cred, read, boot, events,
                 readable, owned>>

\* MakeWorldReadable changes nothing, or all of the checkout.
OpensCheckout(s) ==
  /\ Applied(s) /\ s.kind = "checkout"
  /\ \/ readable' = TRUE /\ NoFault /\ GoesOn(run, s, TRUE)
     \/ UNCHANGED readable /\ Fault("op") /\ GoesOn(run, s, FALSE)
  /\ UNCHANGED <<fleetVars, hostVars, source, cred, read, boot, events,
                 has, owned>>

\* New content needs a restart of the Agent; owner and mode do not.
PlacesCredential(s) ==
  /\ Applied(s) /\ s.kind = "credential"
  /\ \/ /\ NoFault
        /\ cred' = [cred EXCEPT ![s.host] = source[s.host]]
        /\ owned' = [owned EXCEPT ![s.host] = TRUE]
        /\ GoesOn(IF cred[s.host] = source[s.host] THEN run
                  ELSE [run EXCEPT !.required = @ \cup {s.host}], s, TRUE)
     \/ Fault("op") /\ UNCHANGED <<cred, owned>> /\ GoesOn(run, s, FALSE)
  /\ UNCHANGED <<fleetVars, hostVars, source, read, boot, events, has,
                 readable>>

\* bootstrapHost: the per-Host bootstrap in a container of the Host's Podman.
StartBootstrap(s) ==
  /\ Applied(s) /\ s.kind = "bootstrap"
  /\ \/ /\ ~run.cancelled /\ NoFault
        /\ Begins(s.host, "run", "bootstrap", FALSE, TRUE)
        /\ run' = [run EXCEPT !.pc = "boot"] /\ UNCHANGED told
     \/ /\ UNCHANGED boot /\ GoesOn(run, s, FALSE)
        /\ IF run.cancelled THEN NoFault ELSE Fault("resolve")
  /\ UNCHANGED <<fleetVars, hostVars, source, cred, read, events, has,
                 readable, owned>>

\* Mutant: the Agent is restarted whether or not a credential was written.
BootstrapEndsRestarting(s) ==
  /\ run.pc = "boot" /\ run.mode = "run" /\ ~Running(s.host, "run")
  /\ IF boot[s.host]["run"].pc # "ok" THEN GoesOn(run, s, FALSE)
     ELSE run' = [run EXCEPT !.pc = "restart"] /\ UNCHANGED told
  /\ UNCHANGED <<bootVars, has, readable, owned>>

BootstrapEnds(s) ==
  /\ run.pc = "boot" /\ run.mode = "run" /\ ~Running(s.host, "run")
  /\ CASE boot[s.host]["run"].pc # "ok" -> GoesOn(run, s, FALSE)
       [] s.host \in run.required ->
            run' = [run EXCEPT !.pc = "restart"] /\ UNCHANGED told
       [] OTHER -> run' = [run EXCEPT !.pc = "wait"] /\ UNCHANGED told
  /\ UNCHANGED <<bootVars, has, readable, owned>>

\* The Agent is restarted so that it reads the credentials.
RestartsAgent(s) ==
  /\ run.pc = "restart"
  /\ \/ /\ ~run.cancelled /\ loaded[s.host] /\ NoFault
        /\ Restart(s.host)
        /\ run' = [run EXCEPT !.pc = "wait", !.restarted = @ \cup {s.host}]
        /\ UNCHANGED told
     \/ /\ IF run.cancelled \/ ~loaded[s.host]
           THEN NoFault ELSE Fault("restart")
        /\ UNCHANGED <<unit, lock>>
        /\ GoesOn(run, s, FALSE)
  /\ UNCHANGED <<fleetVars, disk, record, loaded, source, cred, read,
                 boot, events, has, readable, owned>>

AwaitsHealth(s) ==
  /\ run.pc = "wait"
  /\ \/ unit[s.host] = "up" /\ NoFault /\ GoesOn(run, s, TRUE)
     \/ /\ unit[s.host] # "up"
        /\ \/ (run.cancelled \/ Prevented(s.host)) /\ NoFault
           \/ Fault("slow")
        /\ GoesOn(run, s, FALSE)
  /\ UNCHANGED <<fleetVars, hostVars, source, cred, read, boot, events,
                 has, readable, owned>>

\* The command is interrupted while a Host's container runs: the process in it
\* is killed, or goes on without anybody waiting for it.  In the middle of an
\* apply, being killed is a fault of its own.
Abandons(s) ==
  /\ run.pc = "boot" /\ run.cancelled /\ Running(s.host, "run")
  /\ LET h == s.host
         busy == boot[h]["run"].pc \in {"apply", "save"}
     IN \/ /\ IF busy THEN Fault(Cut(h, "run")) ELSE NoFault
           /\ Goto(h, "run", "failed") /\ Release(h, "run")
        \/ /\ ~Running(h, "alone") /\ NoFault
           /\ boot' = [boot EXCEPT ![h]["alone"] = boot[h]["run"],
                                   ![h]["run"] = NoProc]
           /\ lock' = [lock EXCEPT ![h] = IF @ = "run" THEN "alone" ELSE @]
  /\ Ends(run)
  /\ UNCHANGED <<fleetVars, disk, record, loaded, unit, source, cred,
                 read, events, has, readable, owned>>

\* A teardown visits the Hosts that have a user, and stops at an interruption.
TearsDown(s) ==
  /\ run.mode = "teardown" /\ run.pc = "step"
  /\ IF run.cancelled
     THEN Ends(run) /\ UNCHANGED boot
     ELSE /\ IF s.host \in Rootful \/ "user" \in has[s.host]
             THEN /\ Begins(s.host, "run", "teardown", FALSE, FALSE)
                  /\ run' = [run EXCEPT !.pc = "boot"]
             ELSE /\ UNCHANGED boot
                  /\ run' = [run EXCEPT !.todo = @ \ {s}]
          /\ UNCHANGED told
  /\ UNCHANGED <<fleetVars, hostVars, source, cred, read, faults, events,
                 has, readable, owned>>

TeardownEnds(s) ==
  /\ run.pc = "boot" /\ run.mode = "teardown" /\ ~Running(s.host, "run")
  /\ run' = [run EXCEPT !.pc = "step", !.todo = @ \ {s}]
  /\ UNCHANGED <<bootVars, has, readable, owned, told>>

RunStep ==
  \/ Summary
  \/ \E s \in Steps :
       /\ NextStep(s)
       /\ \/ /\ run.pc = "step"
             /\ \/ Passes(s) \/ SetsUp(s) \/ OpensCheckout(s)
                \/ PlacesCredential(s) \/ StartBootstrap(s)
          \/ BootstrapEnds(s) \/ RestartsAgent(s) \/ AwaitsHealth(s)
          \/ Abandons(s) \/ TearsDown(s) \/ TeardownEnds(s)

----------------------------------------------------------------------------
(* The Machine and its operator. *)

\* enable-linger starts the user's manager, which takes a while.
ManagerStarts(h) ==
  /\ "linger" \in has[h] /\ "manager" \notin has[h]
  /\ has' = [has EXCEPT ![h] = @ \cup {"manager"}]
  /\ UNCHANGED <<bootVars, readable, owned, run, told>>

\* The operator adds the ranges a run asked for.
AddsSubIDs(h) ==
  /\ "user" \in has[h] /\ "subids" \notin has[h]
  /\ has' = [has EXCEPT ![h] = @ \cup {"subids"}]
  /\ UNCHANGED <<bootVars, readable, owned, run, told>>

\* The operator restarts an Agent the summary named.
OperatorRestarts(h) ==
  /\ h \in told /\ unit[h] = "up" /\ Restart(h)
  /\ UNCHANGED <<fleetVars, disk, record, loaded, source, cred, read,
                 boot, faults, events, machineVars>>

\* The operator runs `picolet bootstrap` for one Host.
Alone(h) ==
  /\ Event /\ "dirs" \in has[h] /\ ~Running(h, "run")
  /\ \E force \in BOOLEAN : Begins(h, "alone", "bootstrap", force, FALSE)
  /\ UNCHANGED <<fleetVars, hostVars, source, cred, read, faults,
                 machineVars>>

AgentSteps(h) ==
  \/ /\ AgentStarts(h) /\ told' = told \ {h}
     /\ UNCHANGED <<has, readable, owned, run>>
  \/ Reconciles(h) /\ UNCHANGED machineVars

World ==
  \/ Push /\ UNCHANGED machineVars
  \/ \E h \in hosts :
       \/ AgentDies(h) /\ UNCHANGED machineVars
       \/ Rotates(h) /\ UNCHANGED machineVars
       \/ AddsSubIDs(h) \/ Alone(h)

Next ==
  \/ StartRun \/ StartTeardown \/ Interrupt \/ RunStep
  \/ \E h \in Hosts : \/ AgentSteps(h) \/ ManagerStarts(h)
                      \/ OperatorRestarts(h)
                      \/ \E s \in Slots : Step(h, s) /\ UNCHANGED machineVars
  \/ World

Spec == Init /\ [][Next]_vars

\* The command goes on and is run again; processes, Agents and managers run;
\* the operator reads the summary.
Fairness ==
  /\ WF_vars(RunStep) /\ WF_vars(StartRun)
  /\ \A h \in Hosts :
       /\ WF_vars(AgentSteps(h)) /\ WF_vars(ManagerStarts(h))
       /\ WF_vars(OperatorRestarts(h))
       /\ \A s \in Slots : WF_vars(Step(h, s) /\ UNCHANGED machineVars)

FairSpec == Spec /\ Fairness

----------------------------------------------------------------------------
(* What holds for a Machine. *)

\* Between runs, an Agent that runs with other credentials than the Host has
\* was named by a summary: a write that an interruption or a later failure
\* overtakes is not lost (run.go:189-232).
CredentialsReach ==
  run.pc = "idle" =>
    \A h \in Hosts : unit[h] = "up" /\ read[h] # cred[h] => h \in told

\* Every Host is set up, with an Agent that runs on the current files and the
\* current credentials; and nobody is about to change that.
AllCurrent ==
  /\ readable /\ told = {} /\ run.mode = "run"
  /\ run.required \subseteq run.restarted
  /\ \A h \in Hosts :
       /\ Planned(h) \cap Setup \subseteq has[h] /\ owned[h]
       /\ unit[h] = "up" /\ record[h] = Bundle[head]
       /\ record[h] = Bundle[checkout]
       /\ read[h] = cred[h] /\ cred[h] = source[h] /\ ~Running(h, "alone")
       /\ boot[h]["run"].pc \notin {"stop", "lock", "apply", "save", "start"}

\* A run on such a Machine changes nothing and restarts no Agent
\* (run.go:37-41, README.md:143-144).
SecondRunIdle ==
  [][AllCurrent /\ UNCHANGED <<faults, events>> =>
       UNCHANGED <<hostVars, cred, read, has, readable, owned>>]_vars

\* When a teardown has removed a Host's state file, nothing that was recorded
\* in it is left on the Host, systemd has forgotten the Agent's unit, and the
\* lock is free for the next bootstrap (bootstrap.go:276-329).  The service
\* itself may be back: a bootstrap that ends meanwhile starts it without the
\* lock.
TornDownIsGone ==
  [][\A h \in Hosts :
       /\ boot[h]["run"].mode = "teardown" /\ boot[h]["run"].pc = "save"
       /\ boot'[h]["run"].pc = "ok"
       => disk'[h] = Empty /\ ~loaded'[h] /\ lock'[h] = "free"]_vars

\* A bootstrap leaves the Agent's work alone, a teardown leaves nothing of it.
StaysInScope == OthersSpared /\ TornDownIsGone

\* Runs that are repeated bring up every Host that can be brought up, however
\* the earlier ones ended, and whatever stops the others (README.md:143-144,
\* run.go:37-44): true unless a bootstrap's apply ends in its middle.
Resumes ==
  <>[](\A h \in Hosts :
         \/ source[h] = NoCred
         \/ h \notin Rootful /\ "subids" \notin has[h]
         \/ /\ unit[h] = "up" /\ record[h] = Bundle[head]
            /\ read[h] = cred[h] /\ cred[h] = source[h])
=============================================================================
