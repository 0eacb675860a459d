-------------------------------- MODULE Loop --------------------------------
(***************************************************************************)
(* What wakes the Agent's loop and what it tells the outside: the poll     *)
(* ticker, the one-slot channel webhooks and MQTT triggers share, the      *)
(* pause topic, the retained status topics with their last will, and the   *)
(* start and shutdown of the process. The tick itself is Reconcile's; here *)
(* it reads the pause flag, polls, applies and publishes.                  *)
(*                                                                         *)
(* Three goroutines: the loop, the MQTT client's callback after a          *)
(* (re)connect (the replay), and the one that delivers messages.           *)
(***************************************************************************)
EXTENDS Naturals, Sequences

CONSTANTS
  NoStatus,      \* nothing to replay yet
  Faults,        \* the kinds of fault that can happen
  MaxPushes,     \* bound on the commits of a behaviour
  MaxMessages,   \* bound on the MQTT messages somebody sends
  MaxFaults,     \* bound on the faults
  MaxStarts      \* bound on the starts of the Agent

\* "subscribe": the broker does not answer a subscribe, but stays connected.
FaultKinds == {"client", "broker", "timeout", "subscribe", "tick", "crash"}

ASSUME LoopAssumption ==
  /\ NoStatus \notin Nat
  /\ Faults \subseteq FaultKinds
  /\ MaxPushes \in Nat /\ MaxMessages \in Nat /\ MaxFaults \in Nat
  /\ MaxStarts \in Nat

VARIABLES
  head,      \* commits pushed so far
  asked,     \* head at the latest webhook or trigger the Agent accepted
  polled,    \* head when a tick last polled, or found the Agent paused
  applied,   \* applied SHA of the state file
  pc,        \* where the loop is
  token,     \* webhookCh holds a token
  stop,      \* ctx is cancelled
  paused,    \* the pause flag
  cache,     \* lastStatus: the SHA to replay
  out,       \* state the tick is publishing
  replay,    \* where OnConnectionUp is
  replayOut, \* the status it took: state and SHA, if there is one
  link,      \* the client's view of the connection
  attached,  \* the broker's view of it
  fresh,     \* the process has not connected yet
  subs,      \* the broker's session has the subscriptions
  inbox,     \* messages the broker has for the Agent
  retained,  \* retained pause message
  topics,    \* retained status topics
  missed,    \* history: the last connection ended before its farewell was
             \* heard, or a replay overtook it
  sent, faults, starts

loop   == <<pc, token, stop, polled, applied>>
mqtt   == <<link, attached, fresh, subs, inbox>>
status == <<cache, out, replay, replayOut>>
bounds == <<sent, faults, starts>>
vars   == <<head, asked, loop, paused, status, mqtt, retained, topics, missed,
            bounds>>

PCs     == {"off", "start", "wait", "pause", "poll", "apply", "publish",
            "state", "sha", "close", "disconnect"}
Replays == {"idle", "subscribe", "load", "state", "sha"}
Commits == 0..MaxPushes
States  == {"offline", "running", "paused"}
Kinds   == {"pause", "resume", "trigger"}

NoReplay == [state |-> "offline", sha |-> NoStatus]

StateOf(p) == IF p THEN "paused" ELSE "running"
PauseMessage(p) == IF p THEN "pause" ELSE "resume"

Init ==
  /\ head = 0 /\ asked = 0 /\ polled = 0 /\ applied = 0
  /\ pc = "off" /\ token = FALSE /\ stop = FALSE /\ paused = FALSE
  /\ cache = NoStatus /\ out = "running"
  /\ replay = "idle" /\ replayOut = NoReplay
  /\ link = "off" /\ attached = FALSE /\ fresh = TRUE /\ subs = FALSE
  /\ inbox = <<>> /\ retained = FALSE
  /\ topics = [state |-> "offline", sha |-> 0]
  /\ missed = FALSE /\ sent = 0 /\ faults = 0 /\ starts = 0

TypeOK ==
  /\ head \in Commits /\ asked \in Commits /\ polled \in Commits
  /\ applied \in Commits
  /\ pc \in PCs /\ token \in BOOLEAN /\ stop \in BOOLEAN
  /\ paused \in BOOLEAN
  /\ cache \in Commits \cup {NoStatus} /\ out \in States
  /\ replay \in Replays
  /\ replayOut \in [state : States, sha : Commits \cup {NoStatus}]
  /\ link \in {"off", "down", "up"} /\ attached \in BOOLEAN
  /\ fresh \in BOOLEAN /\ subs \in BOOLEAN
  /\ inbox \in Seq(Kinds) /\ retained \in BOOLEAN
  /\ topics \in [state : States, sha : Commits] /\ missed \in BOOLEAN
  /\ sent \in 0..MaxMessages /\ faults \in 0..MaxFaults
  /\ starts \in 0..MaxStarts

Fault(k) == k \in Faults /\ faults < MaxFaults /\ faults' = faults + 1

----------------------------------------------------------------------------
(* Pushes, webhooks, and the broker. *)

Push ==
  /\ head < MaxPushes /\ head' = head + 1
  /\ UNCHANGED <<asked, loop, paused, status, mqtt, retained, topics, missed,
                 bounds>>

\* Mutant: a trigger counts only while the loop waits.
TriggerWhenIdle == token' = (token \/ pc = "wait")

\* triggerReconcile: a full channel already promises a tick.
Trigger == token' = TRUE

\* The HTTP server accepts webhooks as soon as it listens.
Webhook ==
  /\ pc # "off"
  /\ Trigger /\ asked' = head
  /\ UNCHANGED <<head, pc, stop, polled, applied, paused, status, mqtt,
                 retained, topics, missed, bounds>>

\* Somebody publishes to the pause topic (retained) or the trigger topic.
Send(m) ==
  /\ sent < MaxMessages /\ sent' = sent + 1
  /\ inbox' = IF subs THEN Append(inbox, m) ELSE inbox
  /\ retained' = IF m = "trigger" THEN retained ELSE m = "pause"
  /\ UNCHANGED <<head, asked, loop, paused, status, link, attached, fresh, subs,
                 topics, missed, faults, starts>>

\* The broker loses a connection and publishes the will.
Detached == attached' = FALSE /\ topics' = [topics EXCEPT !.state = "offline"]

BrokerDrops ==
  /\ attached /\ link = "up" /\ Fault("broker")
  /\ Detached
  /\ UNCHANGED <<head, asked, loop, paused, status, link, fresh, subs, inbox,
                 retained, missed, sent, starts>>

\* The broker notices a client that is gone (keep-alive).
BrokerNotices ==
  /\ attached /\ link # "up"
  /\ Detached
  /\ UNCHANGED <<head, asked, loop, paused, status, link, fresh, subs, inbox,
                 retained, missed, bounds>>

\* SessionExpiryInterval: subscriptions and queued messages are dropped.
SessionExpires ==
  /\ ~attached /\ subs
  /\ subs' = FALSE /\ inbox' = <<>>
  /\ UNCHANGED <<head, asked, loop, paused, status, link, attached, fresh,
                 retained, topics, missed, bounds>>

----------------------------------------------------------------------------
(* The MQTT client. *)

Connected == link = "up" /\ attached

\* What the callback took goes with it.
ReplayEnds == replay' = "idle" /\ replayOut' = NoReplay

\* OnConnectionDown; a callback that is running fails.
ClientDrops ==
  /\ link = "up"
  /\ \/ attached /\ Fault("client")
     \/ ~attached /\ UNCHANGED faults
  /\ link' = "down" /\ ReplayEnds
  /\ UNCHANGED <<head, asked, loop, paused, cache, out, attached, fresh,
                 subs, inbox, retained, topics, missed, sent, starts>>

\* The same client id takes over a connection the broker still holds, whose
\* will is published; the first connection of a process starts clean.
Connect ==
  /\ link = "down" /\ ~stop
  /\ link' = "up" /\ attached' = TRUE /\ fresh' = FALSE
  /\ missed' = FALSE
  /\ topics' = IF attached THEN [topics EXCEPT !.state = "offline"] ELSE topics
  /\ IF fresh THEN subs' = FALSE /\ inbox' = <<>> ELSE UNCHANGED <<subs, inbox>>
  /\ replay' = "subscribe"
  /\ UNCHANGED <<head, asked, loop, paused, cache, out, replayOut, retained,
                 bounds>>

\* The client closes a connection whose context is cancelled, which discards
\* the will; only a farewell that comes first is heard.
ContextCloses ==
  /\ link = "up" /\ stop
  /\ link' = "off" /\ attached' = FALSE /\ ReplayEnds
  /\ missed' = (missed \/ (attached /\ pc # "disconnect"))
  /\ UNCHANGED <<head, asked, loop, paused, cache, out, fresh, subs, inbox,
                 retained, topics, bounds>>

\* Mutant: only the first connection of a process subscribes.
SubscribeOnce ==
  /\ replay = "subscribe" /\ Connected
  /\ IF cache = NoStatus
     THEN subs' = TRUE /\ inbox' = Append(inbox, PauseMessage(retained))
     ELSE UNCHANGED <<subs, inbox>>
  /\ replay' = "load"
  /\ UNCHANGED <<head, asked, loop, paused, cache, out, replayOut, link,
                 attached, fresh, retained, topics, missed, bounds>>

\* OnConnectionUp subscribes on every connection; the broker sends what is
\* retained.
Subscribe ==
  /\ replay = "subscribe" /\ Connected
  /\ subs' = TRUE /\ inbox' = Append(inbox, PauseMessage(retained))
  /\ replay' = "load"
  /\ UNCHANGED <<head, asked, loop, paused, cache, out, replayOut, link,
                 attached, fresh, retained, topics, missed, bounds>>

\* It takes the last status, with the pause flag as it is now.
LoadStatus ==
  /\ replay = "load"
  /\ replayOut' = [state |-> StateOf(paused), sha |-> cache]
  /\ replay' = "state"
  /\ UNCHANGED <<head, asked, loop, paused, cache, out, mqtt, retained, topics,
                 missed, bounds>>

\* The first connection may come before the first status.
AfterState == IF replayOut.sha = NoStatus THEN "idle" ELSE "sha"

\* The state first: it has to replace the will's "offline".
ReplayState ==
  /\ replay = "state" /\ Connected
  /\ topics' = [topics EXCEPT !.state = replayOut.state]
  /\ missed' = (missed \/ pc = "disconnect")
  /\ replay' = AfterState
  /\ UNCHANGED <<head, asked, loop, paused, cache, out, replayOut, mqtt,
                 retained, bounds>>

ReplaySHA ==
  /\ replay = "sha" /\ Connected
  /\ topics' = [topics EXCEPT !.sha = replayOut.sha]
  /\ ReplayEnds
  /\ UNCHANGED <<head, asked, loop, paused, cache, out, mqtt, retained, missed,
                 bounds>>

\* onConnectionUpTimeout, or the context is cancelled.
ReplayGivesUp ==
  /\ replay # "idle"
  /\ \/ Fault(IF replay = "subscribe" THEN "subscribe" ELSE "timeout")
     \/ (stop \/ ~Connected) /\ UNCHANGED faults
  /\ ReplayEnds
  /\ UNCHANGED <<head, asked, loop, paused, cache, out, mqtt, retained, topics,
                 missed, sent, starts>>

\* OnPublishReceived.
Deliver ==
  /\ Connected /\ inbox # <<>>
  /\ inbox' = Tail(inbox)
  /\ IF Head(inbox) = "trigger"
     THEN Trigger /\ asked' = head /\ UNCHANGED paused
     ELSE paused' = (Head(inbox) = "pause") /\ UNCHANGED <<token, asked>>
  /\ UNCHANGED <<head, pc, stop, polled, applied, status, link, attached, fresh,
                 subs, retained, topics, missed, bounds>>

----------------------------------------------------------------------------
(* The loop. *)

\* Run: HTTP, then MQTT (which connects in the background), then a tick.
Run ==
  /\ pc = "off" /\ starts < MaxStarts /\ starts' = starts + 1
  /\ pc' = "start" /\ token' = FALSE /\ stop' = FALSE /\ paused' = FALSE
  /\ cache' = NoStatus /\ link' = "down" /\ fresh' = TRUE
  /\ UNCHANGED <<head, asked, polled, applied, out, replay, replayOut, attached,
                 subs, inbox, retained, topics, missed, sent, faults>>

FirstTick ==
  /\ pc = "start" /\ pc' = "pause"
  /\ UNCHANGED <<head, asked, token, stop, polled, applied, paused, status, mqtt,
                 retained, topics, missed, bounds>>

TickerTick ==
  /\ pc = "wait" /\ pc' = "pause"
  /\ UNCHANGED <<head, asked, token, stop, polled, applied, paused, status, mqtt,
                 retained, topics, missed, bounds>>

WebhookTick ==
  /\ pc = "wait" /\ token
  /\ pc' = "pause" /\ token' = FALSE
  /\ UNCHANGED <<head, asked, stop, polled, applied, paused, status, mqtt,
                 retained, topics, missed, bounds>>

\* Health ran; a paused tick ends here.
PauseCheck ==
  /\ pc = "pause"
  /\ IF paused THEN pc' = "publish" /\ polled' = head
     ELSE pc' = "poll" /\ UNCHANGED polled
  /\ UNCHANGED <<head, asked, token, stop, applied, paused, status, mqtt,
                 retained, topics, missed, bounds>>

Poll ==
  /\ pc = "poll" /\ polled' = head
  /\ \/ pc' = "apply" /\ UNCHANGED faults
     \/ pc' = "publish" /\ IF stop THEN UNCHANGED faults ELSE Fault("tick")
  /\ UNCHANGED <<head, asked, token, stop, applied, paused, status, mqtt,
                 retained, topics, missed, sent, starts>>

Apply ==
  /\ pc = "apply" /\ pc' = "publish"
  /\ \/ applied' = polled /\ UNCHANGED faults
     \/ UNCHANGED applied /\ IF stop THEN UNCHANGED faults ELSE Fault("tick")
  /\ UNCHANGED <<head, asked, token, stop, polled, paused, status, mqtt,
                 retained, topics, missed, sent, starts>>

\* Mutant: a status that was published already is not published again.
PublishChanged ==
  /\ pc = "publish"
  /\ pc' = IF cache = applied /\ out = StateOf(paused) THEN "wait" ELSE "state"
  /\ cache' = applied /\ out' = StateOf(paused)
  /\ UNCHANGED <<head, asked, token, stop, polled, applied, paused, replay,
                 replayOut, mqtt, retained, topics, missed, bounds>>

\* publishMQTTStatus: every tick, cached for the replay whether or not it can
\* be published.
PublishStatus ==
  /\ pc = "publish" /\ pc' = "state"
  /\ cache' = applied /\ out' = StateOf(paused)
  /\ UNCHANGED <<head, asked, token, stop, polled, applied, paused, replay,
                 replayOut, mqtt, retained, topics, missed, bounds>>

\* A publication reaches the broker, or fails: not connected, cancelled, slow.
Publishes(field, value) ==
  \/ /\ Connected
     /\ topics' = [topics EXCEPT ![field] = value] /\ UNCHANGED faults
  \/ /\ IF Connected /\ ~stop THEN Fault("timeout") ELSE UNCHANGED faults
     /\ UNCHANGED topics

PublishState ==
  /\ pc = "state" /\ pc' = "sha"
  /\ Publishes("state", out)
  /\ UNCHANGED <<head, asked, token, stop, polled, applied, paused, status, mqtt,
                 retained, missed, sent, starts>>

PublishSHA ==
  /\ pc = "sha" /\ pc' = "wait"
  /\ Publishes("sha", cache)
  /\ UNCHANGED <<head, asked, token, stop, polled, applied, paused, status, mqtt,
                 retained, missed, sent, starts>>

Cancel ==
  /\ pc # "off" /\ ~stop /\ stop' = TRUE
  /\ UNCHANGED <<head, asked, pc, token, polled, applied, paused, status, mqtt,
                 retained, topics, missed, bounds>>

\* The select may still choose another tick first.
Done ==
  /\ pc = "wait" /\ stop /\ pc' = "close"
  /\ UNCHANGED <<head, asked, token, stop, polled, applied, paused, status, mqtt,
                 retained, topics, missed, bounds>>

\* Mutant: the client just disconnects.
NoFarewell ==
  /\ pc = "close" /\ pc' = "disconnect"
  /\ UNCHANGED <<head, asked, token, stop, polled, applied, paused, status, mqtt,
                 retained, topics, missed, bounds>>

\* Close publishes "offline" (a clean disconnect discards the will) ...
Farewell ==
  /\ pc = "close" /\ pc' = "disconnect"
  /\ \/ /\ Connected
        /\ topics' = [topics EXCEPT !.state = "offline"]
        /\ UNCHANGED <<missed, faults>>
     \/ /\ Connected /\ Fault("timeout")
        /\ missed' = TRUE /\ UNCHANGED topics
     \/ ~Connected /\ UNCHANGED <<topics, missed, faults>>
  /\ UNCHANGED <<head, asked, token, stop, polled, applied, paused, status, mqtt,
                 retained, sent, starts>>

\* ... and disconnects.
Disconnect ==
  /\ pc = "disconnect" /\ pc' = "off"
  /\ link' = "off" /\ ReplayEnds
  /\ attached' = IF link = "up" THEN FALSE ELSE attached
  /\ UNCHANGED <<head, asked, token, stop, polled, applied, paused, cache, out,
                 fresh, subs, inbox, retained, topics, missed, bounds>>

\* The process dies; the broker notices by itself.
Crash ==
  /\ pc # "off" /\ Fault("crash")
  /\ pc' = "off" /\ link' = "off" /\ ReplayEnds
  /\ UNCHANGED <<head, asked, token, stop, polled, applied, paused, cache, out,
                 attached, fresh, subs, inbox, retained, topics, missed, sent,
                 starts>>

Replay == \/ Subscribe \/ LoadStatus \/ ReplayState \/ ReplaySHA
          \/ ReplayGivesUp

Notices == BrokerNotices \/ (~attached /\ ClientDrops)

Tick == \/ FirstTick \/ TickerTick \/ WebhookTick \/ PauseCheck \/ Poll \/ Apply
        \/ PublishStatus \/ PublishState \/ PublishSHA

Next == \/ Push \/ Webhook \/ \E m \in Kinds : Send(m)
        \/ BrokerDrops \/ BrokerNotices \/ SessionExpires
        \/ ClientDrops \/ Connect \/ ContextCloses \/ Replay \/ Deliver
        \/ Run \/ Tick \/ Cancel \/ Done \/ Farewell \/ Disconnect \/ Crash

Spec == Init /\ [][Next]_vars

\* The ticker fires for ever and the loop goes on; a cancelled context is seen
\* in the end; the client reconnects, its callback runs to its end (it has a
\* timeout), and messages on a live connection arrive.
FairSpec ==
  /\ Spec
  /\ WF_vars(Tick) /\ SF_vars(Done) /\ WF_vars(Farewell \/ Disconnect)
  /\ WF_vars(Notices) /\ WF_vars(Connect) /\ WF_vars(Replay) /\ WF_vars(Deliver)

----------------------------------------------------------------------------
(* Properties. *)

\* No trigger is lost by being merged with another: a commit an accepted webhook
\* announced is polled, or a tick that will poll it is under way or promised
\* (triggerReconcile, Run).
TriggersCovered ==
  asked > polled => token \/ pc \in {"off", "start", "pause", "poll"}

\* A pause or resume reaches the Agent, whatever connections, sessions and
\* processes come and go in between (OnConnectionUp, the retained topic).
PauseArrives == <>[](pc = "wait" => paused = retained)

\* The retained status ends as the Agent's: replays and publications that
\* overtake each other, and wills of dead connections, do not stick
\* (PublishStatus, OnConnectionUp).
StatusConverges ==
  <>[](pc = "wait" => topics = [state |-> StateOf(paused), sha |-> applied])

\* What the broker keeps and what the Agent does agree in the end, in both
\* directions.
RetainedConverges == PauseArrives /\ StatusConverges

\* An Agent that ended is shown offline, by its farewell or by its will, unless
\* the connection was closed before the farewell or a replay overtook it (Close).
OfflineWhenGone ==
  (pc = "off" /\ ~missed) ~> (topics.state = "offline" \/ pc # "off")
=============================================================================
