----------------------------- MODULE LoopProofs -----------------------------
(* Theorems about Loop, for any bounds. *)
EXTENDS Loop, TLAPS

\* Heads only grow, and nobody asks for or polls what is not there yet.
Past == head \in Nat /\ asked \in Nat /\ polled \in Nat /\ asked <= head

\* A webhook that finds the channel full, or the loop in the middle of a tick, is
\* not lost: Past makes the poll of a tick cover every earlier trigger, and a
\* later one finds, or leaves, a token in the channel (triggerReconcile).
THEOREM TriggersAlwaysCovered == Spec => []TriggersCovered
<1> DEFINE Inv == Past /\ TriggersCovered
<1>1. Init => Inv
  BY DEF Init, Past, TriggersCovered
<1>2. Inv /\ [Next]_vars => Inv'
  <2> SUFFICES ASSUME Inv, [Next]_vars PROVE Inv'
    OBVIOUS
  <2> USE DEF Past, TriggersCovered, loop, mqtt, status, bounds
  <2>1. CASE Push
    BY <2>1 DEF Push
  <2>2. CASE Webhook
    BY <2>2 DEF Webhook, Trigger
  <2>3. CASE Deliver
    BY <2>3 DEF Deliver, Trigger
  <2>4. ASSUME NEW m \in Kinds, Send(m) PROVE Inv'
    BY <2>4 DEF Send
  <2>5. CASE BrokerDrops \/ BrokerNotices \/ SessionExpires \/ ClientDrops
             \/ Connect \/ ContextCloses
    BY <2>5 DEF BrokerDrops, BrokerNotices, SessionExpires, ClientDrops, Connect,
                ContextCloses
  <2>6. CASE Replay
    BY <2>6 DEF Replay, Subscribe, LoadStatus, ReplayState, ReplaySHA,
                ReplayGivesUp
  <2>7. CASE Run \/ FirstTick \/ TickerTick \/ WebhookTick
    BY <2>7 DEF Run, FirstTick, TickerTick, WebhookTick
  <2>8. CASE PauseCheck
    BY <2>8 DEF PauseCheck
  <2>9. CASE Poll
    BY <2>9 DEF Poll
  <2>10. CASE Apply \/ PublishStatus \/ PublishState \/ PublishSHA
    BY <2>10 DEF Apply, PublishStatus, PublishState, PublishSHA
  <2>11. CASE Cancel \/ Done \/ Farewell \/ Disconnect \/ Crash
    BY <2>11 DEF Cancel, Done, Farewell, Disconnect, Crash
  <2>12. CASE UNCHANGED vars
    BY <2>12 DEF vars
  <2> QED
    BY <2>1, <2>2, <2>3, <2>4, <2>5, <2>6, <2>7, <2>8, <2>9, <2>10, <2>11,
       <2>12 DEF Next, Tick
<1> QED BY <1>1, <1>2, PTL DEF Spec

----------------------------------------------------------------------------
(* Types. *)

\* A SHA is published only when there is one: by a tick from the status it
\* has cached, by a replay from the status it took.
Published ==
  /\ pc \in {"state", "sha"} => cache \in Commits
  /\ replay = "sha" => replayOut.sha \in Commits

LEMMA FaultCounted ==
  ASSUME faults \in 0..MaxFaults, NEW k, Fault(k)
  PROVE  faults' \in 0..MaxFaults
BY LoopAssumption DEF Fault

LEMMA EmptyInbox == <<>> \in Seq(Kinds)
OBVIOUS

LEMMA NoReplayType ==
  NoReplay \in [state : States, sha : Commits \cup {NoStatus}]
BY DEF NoReplay, States

LEMMA TypeStep == TypeOK /\ Published /\ [Next]_vars => TypeOK' /\ Published'
<1> SUFFICES ASSUME TypeOK, Published, [Next]_vars PROVE TypeOK' /\ Published'
  OBVIOUS
<1> USE DEF TypeOK, Published, loop, mqtt, status, bounds
<1>1. CASE Push
  BY <1>1, LoopAssumption DEF Push, Commits
<1>2. CASE Webhook
  BY <1>2 DEF Webhook, Trigger
<1>3. CASE Deliver
  <2>1. inbox' \in Seq(Kinds) /\ Head(inbox) \in Kinds
    BY <1>3 DEF Deliver
  <2> QED
    BY <1>3, <2>1, ZenonT(60) DEF Deliver, Trigger
<1>4. ASSUME NEW m \in Kinds, Send(m) PROVE TypeOK' /\ Published'
  <2>1. inbox' \in Seq(Kinds) /\ sent' \in 0..MaxMessages
    BY <1>4, LoopAssumption DEF Send
  <2> QED
    BY <1>4, <2>1, ZenonT(60) DEF Send
<1>5. CASE BrokerDrops \/ BrokerNotices
  <2>1. topics' \in [state : States, sha : Commits]
    BY <1>5 DEF BrokerDrops, BrokerNotices, Detached, States
  <2> QED
    <3>1. CASE BrokerDrops
      <4>1. faults' \in 0..MaxFaults
        BY <3>1, FaultCounted DEF BrokerDrops
      <4> QED
        BY <2>1, <3>1, <4>1, ZenonT(60) DEF BrokerDrops, Detached
    <3>2. CASE BrokerNotices
      BY <2>1, <3>2, ZenonT(60) DEF BrokerNotices, Detached
    <3> QED
      BY <1>5, <3>1, <3>2
<1>6. CASE SessionExpires
  <2>1. inbox' \in Seq(Kinds)
    BY <1>6, EmptyInbox DEF SessionExpires
  <2> QED
    BY <1>6, <2>1, ZenonT(60) DEF SessionExpires
<1>7. CASE ClientDrops
  BY <1>7, FaultCounted, NoReplayType DEF ClientDrops, ReplayEnds, Replays
<1>8. CASE ContextCloses
  <2>1. missed' \in BOOLEAN
    BY <1>8 DEF ContextCloses
  <2> QED
    BY <1>8, <2>1, NoReplayType DEF ContextCloses, ReplayEnds, Replays
<1>9. CASE Connect
  <2>1. topics' \in [state : States, sha : Commits] /\ inbox' \in Seq(Kinds)
    BY <1>9, EmptyInbox DEF Connect, States
  <2> QED
    BY <1>9, <2>1 DEF Connect, Replays
<1>10. CASE Subscribe
  <2>1. PauseMessage(retained) \in Kinds
    BY DEF PauseMessage, Kinds
  <2>2. inbox' \in Seq(Kinds)
    BY <1>10, <2>1 DEF Subscribe
  <2> QED
    BY <1>10, <2>2 DEF Subscribe, Replays
<1>11. CASE LoadStatus
  BY <1>11 DEF LoadStatus, StateOf, States, Replays
<1>12. CASE ReplayState
  <2>1. topics' \in [state : States, sha : Commits]
    BY <1>12 DEF ReplayState
  <2>2. /\ AfterState \in {"idle", "sha"}
        /\ AfterState = "sha" => replayOut.sha \in Commits
    BY DEF AfterState
  <2> QED
    BY <1>12, <2>1, <2>2 DEF ReplayState, Replays
<1>13. CASE ReplaySHA
  <2>1. topics' \in [state : States, sha : Commits]
    BY <1>13 DEF ReplaySHA
  <2> QED
    BY <1>13, <2>1 DEF ReplaySHA, ReplayEnds, NoReplay, Replays, States
<1>14. CASE ReplayGivesUp
  BY <1>14, FaultCounted
  DEF ReplayGivesUp, ReplayEnds, NoReplay, Replays, States
<1>15. CASE Run
  <2>1. starts' \in 0..MaxStarts
    BY <1>15, LoopAssumption DEF Run
  <2> QED
    BY <1>15, <2>1 DEF Run, PCs
<1>16. CASE FirstTick
  BY <1>16 DEF FirstTick, PCs
<1>17. CASE TickerTick
  BY <1>17 DEF TickerTick, PCs
<1>18. CASE WebhookTick
  BY <1>18, ZenonT(60) DEF WebhookTick, PCs
<1>19. CASE PauseCheck
  BY <1>19 DEF PauseCheck, PCs
<1>20. CASE Cancel
  BY <1>20 DEF Cancel
<1>21. CASE Done
  BY <1>21 DEF Done, PCs
<1>22. CASE Poll \/ Apply
  BY <1>22, FaultCounted DEF Poll, Apply, PCs
<1>23. CASE PublishStatus
  BY <1>23 DEF PublishStatus, StateOf, States, PCs
<1>24. CASE PublishState \/ PublishSHA
  <2>1. topics' \in [state : States, sha : Commits] /\ faults' \in 0..MaxFaults
    BY <1>24, FaultCounted DEF PublishState, PublishSHA, Publishes
  <2> QED
    BY <1>24, <2>1 DEF PublishState, PublishSHA, PCs
<1>25. CASE Farewell
  <2>1. topics' \in [state : States, sha : Commits] /\ faults' \in 0..MaxFaults
    BY <1>25, FaultCounted DEF Farewell, States
  <2>2. missed' \in BOOLEAN /\ pc' \in PCs \ {"state", "sha"}
    BY <1>25 DEF Farewell, PCs
  <2> QED
    BY <1>25, <2>1, <2>2 DEF Farewell
<1>26. CASE Disconnect
  <2>1. attached' \in BOOLEAN /\ pc' \in PCs \ {"state", "sha"}
    BY <1>26 DEF Disconnect, PCs
  <2> QED
    BY <1>26, <2>1, NoReplayType DEF Disconnect, ReplayEnds, Replays
<1>27. CASE Crash
  <2>1. pc' \in PCs \ {"state", "sha"}
    BY <1>27 DEF Crash, PCs
  <2> QED
    BY <1>27, <2>1, FaultCounted, NoReplayType DEF Crash, ReplayEnds, Replays
<1>28. CASE UNCHANGED vars
  BY <1>28 DEF vars
<1> QED
  BY <1>1, <1>2, <1>3, <1>4, <1>5, <1>6, <1>7, <1>8, <1>9, <1>10, <1>11,
     <1>12, <1>13, <1>14, <1>15, <1>16, <1>17, <1>18, <1>19, <1>20, <1>21,
     <1>22, <1>23, <1>24, <1>25, <1>26, <1>27, <1>28
  DEF Next, Tick, Replay

\* Every variable keeps its type: above all, no tick and no replay publishes a
\* SHA that is not there yet (publishMQTTStatus, OnConnectionUp).
THEOREM TypeCorrect == Spec => []TypeOK
<1>1. Init => TypeOK /\ Published
  <2> SUFFICES ASSUME Init PROVE TypeOK /\ Published
    OBVIOUS
  <2>1. 0 \in Commits /\ 0 \in 0..MaxMessages /\ 0 \in 0..MaxFaults
        /\ 0 \in 0..MaxStarts
    BY LoopAssumption DEF Commits
  <2> QED
    BY <2>1, EmptyInbox, NoReplayType
    DEF Init, TypeOK, Published, PCs, States, Replays
<1> QED
  BY <1>1, TypeStep, PTL DEF Spec
=============================================================================
