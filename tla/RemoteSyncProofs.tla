-------------------------- MODULE RemoteSyncProofs --------------------------
(* Proofs about RemoteSync for any number of engines, rules and batches    *)
(* and any capacity of the channels.                                       *)
EXTENDS RemoteSync, SequenceTheorems, TLAPS

(* A dispatch is a pair of an engine and a rule (engine.go:297-306).       *)
LEMMA DispatchIsPair ==
  \A d \in Dispatches :
    d[1] \in Engines /\ d[2] \in 1..Rules /\ d = <<d[1], d[2]>>
BY DEF Dispatches

(* The dispatch an engine is at is one of its own (engine.go:304).         *)
LEMMA CurrentType ==
  ASSUME TypeOK, NEW e \in Engines
  PROVE  Current(e) \in Dispatches /\ Current(e)[1] = e /\ Current(e)[2] = rule[e]
BY DEF TypeOK, Current, Dispatches

(* No entry in the registry is no dispatch.                                *)
LEMMA NobodyApart == Nobody \notin Dispatches
BY RemoteAssumption DEF Dispatches

(* What a stream sends is a batch (cmd/agent/main.go:260-282).             *)
LEMMA BatchType ==
  ASSUME TypeOK, NEW d \in Dispatches, received[d] >= 1
  PROVE  <<d, received[d] - 1>> \in Batches
BY RemoteAssumption DEF TypeOK, Batches

(* A handler that sends has received a batch and found a channel, and one  *)
(* that closes has found a channel (agent_grpc.go:107-127).                *)
SendingOK ==
  \A d \in Dispatches :
    /\ push[d] = "sending" => received[d] >= 1
    /\ push[d] \in {"sending", "closing"} => dest[d] \in Dispatches

(* Typing is inductive together with SendingOK.                            *)
LEMMA TypeStep ==
  ASSUME TypeOK, SendingOK, [Next]_vars
  PROVE  TypeOK' /\ SendingOK'
<1> USE DEF TypeOK, SendingOK, engineVars, agentVars, pushVars
<1>1. ASSUME NEW e \in Engines, StartEngine(e) PROVE TypeOK' /\ SendingOK'
  BY <1>1 DEF StartEngine
<1>2. ASSUME NEW e \in Engines, Register(e) PROVE TypeOK' /\ SendingOK'
  BY <1>2, CurrentType DEF Register
<1>3. ASSUME NEW e \in Engines, Send(e) PROVE TypeOK' /\ SendingOK'
  BY <1>3, CurrentType DEF Send
<1>17. ASSUME NEW e \in Engines, DispatchFails(e) PROVE TypeOK' /\ SendingOK'
  BY <1>17 DEF DispatchFails
<1>4. ASSUME NEW e \in Engines, Return(e) PROVE TypeOK' /\ SendingOK'
  BY <1>4 DEF Return
<1>5. ASSUME NEW e \in Engines, Receive(e) PROVE TypeOK' /\ SendingOK'
  <2> DEFINE d == Current(e)
  <2>1. d \in Dispatches /\ chan[d] \in Seq(Batches) /\ chan[d] # <<>>
    BY <1>5, CurrentType DEF Receive
  <2>2. /\ Head(chan[d]) \in Batches
        /\ Tail(chan[d]) \in Seq(Batches) /\ Len(Tail(chan[d])) <= Cap
    BY <2>1, HeadTailProperties, RemoteAssumption
  <2>3. /\ chan' \in [Dispatches -> Seq(Batches)]
        /\ \A c \in Dispatches : Len(chan'[c]) <= Cap
    <3>1. chan' = [chan EXCEPT ![d] = Tail(chan[d])]
      BY <1>5 DEF Receive
    <3>. QED  BY <2>1, <2>2, <3>1
  <2>4. \/ UNCHANGED <<engine, batch>>
        \/ engine' = [engine EXCEPT ![e] = "loading"] /\ batch' = [batch EXCEPT ![e] = Head(chan[d])]
    BY <1>5 DEF Receive
  <2>5. engine' \in [Engines -> {"idle", "ready", "registered", "listening", "loading", "returning", "done"}]
    BY <2>4
  <2>6. \A f \in Engines : engine'[f] = "loading" => batch'[f] \in Batches
    <3> SUFFICES ASSUME NEW f \in Engines, engine'[f] = "loading" PROVE batch'[f] \in Batches
      OBVIOUS
    <3>1. CASE UNCHANGED <<engine, batch>>
      BY <3>1
    <3>2. CASE engine' = [engine EXCEPT ![e] = "loading"] /\ batch' = [batch EXCEPT ![e] = Head(chan[d])]
      BY <2>2, <3>2
    <3>. QED  BY <2>4, <3>1, <3>2
  <2>7. UNCHANGED <<rule, target, finished, registry, closed, agentVars, pushVars,
                    panicked, overlapped>>
    BY <1>5 DEF Receive
  <2>8. batch' \in [Engines -> Batches \union {Nobody}]
    BY <2>2, <2>4
  <2>. QED  BY <2>3, <2>5, <2>6, <2>7, <2>8
<1>16. ASSUME NEW e \in Engines, LoadBatch(e) \/ LoadFails(e)
       PROVE  TypeOK' /\ SendingOK'
  <2>1. Current(e) \in Dispatches /\ batch[e] \in Batches
    BY <1>16, CurrentType DEF LoadBatch, LoadFails
  <2>2. Loaded(e) \in [Dispatches -> SUBSET Batches]
    BY <2>1 DEF Loaded
  <2>3. target' \in [Dispatches -> SUBSET Batches]
    BY <1>16, <2>2 DEF LoadBatch, LoadFails
  <2>4. /\ engine' \in [Engines -> {"idle", "ready", "registered", "listening", "loading", "returning", "done"}]
        /\ \A f \in Engines : engine'[f] = "loading" => f # e /\ engine[f] = "loading"
    BY <1>16 DEF LoadBatch, LoadFails
  <2>5. batch' = [batch EXCEPT ![e] = Nobody]
    BY <1>16 DEF LoadBatch, LoadFails
  <2>6. UNCHANGED <<rule, finished, registry, chan, closed, agentVars, pushVars,
                    panicked, overlapped>>
    BY <1>16 DEF LoadBatch, LoadFails
  <2>. QED  BY <2>3, <2>4, <2>5, <2>6
<1>6. ASSUME NEW e \in Engines, FinishRule(e) PROVE TypeOK' /\ SendingOK'
  <2>1. rule' \in [Engines -> 1..Rules]
    <3>1. CASE rule[e] < Rules
      <4>1. rule[e] + 1 \in 1..Rules
        BY <3>1, RemoteAssumption
      <4>. QED  BY <1>6, <3>1, <4>1 DEF FinishRule
    <3>2. CASE ~(rule[e] < Rules)
      BY <1>6, <3>2 DEF FinishRule
    <3>. QED  BY <3>1, <3>2
  <2>2. engine' \in [Engines -> {"idle", "ready", "registered", "listening", "loading", "returning", "done"}]
    BY <1>6 DEF FinishRule
  <2>3. finished' \subseteq Dispatches
    BY <1>6, CurrentType DEF FinishRule
  <2>4. UNCHANGED <<batch, target, registry, chan, closed, agentVars, pushVars,
                    panicked, overlapped>>
    BY <1>6 DEF FinishRule
  <2>5. \A f \in Engines : engine'[f] = "loading" => engine[f] = "loading"
    BY <1>6 DEF FinishRule
  <2>. QED  BY <2>1, <2>2, <2>3, <2>4, <2>5
<1>7. ASSUME NEW d \in Dispatches, AgentOpens(d) PROVE TypeOK' /\ SendingOK'
  <2>1. 1 \in 0..(N + 1)
    BY RemoteAssumption
  <2>. QED  BY <1>7, <2>1 DEF AgentOpens
<1>8. ASSUME NEW d \in Dispatches,
             AgentRefuses(d) \/ AgentCloses(d) \/ ConnectionLost(d)
      PROVE  TypeOK' /\ SendingOK'
  BY <1>8 DEF AgentRefuses, AgentCloses, ConnectionLost
<1>9. ASSUME NEW d \in Dispatches, AgentSends(d) PROVE TypeOK' /\ SendingOK'
  <2>1. produced[d] + 1 \in 0..(N + 1)
    BY <1>9, RemoteAssumption DEF AgentSends
  <2>. QED  BY <1>9, <2>1 DEF AgentSends
<1>10. ASSUME NEW d \in Dispatches, PushRecv(d) PROVE TypeOK' /\ SendingOK'
  <2>1. received[d] + 1 \in 0..(N + 1) /\ received[d] + 1 >= 1
    BY <1>10, RemoteAssumption DEF PushRecv
  <2>2. /\ received' \in [Dispatches -> 0..(N + 1)]
        /\ dest' \in [Dispatches -> Dispatches \union {Nobody}]
        /\ push' \in [Dispatches -> {"none", "recv", "sending", "closing", "done"}]
    BY <1>10, <2>1 DEF PushRecv, Step
  <2>3. SendingOK'
    BY <1>10, <2>1 DEF PushRecv, Step
  <2>. QED  BY <1>10, <2>2, <2>3 DEF PushRecv
<1>11. ASSUME NEW d \in Dispatches, PushEnd(d) PROVE TypeOK' /\ SendingOK'
  BY <1>11 DEF PushEnd, Step
<1>12. ASSUME NEW d \in Dispatches, PushSend(d) PROVE TypeOK' /\ SendingOK'
  <2> DEFINE b == <<d, received[d] - 1>>
  <2>1. b \in Batches /\ dest[d] \in Dispatches /\ Len(chan[dest[d]]) < Cap
    BY <1>12, BatchType DEF PushSend
  <2>2. /\ Append(chan[dest[d]], b) \in Seq(Batches)
        /\ Len(Append(chan[dest[d]], b)) <= Cap
    BY <2>1, AppendProperties, RemoteAssumption
  <2>3. /\ chan' \in [Dispatches -> Seq(Batches)]
        /\ \A c \in Dispatches : Len(chan'[c]) <= Cap
    BY <1>12, <2>1, <2>2 DEF PushSend
  <2>. QED
    BY <1>12, <2>3 DEF PushSend, Step
<1>13. ASSUME NEW d \in Dispatches, PushClose(d) PROVE TypeOK' /\ SendingOK'
  BY <1>13 DEF PushClose, Step
<1>14. ASSUME NEW d \in Dispatches, PushBreaks(d) \/ PushPanics(d)
       PROVE  TypeOK' /\ SendingOK'
  BY <1>14 DEF PushBreaks, PushPanics, Step
<1>15. ASSUME UNCHANGED vars PROVE TypeOK' /\ SendingOK'
  BY <1>15 DEF vars
<1>. QED
  BY <1>1, <1>2, <1>3, <1>4, <1>5, <1>6, <1>7, <1>8, <1>9, <1>10, <1>11,
     <1>12, <1>13, <1>14, <1>15, <1>16, <1>17
  DEF Next, EngineStep, DispatchSync, ListenStep, AgentStep, PushStep

(* Every variable keeps its type: in particular no channel ever holds more *)
(* than its capacity (engine.go:304, agent_grpc.go:127).                   *)
THEOREM TypeCorrect == Spec => []TypeOK
<1>1. Init => TypeOK /\ SendingOK
  <2> SUFFICES ASSUME Init PROVE TypeOK /\ SendingOK
    OBVIOUS
  <2>1. <<>> \in Seq(Batches) /\ Len(<<>>) <= Cap
    BY EmptySeq, RemoteAssumption
  <2>2. chan \in [Dispatches -> Seq(Batches)] /\ \A d \in Dispatches : Len(chan[d]) <= Cap
    BY <2>1 DEF Init
  <2>3. 1 \in 1..Rules /\ 0 \in 0..(N + 1)
    BY RemoteAssumption
  <2>. QED  BY <2>2, <2>3 DEF Init, TypeOK, SendingOK
<1>2. TypeOK /\ SendingOK /\ [Next]_vars => (TypeOK /\ SendingOK)'
  BY TypeStep
<1>. QED  BY <1>1, <1>2, PTL DEF Spec

-----------------------------------------------------------------------------
(* The inductive invariant: first what is so whoever uses the job id.      *)

Ended(d) == agent[d] \in {"eof", "broken"}

(* A dispatch is begun once its engine has sent its command, or tried to.  *)
Begun(d) ==
  \/ d[2] < rule[d[1]]
  \/ d[2] = rule[d[1]] /\ engine[d[1]] \notin {"idle", "ready"}

(* Nothing refers to a dispatch that is not begun.                         *)
BegunOnly ==
  /\ \A d \in Dispatches :
       agent[d] # "none" \/ chan[d] # <<>> \/ target[d] # {} \/ d \in closed
         => Begun(d)
  /\ registry # Nobody => Begun(registry)
  /\ \A d \in Dispatches : dest[d] # Nobody => Begun(dest[d])

(* The two ends of a stream agree about it.                                *)
StreamEnds ==
  \A d \in Dispatches :
    /\ push[d] = "none" <=> agent[d] \in {"none", "commanded", "refused"}
    /\ push[d] = "none" <=> produced[d] = 0
    /\ received[d] <= produced[d]
    /\ push[d] = "closing" => received[d] = produced[d] /\ Ended(d)

(* The agent of a dispatch hears of it between registration and listening. *)
ListenerStarted ==
  \A e \in Engines :
    /\ Listening(e) => agent[Current(e)] # "none"
    /\ engine[e] = "registered" => agent[Current(e)] = "none"

Structure == SendingOK /\ BegunOnly /\ StreamEnds /\ ListenerStarted

(* What has begun stays begun (engine.go:285-366).                         *)
LEMMA BegunGrows ==
  ASSUME TypeOK, [Next]_vars
  PROVE  \A d \in Dispatches : Begun(d) => Begun(d)'
<1> SUFFICES ASSUME NEW d \in Dispatches, Begun(d) PROVE Begun(d)'
  OBVIOUS
<1>0. d[1] \in Engines /\ d[2] \in 1..Rules /\ rule[d[1]] \in 1..Rules
  BY DispatchIsPair DEF TypeOK
<1>1. ASSUME NEW e \in Engines,
             \/ StartEngine(e) \/ Register(e) \/ Send(e) \/ DispatchFails(e)
             \/ Return(e) \/ Receive(e) \/ LoadBatch(e) \/ LoadFails(e)
      PROVE  Begun(d)'
  BY <1>0, <1>1
  DEF TypeOK, Begun, StartEngine, Register, Send, DispatchFails, Return, Receive,
      LoadBatch, LoadFails
<1>2. ASSUME NEW e \in Engines, FinishRule(e) PROVE Begun(d)'
  <2>1. CASE d[1] = e /\ rule[e] < Rules
    <3>1. rule'[d[1]] = rule[d[1]] + 1
      BY <1>0, <1>2, <2>1 DEF TypeOK, FinishRule
    <3>2. d[2] < rule'[d[1]]
      BY <1>0, <3>1, RemoteAssumption DEF Begun
    <3>. QED  BY <3>2 DEF Begun
  <2>2. CASE ~(d[1] = e /\ rule[e] < Rules)
    BY <1>0, <1>2, <2>2 DEF TypeOK, Begun, FinishRule
  <2>. QED  BY <2>1, <2>2
<1>3. ASSUME UNCHANGED <<engine, rule>> PROVE Begun(d)'
  BY <1>3 DEF Begun
<1>4. ASSUME NEW c \in Dispatches, AgentStep(c) \/ ConnectionLost(c) \/ PushStep(c)
      PROVE  UNCHANGED <<engine, rule>>
  BY <1>4
  DEF AgentStep, AgentOpens, AgentRefuses, AgentSends, AgentCloses,
      ConnectionLost, PushStep, PushRecv, PushSend, PushEnd, PushClose,
      PushBreaks, PushPanics, engineVars
<1>. QED
  BY <1>1, <1>2, <1>3, <1>4 DEF Next, EngineStep, DispatchSync, ListenStep, vars, engineVars

(* An engine that is ready has not begun the dispatch it is about to make. *)
LEMMA ReadyNotBegun ==
  ASSUME TypeOK, NEW e \in Engines, engine[e] = "ready"
  PROVE  ~Begun(Current(e))
BY CurrentType DEF TypeOK, Begun

(* Channels, streams and registry entries come only from commands that     *)
(* were sent or tried (engine.go:297-324, agent_manager.go:53-74).         *)
LEMMA BegunOnlyStep ==
  ASSUME TypeOK, Structure, [Next]_vars
  PROVE  BegunOnly'
<1> USE DEF TypeOK, Structure, BegunOnly
<1>0. \A d \in Dispatches : Begun(d) => Begun(d)'
  BY BegunGrows
<1>1. ASSUME NEW e \in Engines, DispatchSync(e)
      PROVE  BegunOnly'
  <2>1. PICK c \in Dispatches : c = Current(e)
    BY CurrentType
  <2>2. Begun(c)'
    <3>1. c[1] = e /\ c[2] = rule[e]
      BY <2>1, CurrentType
    <3>2. rule' = rule /\ engine'[e] \notin {"idle", "ready"}
      BY <1>1 DEF DispatchSync, Register, Send, DispatchFails
    <3>. QED  BY <3>1, <3>2 DEF Begun
  <2>3. /\ UNCHANGED <<chan, target, closed, dest>>
        /\ registry' \in {registry, c}
    BY <1>1, <2>1 DEF DispatchSync, Register, Send, DispatchFails, pushVars
  <2>4. \A d \in Dispatches : d # c => agent'[d] = agent[d]
    BY <1>1, <2>1 DEF DispatchSync, Register, Send, DispatchFails, agentVars
  <2>. QED  BY <1>0, <2>2, <2>3, <2>4
<1>2. ASSUME NEW e \in Engines,
             StartEngine(e) \/ Return(e) \/ FinishRule(e)
      PROVE  BegunOnly'
  BY <1>0, <1>2 DEF StartEngine, Return, FinishRule, pushVars, agentVars
<1>3. ASSUME NEW e \in Engines, Receive(e) \/ LoadBatch(e) \/ LoadFails(e)
      PROVE  BegunOnly'
  <2>1. PICK c \in Dispatches : c = Current(e)
    BY CurrentType
  <2>2. Begun(c)
    <3>1. c[1] = e /\ c[2] = rule[e]
      BY <2>1, CurrentType
    <3>2. engine[e] \notin {"idle", "ready"}
      BY <1>3 DEF Receive, LoadBatch, LoadFails
    <3>. QED  BY <3>1, <3>2 DEF Begun
  <2>3. \A d \in Dispatches : d # c => chan'[d] = chan[d] /\ target'[d] = target[d]
    BY <1>3, <2>1 DEF Receive, LoadBatch, LoadFails, Loaded
  <2>4. UNCHANGED <<agent, closed, registry, dest>>
    BY <1>3 DEF Receive, LoadBatch, LoadFails, pushVars, agentVars
  <2>. QED  BY <1>0, <2>2, <2>3, <2>4
<1>4. ASSUME NEW c \in Dispatches, AgentStep(c) \/ ConnectionLost(c)
      PROVE  BegunOnly'
  BY <1>0, <1>4
  DEF AgentStep, AgentOpens, AgentRefuses, AgentSends, AgentCloses,
      ConnectionLost, pushVars, engineVars
<1>5. ASSUME NEW c \in Dispatches,
             PushRecv(c) \/ PushEnd(c) \/ PushBreaks(c) \/ PushPanics(c)
      PROVE  BegunOnly'
  BY <1>0, <1>5, NobodyApart
  DEF PushRecv, PushEnd, PushBreaks, PushPanics, Step, agentVars, engineVars, pushVars
<1>6. ASSUME NEW c \in Dispatches, PushSend(c) \/ PushClose(c)
      PROVE  BegunOnly'
  <2>1. dest[c] \in Dispatches /\ Begun(dest[c])
    BY <1>6, NobodyApart DEF PushSend, PushClose, SendingOK
  <2>2. \A d \in Dispatches : d # dest[c] => chan'[d] = chan[d] /\ (d \in closed' => d \in closed)
    BY <1>6, <2>1 DEF PushSend, PushClose
  <2>. QED
    BY <1>0, <1>6, <2>1, <2>2 DEF PushSend, PushClose, agentVars, engineVars
<1>7. ASSUME UNCHANGED vars PROVE BegunOnly'
  BY <1>0, <1>7 DEF vars, engineVars, agentVars, pushVars
<1>. QED
  BY <1>1, <1>2, <1>3, <1>4, <1>5, <1>6, <1>7
  DEF Next, EngineStep, ListenStep, PushStep

(* A dispatch whose command is being sent is untouched.                    *)
LEMMA Untouched ==
  ASSUME TypeOK, Structure, NEW e \in Engines, engine[e] = "ready"
  PROVE  LET c == Current(e) IN
           /\ c \in Dispatches
           /\ agent[c] = "none" /\ push[c] = "none" /\ received[c] = 0
           /\ chan[c] = <<>> /\ target[c] = {} /\ c \notin closed
           /\ registry # c /\ \A d \in Dispatches : dest[d] # c
<1>1. Current(e) \in Dispatches /\ ~Begun(Current(e))
  BY CurrentType, ReadyNotBegun
<1>2. agent[Current(e)] = "none"
  BY <1>1 DEF Structure, BegunOnly
<1>3. push[Current(e)] = "none" /\ received[Current(e)] = 0
  BY <1>1, <1>2 DEF Structure, StreamEnds, TypeOK
<1>. QED
  BY <1>1, <1>2, <1>3, NobodyApart DEF Structure, BegunOnly

(* A PushData handler starts with its stream, has received no more than    *)
(* was sent, and closes only after the end (agent_grpc.go:86-127).         *)
LEMMA StreamEndsStep ==
  ASSUME TypeOK, Structure, [Next]_vars
  PROVE  StreamEnds'
<1> USE DEF TypeOK, StreamEnds, Ended, engineVars, agentVars, pushVars
<1>0. StreamEnds
  BY DEF Structure
<1>1. ASSUME NEW e \in Engines, Send(e) PROVE StreamEnds'
  <2>1. PICK c \in Dispatches : c = Current(e)
    BY CurrentType
  <2>2. agent[c] = "none" /\ agent' = [agent EXCEPT ![c] = "commanded"]
        /\ UNCHANGED <<produced, push, received, dest>>
    BY <1>1, <2>1 DEF Send, Structure, ListenerStarted
  <2>. QED  BY <1>0, <2>2
<1>2. ASSUME NEW e \in Engines,
             \/ StartEngine(e) \/ Register(e) \/ DispatchFails(e) \/ Return(e)
             \/ ListenStep(e)
      PROVE  StreamEnds'
  <2>1. UNCHANGED <<agentVars, pushVars>>
    BY <1>2 DEF StartEngine, Register, DispatchFails, Return, ListenStep, Receive, LoadBatch,
                LoadFails, FinishRule
  <2>. QED  BY <1>0, <2>1
<1>3. ASSUME NEW c \in Dispatches, AgentOpens(c) PROVE StreamEnds'
  BY <1>0, <1>3 DEF AgentOpens
<1>4. ASSUME NEW c \in Dispatches, AgentRefuses(c) PROVE StreamEnds'
  BY <1>0, <1>4 DEF AgentRefuses
<1>5. ASSUME NEW c \in Dispatches, AgentSends(c) PROVE StreamEnds'
  <2>1. /\ UNCHANGED <<push, received, agent>> /\ agent[c] = "streaming"
        /\ produced[c] \in Nat /\ produced'[c] = produced[c] + 1
        /\ \A d \in Dispatches \ {c} : produced'[d] = produced[d]
    BY <1>5, RemoteAssumption DEF AgentSends
  <2>2. push[c] \notin {"none", "closing"} /\ received[c] \in Nat /\ received[c] <= produced[c]
    <3>1. received[c] \in Nat
      BY RemoteAssumption
    <3>2. /\ push[c] = "none" => agent[c] \in {"none", "commanded", "refused"}
          /\ push[c] = "closing" => agent[c] \in {"eof", "broken"}
          /\ received[c] <= produced[c]
      BY <1>0
    <3>. QED  BY <2>1, <3>1, <3>2
  <2>3. ASSUME NEW d \in Dispatches, d # c
        PROVE  /\ push'[d] = push[d] /\ agent'[d] = agent[d]
               /\ received'[d] = received[d] /\ produced'[d] = produced[d]
    BY <2>1, <2>3
  <2>4. /\ push'[c] = "none" <=> agent'[c] \in {"none", "commanded", "refused"}
        /\ push'[c] = "none" <=> produced'[c] = 0
        /\ received'[c] <= produced'[c] /\ push'[c] # "closing"
    BY <2>1, <2>2
  <2>5. ASSUME NEW d \in Dispatches
        PROVE  /\ push'[d] = "none" <=> agent'[d] \in {"none", "commanded", "refused"}
               /\ push'[d] = "none" <=> produced'[d] = 0
               /\ received'[d] <= produced'[d]
               /\ push'[d] = "closing" => received'[d] = produced'[d] /\ agent'[d] \in {"eof", "broken"}
    <3>1. CASE d = c
      BY <2>4, <3>1
    <3>2. CASE d # c
      <4>1. /\ push[d] = "none" <=> agent[d] \in {"none", "commanded", "refused"}
            /\ push[d] = "none" <=> produced[d] = 0
            /\ received[d] <= produced[d]
            /\ push[d] = "closing" => received[d] = produced[d] /\ agent[d] \in {"eof", "broken"}
        BY <1>0
      <4>. QED  BY <2>3, <3>2, <4>1
    <3>. QED  BY <3>1, <3>2
  <2>. QED  BY <2>5
<1>6. ASSUME NEW c \in Dispatches, AgentCloses(c) PROVE StreamEnds'
  BY <1>0, <1>6 DEF AgentCloses
<1>7. ASSUME NEW c \in Dispatches, ConnectionLost(c) PROVE StreamEnds'
  BY <1>0, <1>7 DEF ConnectionLost
<1>8. ASSUME NEW c \in Dispatches, PushRecv(c) PROVE StreamEnds'
  BY <1>0, <1>8, RemoteAssumption DEF PushRecv, Step
<1>9. ASSUME NEW c \in Dispatches, PushSend(c) PROVE StreamEnds'
  BY <1>0, <1>9 DEF PushSend, Step
<1>10. ASSUME NEW c \in Dispatches, PushEnd(c) PROVE StreamEnds'
  BY <1>0, <1>10 DEF PushEnd, Step
<1>11. ASSUME NEW c \in Dispatches, PushClose(c) PROVE StreamEnds'
  BY <1>0, <1>11 DEF PushClose, Step
<1>12. ASSUME NEW c \in Dispatches, PushBreaks(c) \/ PushPanics(c)
       PROVE  StreamEnds'
  BY <1>0, <1>12 DEF PushBreaks, PushPanics, Step
<1>13. ASSUME UNCHANGED vars PROVE StreamEnds'
  BY <1>0, <1>13 DEF vars
<1>. QED
  BY <1>1, <1>2, <1>3, <1>4, <1>5, <1>6, <1>7, <1>8, <1>9, <1>10, <1>11,
     <1>12, <1>13
  DEF Next, EngineStep, DispatchSync, AgentStep, PushStep

(* An engine listens only if its command was sent: DispatchSync fails      *)
(* otherwise (engine.go:319-324).                                          *)
LEMMA ListenerStartedStep ==
  ASSUME TypeOK, Structure, [Next]_vars
  PROVE  ListenerStarted'
<1> USE DEF TypeOK, engineVars, agentVars, pushVars
<1>0. ASSUME NEW e \in Engines
      PROVE  /\ Listening(e) => agent[<<e, rule[e]>>] # "none"
             /\ engine[e] = "registered" => agent[<<e, rule[e]>>] = "none"
  BY <1>0 DEF Structure, ListenerStarted, Current
<1> SUFFICES ASSUME NEW e \in Engines
             PROVE  /\ Listening(e)' => agent'[<<e, rule'[e]>>] # "none"
                    /\ engine'[e] = "registered" => agent'[<<e, rule'[e]>>] = "none"
  BY DEF ListenerStarted, Current
<1>1. <<e, rule[e]>> \in Dispatches
  BY CurrentType DEF Current
<1> DEFINE Goal == /\ Listening(e)' => agent'[<<e, rule'[e]>>] # "none"
                   /\ engine'[e] = "registered" => agent'[<<e, rule'[e]>>] = "none"
<1>2. ASSUME NEW f \in Engines, Send(f) PROVE Goal
  <2>1. PICK c \in Dispatches : c = <<f, rule[f]>>
    BY CurrentType DEF Current
  <2>2. agent' = [agent EXCEPT ![c] = "commanded"] /\ rule' = rule
    BY <1>2, <2>1 DEF Send, Current
  <2>3. engine' = [engine EXCEPT ![f] = "listening"]
    BY <1>2 DEF Send
  <2>4. CASE e = f
    BY <1>1, <2>1, <2>2, <2>3, <2>4
  <2>5. CASE e # f
    <3>1. engine'[e] = engine[e] /\ rule'[e] = rule[e] /\ agent'[<<e, rule[e]>>] = agent[<<e, rule[e]>>]
      BY <1>1, <2>1, <2>2, <2>3, <2>5
    <3>. QED  BY <1>0, <3>1 DEF Listening
  <2>. QED  BY <2>4, <2>5
<1>7. ASSUME NEW f \in Engines, Register(f) PROVE Goal
  <2>1. UNCHANGED <<agent, rule>> /\ engine[f] = "ready" /\ engine' = [engine EXCEPT ![f] = "registered"]
    BY <1>7 DEF Register
  <2>2. CASE e = f
    <3>1. agent[<<e, rule[e]>>] = "none"
      BY <2>1, <2>2, Untouched DEF Current
    <3>. QED  BY <2>1, <2>2, <3>1 DEF Listening
  <2>3. CASE e # f
    <3>1. engine'[e] = engine[e]
      BY <2>1, <2>3
    <3>. QED  BY <1>0, <2>1, <3>1 DEF Listening
  <2>. QED  BY <2>2, <2>3
<1>6. ASSUME NEW f \in Engines,
             \/ StartEngine(f) \/ DispatchFails(f) \/ ListenStep(f)
             \/ Return(f)
      PROVE  Goal
  <2>1. UNCHANGED agent
    BY <1>6 DEF StartEngine, DispatchFails, ListenStep, Receive, LoadBatch, LoadFails,
                FinishRule, Return
  <2>2. /\ Listening(e)' => Listening(e) /\ rule'[e] = rule[e]
        /\ engine'[e] = "registered" => engine[e] = "registered" /\ rule'[e] = rule[e]
    BY <1>6 DEF StartEngine, DispatchFails, ListenStep, Receive, LoadBatch, LoadFails,
                FinishRule, Return, Listening
  <2>. QED  BY <1>0, <2>1, <2>2
<1>3. ASSUME NEW c \in Dispatches, AgentStep(c) \/ ConnectionLost(c)
      PROVE  Goal
  <2>1. UNCHANGED <<engine, rule>>
    BY <1>3 DEF AgentStep, AgentOpens, AgentRefuses, AgentSends, AgentCloses,
                ConnectionLost
  <2>2. \A d \in Dispatches : agent[d] # "none" <=> agent'[d] # "none"
    BY <1>3 DEF AgentStep, AgentOpens, AgentRefuses, AgentSends, AgentCloses,
                ConnectionLost
  <2>. QED  BY <1>0, <1>1, <2>1, <2>2 DEF Listening
<1>4. ASSUME UNCHANGED <<engine, rule, agent>> PROVE Goal
  BY <1>0, <1>4 DEF Listening
<1>8. ASSUME NEW c \in Dispatches, PushStep(c) PROVE UNCHANGED <<engine, rule, agent>>
  BY <1>8
  DEF PushStep, PushRecv, PushSend, PushEnd, PushClose, PushBreaks, PushPanics
<1>5. ASSUME UNCHANGED vars PROVE UNCHANGED <<engine, rule, agent>>
  BY <1>5 DEF vars
<1> HIDE DEF Goal
<1>. QED
  <2>1. Goal
    BY <1>2, <1>3, <1>4, <1>5, <1>6, <1>7, <1>8 DEF Next, EngineStep, DispatchSync
  <2>. QED  BY <2>1 DEF Goal

(* This part of the invariant needs nothing of the other engines of the    *)
(* job.                                                                    *)
LEMMA StructureStep ==
  ASSUME TypeOK, Structure, [Next]_vars
  PROVE  TypeOK' /\ Structure'
BY TypeStep, BegunOnlyStep, StreamEndsStep, ListenerStartedStep DEF Structure

-----------------------------------------------------------------------------
(* Then what is so as long as one engine and one stream at a time use the  *)
(* job id.  A dispatch whose agent is "none" is registered, or failed      *)
(* before its command was sent: a stream may still fill the channel of one *)
(* that failed, but nobody listens to it.                                  *)

Listened(d) == engine[d[1]] \in {"registered", "listening", "loading"} /\ rule[d[1]] = d[2]

OneEngine == \A e, f \in Engines : Unfinished(e) /\ Unfinished(f) => e = f
OneStream == \A c, d \in Dispatches : Live(c) /\ Live(d) => c = d

ListenerRegistered == \A d \in Dispatches : Listened(d) => registry = d

RegistryOpen ==
  \A d \in Dispatches : Live(d) =>
    /\ registry \notin closed
    /\ registry \in {d, Nobody} \/ agent[registry] = "none"

DestinationOpen ==
  \A d \in Dispatches : push[d] \in {"sending", "closing"} =>
    /\ dest[d] \notin closed
    /\ dest[d] = d \/ agent[dest[d]] = "none"
    /\ Listened(d) => dest[d] = d

ClosedDone ==
  \A d \in closed :
    \/ agent[d] = "none"
    \/ push[d] = "done" /\ received[d] = produced[d] /\ Ended(d)

(* Until the command is sent no stream is live and the channel is new.     *)
RegisteredQuiet ==
  \A e \in Engines : engine[e] = "registered" =>
    /\ \A d \in Dispatches : ~Live(d)
    /\ chan[Current(e)] = <<>> /\ Current(e) \notin closed /\ target[Current(e)] = {}

Alone ==
  /\ ~panicked
  /\ OneEngine /\ OneStream /\ RegisteredQuiet
  /\ ListenerRegistered /\ RegistryOpen /\ DestinationOpen
  /\ ClosedDone

(* Only a command makes a stream live, and nothing takes a command back.   *)
LEMMA OtherStep ==
  ASSUME TypeOK, Structure, [Next]_vars, \A e \in Engines : ~Send(e)
  PROVE  \A d \in Dispatches :
           /\ Live(d)' => Live(d)
           /\ agent[d] = "none" <=> agent'[d] = "none"
           /\ Ended(d) => Ended(d)'
           /\ Ended(d) => produced'[d] = produced[d]
<1> USE DEF TypeOK, Live, Ended, engineVars, agentVars, pushVars
<1>1. ASSUME NEW e \in Engines,
             \/ StartEngine(e) \/ Register(e) \/ DispatchFails(e) \/ ListenStep(e)
             \/ Return(e)
      PROVE  UNCHANGED <<agent, produced, push>>
  BY <1>1 DEF StartEngine, Register, DispatchFails, ListenStep, Receive, LoadBatch, LoadFails,
              FinishRule, Return
<1>2. ASSUME NEW c \in Dispatches, AgentStep(c) \/ ConnectionLost(c), NEW d \in Dispatches
      PROVE  /\ Live(d)' => Live(d)
             /\ agent[d] = "none" <=> agent'[d] = "none"
             /\ Ended(d) => Ended(d)'
             /\ Ended(d) => produced'[d] = produced[d]
  <2>1. push[d] = "none" <=> agent[d] \in {"none", "commanded", "refused"}
    BY DEF Structure, StreamEnds
  <2>. QED
    BY <1>2, <2>1
    DEF AgentStep, AgentOpens, AgentRefuses, AgentSends, AgentCloses,
        ConnectionLost
<1>3. ASSUME NEW c \in Dispatches, PushStep(c), NEW d \in Dispatches
      PROVE  /\ Live(d)' => Live(d)
             /\ UNCHANGED <<agent, produced>>
  BY <1>3
  DEF PushStep, PushRecv, PushSend, PushEnd, PushClose, PushBreaks, PushPanics,
      Step
<1>4. CASE UNCHANGED vars
  BY <1>4 DEF vars
<1>. QED
  BY <1>1, <1>2, <1>3, <1>4 DEF Next, EngineStep, DispatchSync

(* While no run has overlapped another, one engine at most is unfinished.  *)
LEMMA OneEngineStep ==
  ASSUME TypeOK, Alone, [Next]_vars, ~overlapped'
  PROVE  OneEngine'
<1> USE DEF TypeOK, OneEngine, Unfinished, engineVars, agentVars, pushVars
<1>1. ASSUME NEW e \in Engines, StartEngine(e) PROVE OneEngine'
  BY <1>1 DEF StartEngine
<1>2. ASSUME NEW e \in Engines, EngineStep(e), NEW f \in Engines, Unfinished(f)'
      PROVE  Unfinished(f)
  BY <1>2
  DEF EngineStep, DispatchSync, Register, Send, DispatchFails, ListenStep, Receive,
      LoadBatch, LoadFails, FinishRule, Return
<1>3. ASSUME NEW c \in Dispatches, AgentStep(c) \/ ConnectionLost(c) \/ PushStep(c)
      PROVE  UNCHANGED engine
  BY <1>3
  DEF AgentStep, AgentOpens, AgentRefuses, AgentSends, AgentCloses,
      ConnectionLost, PushStep, PushRecv, PushSend, PushEnd, PushClose,
      PushBreaks, PushPanics
<1>4. CASE UNCHANGED vars
  BY <1>4 DEF vars, Alone
<1>. QED
  BY <1>1, <1>2, <1>3, <1>4 DEF Next, Alone

(* While no run has overlapped another, one stream at most is live.        *)
LEMMA OneStreamStep ==
  ASSUME TypeOK, Structure, Alone, [Next]_vars, ~overlapped'
  PROVE  OneStream'
<1> USE DEF OneStream
<1>1. ASSUME NEW e \in Engines, Send(e) PROVE OneStream'
  <2>1. PICK c \in Dispatches : c = Current(e)
    BY CurrentType
  <2>2. \A d \in Dispatches : ~Live(d)
    BY <1>1 DEF Send, Alone, RegisteredQuiet
  <2>3. \A d \in Dispatches : Live(d)' => d = c
    BY <1>1, <2>1, <2>2 DEF Send, Live, TypeOK, pushVars
  <2>. QED  BY <2>3
<1>2. CASE \A e \in Engines : ~Send(e)
  BY <1>2, OtherStep DEF Alone
<1>. QED  BY <1>1, <1>2

(* A handler that is at work has a live stream.                            *)
LEMMA HandlerLive ==
  ASSUME Structure, NEW d \in Dispatches, push[d] \in {"recv", "sending", "closing"}
  PROVE  Live(d)
BY DEF Structure, StreamEnds, Live

(* Only the registration makes an engine listen.                           *)
LEMMA ListenedStep ==
  ASSUME TypeOK, [Next]_vars, NEW d \in Dispatches, Listened(d)'
  PROVE  Listened(d) \/ \E e \in Engines : Register(e) /\ d = Current(e)
<1> USE DEF TypeOK, Listened, engineVars, agentVars, pushVars
<1>0. d[1] \in Engines /\ d = <<d[1], d[2]>>
  BY DispatchIsPair
<1>1. ASSUME NEW e \in Engines, Register(e)
      PROVE  Listened(d) \/ d = Current(e)
  BY <1>0, <1>1 DEF Register, Current
<1>2. ASSUME NEW e \in Engines,
             \/ StartEngine(e) \/ Send(e) \/ DispatchFails(e) \/ ListenStep(e)
             \/ Return(e)
      PROVE  Listened(d)
  BY <1>0, <1>2 DEF StartEngine, Send, DispatchFails, ListenStep, Receive, LoadBatch,
                    LoadFails, FinishRule, Return
<1>3. ASSUME NEW c \in Dispatches, AgentStep(c) \/ ConnectionLost(c) \/ PushStep(c)
      PROVE  UNCHANGED <<engine, rule>>
  BY <1>3
  DEF AgentStep, AgentOpens, AgentRefuses, AgentSends, AgentCloses,
      ConnectionLost, PushStep, PushRecv, PushSend, PushEnd, PushClose,
      PushBreaks, PushPanics
<1>4. CASE UNCHANGED vars
  BY <1>4 DEF vars
<1>. QED
  BY <1>1, <1>2, <1>3, <1>4 DEF Next, EngineStep, DispatchSync

(* The channel an engine listens to is the one under its job id: only its  *)
(* own CleanupJob or a later command would replace it.                     *)
LEMMA ListenerRegisteredStep ==
  ASSUME TypeOK, Structure, Alone, [Next]_vars
  PROVE  ListenerRegistered'
<1> SUFFICES ASSUME NEW d \in Dispatches, Listened(d)' PROVE registry' = d
  BY DEF ListenerRegistered
<1>0. d[1] \in Engines
  BY DispatchIsPair
<1>1. ASSUME NEW e \in Engines, Register(e) PROVE registry' = d
  <2>1. d[1] = e
    <3>1. \A f \in Engines \ {e} : engine'[f] = engine[f]
      BY <1>1 DEF Register, TypeOK
    <3>2. \A f \in Engines : Unfinished(f) => f = e
      BY <1>1 DEF Register, Alone, OneEngine, Unfinished
    <3>. QED  BY <1>0, <3>1, <3>2 DEF Listened, Unfinished
  <2>. QED
    BY <1>1, <2>1, DispatchIsPair
    DEF Register, Listened, Current
<1>2. ASSUME NEW e \in Engines, Return(e) PROVE FALSE
  <2>1. engine[e] = "returning" /\ engine'[e] = "done"
        /\ \A f \in Engines \ {e} : engine'[f] = engine[f]
    BY <1>2 DEF Return, TypeOK
  <2>2. d[1] # e /\ engine[d[1]] \in {"registered", "listening", "loading"}
    BY <1>0, <2>1 DEF Listened
  <2>. QED  BY <1>0, <2>1, <2>2 DEF Alone, OneEngine, Unfinished
<1>3. CASE UNCHANGED registry /\ \A e \in Engines : ~Register(e)
  BY <1>3, ListenedStep DEF Alone, ListenerRegistered
<1>4. ASSUME \A e \in Engines : ~(Register(e) \/ Return(e))
      PROVE  UNCHANGED registry
  BY <1>4
  DEF Next, StartEngine, EngineStep, DispatchSync, Send, DispatchFails, ListenStep, Receive,
      LoadBatch, LoadFails, FinishRule,
      AgentStep, AgentOpens, AgentRefuses, AgentSends, AgentCloses,
      ConnectionLost, PushStep, PushRecv, PushSend, PushEnd, PushClose,
      PushBreaks, PushPanics, vars
<1>. QED  BY <1>1, <1>2, <1>3, <1>4

(* While a dispatch is registered, nothing disturbs it: no stream is live, *)
(* and no other engine is under way.                                       *)
LEMMA RegisteredQuietStep ==
  ASSUME TypeOK, Structure, Alone, [Next]_vars, ~overlapped'
  PROVE  RegisteredQuiet'
<1> USE DEF TypeOK, engineVars, agentVars, pushVars
<1> SUFFICES ASSUME NEW e \in Engines, engine'[e] = "registered"
             PROVE  /\ \A d \in Dispatches : ~Live(d)'
                    /\ chan'[Current(e)'] = <<>> /\ Current(e)' \notin closed'
                    /\ target'[Current(e)'] = {}
  BY DEF RegisteredQuiet
<1>1. CASE Register(e)
  <2>1. PICK c \in Dispatches : c = Current(e)
    BY CurrentType
  <2>2. Current(e)' = c
    BY <1>1, <2>1 DEF Register, Current
  <2>3. chan[c] = <<>> /\ c \notin closed /\ target[c] = {}
    BY <1>1, <2>1, Untouched DEF Register
  <2>4. UNCHANGED <<chan, closed, target, agent, push>> /\ \A d \in Dispatches : ~Live(d)
    BY <1>1 DEF Register
  <2>. QED  BY <2>2, <2>3, <2>4 DEF Live
<1>2. CASE ~Register(e)
  <2>1. engine[e] = "registered" /\ rule'[e] = rule[e]
    <3>1. ASSUME NEW f \in Engines, StartEngine(f) \/ EngineStep(f)
          PROVE  engine[e] = "registered" /\ rule'[e] = rule[e]
      BY <1>2, <3>1
      DEF StartEngine, EngineStep, DispatchSync, Register, Send, DispatchFails, ListenStep,
          Receive, LoadBatch, LoadFails, FinishRule, Return
    <3>2. ASSUME NEW c \in Dispatches, AgentStep(c) \/ ConnectionLost(c) \/ PushStep(c)
          PROVE  UNCHANGED <<engine, rule>>
      BY <3>2
      DEF AgentStep, AgentOpens, AgentRefuses, AgentSends, AgentCloses,
          ConnectionLost, PushStep, PushRecv, PushSend, PushEnd, PushClose,
          PushBreaks, PushPanics
    <3>3. CASE UNCHANGED vars
      BY <3>3 DEF vars
    <3>. QED  BY <3>1, <3>2, <3>3 DEF Next
  <2>2. PICK c \in Dispatches : c = Current(e) /\ c = Current(e)'
    BY <2>1, CurrentType DEF Current
  <2>3. /\ \A d \in Dispatches : ~Live(d)
        /\ chan[c] = <<>> /\ c \notin closed /\ target[c] = {}
    BY <2>1, <2>2 DEF Alone, RegisteredQuiet
  <2>4. \A f \in Engines : f # e => engine[f] \in {"idle", "done"}
    BY <2>1 DEF Alone, OneEngine, Unfinished
  <2>5. \A f \in Engines : ~Send(f)
    BY <2>1, <2>4 DEF Send
  <2>6. \A d \in Dispatches : ~Live(d)'
    BY <2>3, <2>5, OtherStep
  <2>7. UNCHANGED <<chan, closed, target>>
    <3>1. ASSUME NEW f \in Engines, StartEngine(f) \/ DispatchSync(f) \/ Return(f)
          PROVE  UNCHANGED <<chan, closed, target>>
      BY <3>1 DEF StartEngine, DispatchSync, Register, Send, DispatchFails, Return
    <3>2. ASSUME NEW f \in Engines, ListenStep(f) PROVE FALSE
      BY <2>1, <2>4, <3>2 DEF ListenStep, Receive, LoadBatch, LoadFails, FinishRule
    <3>3. ASSUME NEW x \in Dispatches, AgentStep(x) \/ ConnectionLost(x)
          PROVE  UNCHANGED <<chan, closed, target>>
      BY <3>3 DEF AgentStep, AgentOpens, AgentRefuses, AgentSends, AgentCloses, ConnectionLost
    <3>4. ASSUME NEW x \in Dispatches, PushStep(x) PROVE FALSE
      <4>1. push[x] \in {"recv", "sending", "closing"}
        BY <3>4 DEF PushStep, PushRecv, PushSend, PushEnd, PushClose, PushBreaks, PushPanics
      <4>. QED  BY <2>3, <4>1, HandlerLive
    <3>5. CASE UNCHANGED vars
      BY <3>5 DEF vars
    <3>. QED  BY <3>1, <3>2, <3>3, <3>4, <3>5 DEF Next, EngineStep
  <2>. QED  BY <2>2, <2>3, <2>6, <2>7
<1>. QED  BY <1>1, <1>2

(* A live stream finds its own channel, open, or that of a command that    *)
(* failed (agent_grpc.go:105-127).                                         *)
LEMMA RegistryOpenStep ==
  ASSUME TypeOK, Structure, Alone, [Next]_vars, ~overlapped'
  PROVE  RegistryOpen'
<1> SUFFICES ASSUME NEW d \in Dispatches, Live(d)'
             PROVE  /\ registry' \notin closed'
                    /\ registry' \in {d, Nobody} \/ agent'[registry'] = "none"
  BY DEF RegistryOpen
<1>1. ASSUME NEW e \in Engines, Register(e) PROVE FALSE
  BY <1>1 DEF Register, Live, pushVars, agentVars
<1>2. ASSUME NEW e \in Engines, Send(e)
      PROVE  registry' = d /\ registry' \notin closed'
  <2>1. PICK c \in Dispatches : c = Current(e) /\ Listened(c)
    BY <1>2, CurrentType DEF Send, Listened
  <2>2. registry = c /\ c \notin closed
    BY <1>2, <2>1 DEF Alone, ListenerRegistered, RegisteredQuiet, Send
  <2>3. d = c
    <3>1. ~Live(d)
      BY <1>2 DEF Alone, RegisteredQuiet, Send
    <3>. QED  BY <1>2, <2>1, <3>1 DEF Send, Live, TypeOK, pushVars
  <2>. QED  BY <1>2, <2>2, <2>3 DEF Send
<1>3. ASSUME \A e \in Engines : ~Register(e) /\ ~Send(e)
      PROVE  /\ registry' \notin closed'
             /\ registry' \in {d, Nobody} \/ agent'[registry'] = "none"
  <2>0. /\ Live(d)
        /\ registry \notin closed
        /\ registry \in {d, Nobody} \/ agent[registry] = "none"
    BY <1>3, OtherStep DEF Alone, RegistryOpen
  <2>2. ASSUME NEW e \in Engines, Return(e)
        PROVE  registry' \notin closed' /\ registry' = Nobody
    BY <2>2, NobodyApart DEF Return, TypeOK
  <2>3. ASSUME NEW c \in Dispatches, PushClose(c) PROVE FALSE
    <3>1. Live(c) /\ ~Live(c)'
      BY <2>3, HandlerLive DEF PushClose, Step, Live, TypeOK
    <3>. QED  BY <2>0, <3>1 DEF Alone, OneStream
  <2>4. ASSUME /\ \A e \in Engines : ~Return(e)
               /\ \A c \in Dispatches : ~PushClose(c)
        PROVE  UNCHANGED <<registry, closed>>
    BY <1>3, <2>4
    DEF Next, StartEngine, EngineStep, DispatchSync, DispatchFails, ListenStep, Receive, LoadBatch,
        LoadFails, FinishRule, AgentStep, AgentOpens, AgentRefuses, AgentSends,
        AgentCloses, ConnectionLost, PushStep, PushRecv, PushSend, PushEnd,
        PushBreaks, PushPanics, vars
  <2>5. CASE UNCHANGED <<registry, closed>>
    BY <1>3, <2>0, <2>5, OtherStep DEF TypeOK
  <2>. QED  BY <2>2, <2>3, <2>4, <2>5
<1>. QED  BY <1>1, <1>2, <1>3

(* A handler that finds a channel finds its own, or one nobody listens to. *)
LEMMA DestinationOpenStep ==
  ASSUME TypeOK, Structure, Alone, [Next]_vars
  PROVE  DestinationOpen'
<1> USE DEF TypeOK, engineVars, agentVars, pushVars
<1> SUFFICES ASSUME NEW d \in Dispatches, push'[d] \in {"sending", "closing"}
             PROVE  /\ dest'[d] \notin closed'
                    /\ dest'[d] = d \/ agent'[dest'[d]] = "none"
                    /\ Listened(d)' => dest'[d] = d
  BY DEF DestinationOpen
<1>1. ASSUME NEW e \in Engines, Register(e)
      PROVE  /\ dest'[d] \notin closed'
             /\ dest'[d] = d \/ agent'[dest'[d]] = "none"
             /\ Listened(d)' => dest'[d] = d
  <2>1. PICK c \in Dispatches : c = Current(e)
    BY CurrentType
  <2>2. UNCHANGED <<push, dest, closed, agent>>
    BY <1>1 DEF Register
  <2>3. push[c] = "none"
    BY <1>1, <2>1, Untouched DEF Register
  <2>4. /\ dest[d] \notin closed
        /\ dest[d] = d \/ agent[dest[d]] = "none"
        /\ Listened(d) => dest[d] = d
    BY <2>2 DEF Alone, DestinationOpen
  <2>5. Listened(d)' => Listened(d) \/ d = c
    BY <1>1, <2>1, ListenedStep, DispatchIsPair DEF Listened, Register, Current
  <2>. QED  BY <2>2, <2>3, <2>4, <2>5
<1>3. ASSUME NEW e \in Engines, Send(e) PROVE FALSE
  <2>1. push[d] \in {"sending", "closing"}
    BY <1>3 DEF Send
  <2>. QED  BY <1>3, <2>1, HandlerLive DEF Alone, RegisteredQuiet, Send
<1>2. ASSUME \A e \in Engines : ~Register(e) /\ ~Send(e)
      PROVE  /\ dest'[d] \notin closed'
             /\ dest'[d] = d \/ agent'[dest'[d]] = "none"
             /\ Listened(d)' => dest'[d] = d
  <2>1. Listened(d)' => Listened(d)
    BY <1>2, ListenedStep
  <2>2. ASSUME PushRecv(d) \/ PushEnd(d)
        PROVE  /\ dest'[d] = registry /\ registry # Nobody
               /\ push[d] = "recv" /\ UNCHANGED <<closed, agent, engine, rule>>
    BY <2>2 DEF PushRecv, PushEnd, Step
  <2>3. CASE PushRecv(d) \/ PushEnd(d)
    BY <2>1, <2>2, <2>3, HandlerLive DEF Alone, RegistryOpen, ListenerRegistered
  <2>4. ASSUME ~(PushRecv(d) \/ PushEnd(d))
        PROVE  UNCHANGED <<push[d], dest[d]>>
    <3>1. ASSUME NEW e \in Engines,
                 \/ StartEngine(e) \/ DispatchFails(e) \/ ListenStep(e)
                 \/ Return(e)
          PROVE  UNCHANGED <<push[d], dest[d]>>
      BY <3>1 DEF StartEngine, DispatchFails, ListenStep, Receive, LoadBatch, LoadFails,
                  FinishRule, Return
    <3>2. ASSUME NEW c \in Dispatches, AgentStep(c) \/ ConnectionLost(c)
          PROVE  UNCHANGED <<push[d], dest[d]>>
      BY <3>2 DEF AgentStep, AgentOpens, AgentRefuses, AgentSends, AgentCloses,
                  ConnectionLost
    <3>3. ASSUME NEW c \in Dispatches, PushStep(c)
          PROVE  UNCHANGED <<push[d], dest[d]>>
      BY <2>4, <3>3 DEF PushStep, PushRecv, PushSend, PushEnd, PushClose,
                        PushBreaks, PushPanics, Step
    <3>4. CASE UNCHANGED vars
      BY <3>4 DEF vars
    <3>. QED  BY <1>2, <3>1, <3>2, <3>3, <3>4 DEF Next, EngineStep, DispatchSync
  <2>5. CASE ~(PushRecv(d) \/ PushEnd(d))
    <3>1. /\ dest[d] \in Dispatches /\ dest[d] \notin closed
          /\ dest[d] = d \/ agent[dest[d]] = "none"
          /\ Listened(d) => dest[d] = d
      BY <2>4, <2>5 DEF Alone, DestinationOpen, Structure, SendingOK
    <3>2. ASSUME NEW c \in Dispatches, PushClose(c) PROVE FALSE
      <4>1. Live(c) /\ Live(d)
        BY <2>4, <2>5, <3>2, HandlerLive DEF PushClose
      <4>2. c = d
        BY <4>1 DEF Alone, OneStream
      <4>. QED  BY <3>2, <4>2 DEF PushClose, Step
    <3>3. ASSUME \A c \in Dispatches : ~PushClose(c) PROVE UNCHANGED closed
      BY <1>2, <3>3
      DEF Next, StartEngine, EngineStep, DispatchSync, DispatchFails, ListenStep, Receive, LoadBatch,
          LoadFails, FinishRule, Return, AgentStep, AgentOpens, AgentRefuses,
          AgentSends, AgentCloses, ConnectionLost, PushStep, PushRecv, PushSend,
          PushEnd, PushBreaks, PushPanics, vars
    <3>. QED  BY <1>2, <2>1, <2>4, <2>5, <3>1, <3>2, <3>3, OtherStep
  <2>. QED  BY <2>3, <2>5
<1>. QED  BY <1>1, <1>2, <1>3

(* A channel is closed by the handler of its own stream, at the end of it. *)
LEMMA ClosedDoneStep ==
  ASSUME TypeOK, Structure, Alone, [Next]_vars
  PROVE  ClosedDone'
<1> USE DEF TypeOK, engineVars, agentVars, pushVars
<1>0. \A d \in closed : \/ agent[d] = "none"
                        \/ push[d] = "done" /\ received[d] = produced[d] /\ Ended(d)
  BY DEF Alone, ClosedDone
<1>1. ASSUME NEW e \in Engines, Send(e) PROVE ClosedDone'
  <2>1. PICK c \in Dispatches : c = Current(e)
    BY CurrentType
  <2>2. /\ UNCHANGED <<closed, push, received, produced>> /\ c \notin closed
        /\ \A x \in Dispatches : x # c => agent'[x] = agent[x]
    BY <1>1, <2>1 DEF Send, Alone, RegisteredQuiet
  <2>. QED  BY <1>0, <2>2 DEF ClosedDone, Ended
<1>2. ASSUME NEW c \in Dispatches, PushClose(c) PROVE ClosedDone'
  <2>1. /\ dest[c] \in Dispatches
        /\ dest[c] = c \/ agent[dest[c]] = "none"
        /\ received[c] = produced[c] /\ Ended(c)
    BY <1>2 DEF PushClose, Structure, SendingOK, StreamEnds, Alone, DestinationOpen
  <2>2. /\ closed' = closed \union {dest[c]}
        /\ push' = [push EXCEPT ![c] = "done"]
        /\ UNCHANGED <<agent, received, produced>>
    BY <1>2 DEF PushClose, Step
  <2>. QED  BY <1>0, <2>1, <2>2 DEF ClosedDone, Ended
<1>3. ASSUME \A e \in Engines : ~Send(e), \A c \in Dispatches : ~PushClose(c)
      PROVE  ClosedDone'
  <2>1. closed' = closed
    BY <1>3
    DEF Next, StartEngine, EngineStep, DispatchSync, Register, DispatchFails, ListenStep, Receive, LoadBatch,
        LoadFails, FinishRule, Return, AgentStep, AgentOpens, AgentRefuses,
        AgentSends, AgentCloses, ConnectionLost, PushStep, PushRecv, PushSend,
        PushEnd, PushBreaks, PushPanics, vars
  <2> SUFFICES ASSUME NEW d \in closed
               PROVE  \/ agent'[d] = "none"
                      \/ push'[d] = "done" /\ received'[d] = produced'[d] /\ Ended(d)'
    BY <2>1 DEF ClosedDone
  <2>2. CASE agent[d] = "none"
    BY <1>3, <2>2, OtherStep
  <2>3. CASE push[d] = "done" /\ received[d] = produced[d] /\ Ended(d)
    <3>1. Ended(d)' /\ produced'[d] = produced[d]
      BY <1>3, <2>3, OtherStep
    <3>2. push'[d] = "done" /\ received'[d] = received[d]
      <4>1. ASSUME NEW e \in Engines,
                   \/ StartEngine(e) \/ DispatchSync(e) \/ ListenStep(e)
                   \/ Return(e)
            PROVE  UNCHANGED <<push[d], received[d]>>
        BY <4>1 DEF StartEngine, DispatchSync, Register, Send, DispatchFails, ListenStep,
                    Receive, LoadBatch, LoadFails, FinishRule, Return
      <4>2. ASSUME NEW c \in Dispatches, AgentStep(c) \/ ConnectionLost(c)
            PROVE  UNCHANGED <<push[d], received[d]>>
        BY <2>3, <4>2 DEF AgentStep, AgentOpens, AgentRefuses, AgentSends,
                    AgentCloses, ConnectionLost, Ended
      <4>3. ASSUME NEW c \in Dispatches, PushStep(c)
            PROVE  UNCHANGED <<push[d], received[d]>>
        BY <2>3, <4>3 DEF PushStep, PushRecv, PushSend, PushEnd, PushClose,
                          PushBreaks, PushPanics, Step
      <4>4. ASSUME UNCHANGED vars PROVE UNCHANGED <<push[d], received[d]>>
        BY <4>4 DEF vars
      <4>5. UNCHANGED <<push[d], received[d]>>
        BY <1>3, <4>1, <4>2, <4>3, <4>4 DEF Next, EngineStep
      <4>. QED  BY <2>3, <4>5
    <3>. QED  BY <2>3, <3>1, <3>2
  <2>. QED  BY <1>0, <2>2, <2>3
<1>. QED  BY <1>1, <1>2, <1>3

(* No handler sends on, or closes, a closed channel                        *)
(* (agent_grpc.go:113-127).                                                *)
LEMMA NoPanicStep ==
  ASSUME TypeOK, Structure, Alone, [Next]_vars
  PROVE  ~panicked'
<1>1. ASSUME NEW d \in Dispatches, PushPanics(d) PROVE FALSE
  BY <1>1 DEF PushPanics, Alone, DestinationOpen
<1>2. ASSUME \A d \in Dispatches : ~PushPanics(d) PROVE UNCHANGED panicked
  BY <1>2
  DEF Next, StartEngine, EngineStep, DispatchSync, Register, Send, DispatchFails, ListenStep,
      Receive, LoadBatch, LoadFails, FinishRule, Return, AgentStep, AgentOpens,
      AgentRefuses, AgentSends, AgentCloses, ConnectionLost, PushStep, PushRecv,
      PushSend, PushEnd, PushClose, PushBreaks, vars
<1>. QED  BY <1>1, <1>2 DEF Alone

(* What one engine and one stream at a time guarantee is inductive.        *)
LEMMA AloneStep ==
  ASSUME TypeOK, Structure, Alone, [Next]_vars, ~overlapped'
  PROVE  Alone'
BY OneEngineStep, OneStreamStep, RegisteredQuietStep, ListenerRegisteredStep, RegistryOpenStep,
   DestinationOpenStep, ClosedDoneStep, NoPanicStep
DEF Alone

-----------------------------------------------------------------------------
(* And under the same condition: what a listener has loaded and what waits *)
(* for it make up what its stream's handler has passed on.                 *)

Passed(d) == IF push[d] = "sending" THEN received[d] - 2 ELSE received[d] - 1

(* The channel holds the last batches passed on, in their order, the       *)
(* listener perhaps the one before them, and the target all the others.    *)
Taken(d) == Passed(d) - Len(chan[d])
Loading(d) == engine[d[1]] = "loading"
Done(d) == IF Loading(d) THEN Taken(d) - 1 ELSE Taken(d)
Accounted(d) ==
  /\ \A i \in 1..Len(chan[d]) : chan[d][i] = <<d, Taken(d) + i>>
  /\ Loading(d) => batch[d[1]] = <<d, Taken(d)>> /\ Taken(d) >= 1
  /\ \A k \in 1..N : <<d, k>> \in target[d] <=> k <= Done(d)

LoadedOwn == \A d \in Dispatches : target[d] \subseteq Rows(d)

ListenedAccounted == \A d \in Dispatches : Listened(d) => Accounted(d)

FinishedLoaded ==
  \A d \in finished :
    /\ Ended(d) /\ Begun(d) /\ ~Listened(d)
    /\ \A k \in 1..N : <<d, k>> \in target[d] <=> k <= produced[d] - 1

Accounting == LoadedOwn /\ ListenedAccounted /\ FinishedLoaded

(* A target changes only when a load of its listener ends                  *)
(* (engine.go:331-356).                                                    *)
LEMMA TargetStep ==
  ASSUME TypeOK, [Next]_vars, NEW d \in Dispatches
  PROVE  \/ target'[d] = target[d]
         \/ \E e \in Engines :
              /\ d = Current(e) /\ engine[e] = "loading"
              /\ target'[d] = target[d] \union {batch[e]}
<1>1. ASSUME NEW e \in Engines, LoadBatch(e) \/ LoadFails(e), target'[d] # target[d]
      PROVE  /\ d = Current(e) /\ engine[e] = "loading"
             /\ target'[d] = target[d] \union {batch[e]}
  <2>1. target' = [target EXCEPT ![Current(e)] = @ \union {batch[e]}]
    BY <1>1 DEF LoadBatch, LoadFails, Loaded
  <2>2. engine[e] = "loading"
    BY <1>1 DEF LoadBatch, LoadFails
  <2>. QED  BY <1>1, <2>1, <2>2 DEF TypeOK
<1>2. ASSUME \A e \in Engines : ~LoadBatch(e) /\ ~LoadFails(e) PROVE UNCHANGED target
  BY <1>2
  DEF Next, StartEngine, EngineStep, DispatchSync, Register, Send, DispatchFails, ListenStep,
      Receive, FinishRule, Return, AgentStep, AgentOpens, AgentRefuses,
      AgentSends, AgentCloses, ConnectionLost, PushStep, PushRecv, PushSend,
      PushEnd, PushClose, PushBreaks, PushPanics, vars, engineVars
<1>. QED  BY <1>1, <1>2

(* A rule's target gets only batches of that rule's stream                 *)
(* (engine.go:331-356).                                                    *)
LEMMA LoadedOwnStep ==
  ASSUME TypeOK, Structure, Alone, LoadedOwn, ListenedAccounted, [Next]_vars
  PROVE  LoadedOwn'
<1> SUFFICES ASSUME NEW d \in Dispatches, target'[d] # target[d]
             PROVE  target'[d] \subseteq Rows(d)
  BY DEF LoadedOwn, Rows
<1>1. PICK e \in Engines :
        /\ d = Current(e) /\ engine[e] = "loading"
        /\ target'[d] = target[d] \union {batch[e]}
  BY TargetStep
<1>2. d[1] = e /\ Listened(d) /\ batch[e] \in Batches
  BY <1>1, CurrentType DEF Listened, TypeOK
<1>3. batch[e] = <<d, Taken(d)>> /\ Taken(d) >= 1
  BY <1>1, <1>2 DEF ListenedAccounted, Accounted, Loading
<1>4. PICK k \in 0..N : batch[e] = <<d, k>>
  BY <1>2, <1>3 DEF Batches
<1>5. k = Taken(d)
  BY <1>3, <1>4
<1>6. batch[e] \in Rows(d)
  BY <1>3, <1>4, <1>5, RemoteAssumption DEF Rows
<1>. QED  BY <1>1, <1>6 DEF LoadedOwn

(* The engine of a dispatch that is listened to is the only one under way. *)
LEMMA ListenedAlone ==
  ASSUME TypeOK, Alone, NEW d \in Dispatches, Listened(d),
         NEW e \in Engines, Unfinished(e)
  PROVE  /\ d = Current(e) /\ d[1] = e
         /\ engine[e] \in {"registered", "listening", "loading"}
<1>1. d[1] \in Engines /\ d = <<d[1], d[2]>>
  BY DispatchIsPair
<1>2. d[1] = e
  BY <1>1 DEF Alone, OneEngine, Unfinished, Listened
<1>. QED  BY <1>1, <1>2 DEF Listened, Current

(* A step that moves no batch of a dispatch leaves its account as it was.  *)
LEMMA AccountedSame ==
  ASSUME NEW d \in Dispatches, Accounted(d),
         UNCHANGED <<target[d], chan[d]>>, Passed(d)' = Passed(d),
         Loading(d)' <=> Loading(d), Loading(d) => batch'[d[1]] = batch[d[1]]
  PROVE  Accounted(d)'
<1>1. Taken(d)' = Taken(d) /\ Done(d)' = Done(d)
  BY DEF Taken, Done
<1>. QED  BY <1>1 DEF Accounted

(* Receiving moves a batch from the channel into the listener's hand; one  *)
(* without rows is the header, which counts in neither (engine.go:331-338). *)
LEMMA AccountedReceive ==
  ASSUME TypeOK, NEW e \in Engines, Receive(e), Accounted(Current(e))
  PROVE  Accounted(Current(e))'
<1>1. PICK c \in Dispatches : c = Current(e) /\ c[1] = e
  BY CurrentType
<1>2. /\ chan[c] \in Seq(Batches) /\ chan[c] # <<>>
      /\ chan'[c] = Tail(chan[c]) /\ target' = target
      /\ Passed(c)' = Passed(c) /\ Passed(c) \in Int
  BY <1>1, RemoteAssumption DEF Receive, TypeOK, Passed, pushVars
<1>3. /\ Head(chan[c]) = chan[c][1] /\ Len(chan[c]) \in Nat /\ Len(chan[c]) # 0
      /\ Len(chan'[c]) = Len(chan[c]) - 1
      /\ \A i \in 1..Len(chan'[c]) : chan'[c][i] = chan[c][i + 1]
      /\ Head(chan[c]) \in Batches
  BY <1>2
<1>4. PICK n \in Int : n = Taken(c)
  BY <1>2, <1>3 DEF Taken
<1>5. Taken(c)' = n + 1
  BY <1>2, <1>3, <1>4 DEF Taken
<1>6. /\ \A i \in 1..Len(chan[c]) : chan[c][i] = <<c, n + i>>
      /\ ~Loading(c)
      /\ \A k \in 1..N : <<c, k>> \in target[c] <=> k <= n
  BY <1>1, <1>4 DEF Accounted, Done, Loading, Receive
<1>7. Head(chan[c]) = <<c, n + 1>>
  BY <1>3, <1>6
<1>8. ASSUME NEW i \in 1..Len(chan'[c]) PROVE chan'[c][i] = <<c, (n + 1) + i>>
  <2>1. Len(chan[c]) \in Nat /\ Len(chan'[c]) = Len(chan[c]) - 1
    BY <1>3
  <2>2. i + 1 \in 1..Len(chan[c]) /\ n + (i + 1) = (n + 1) + i
    BY <2>1
  <2>. QED  BY <1>3, <1>6, <2>2
<1>9. /\ Loading(c)' => n + 1 >= 1 /\ batch'[e] = <<c, n + 1>>
      /\ \A k \in 1..N : <<c, k>> \in target'[c] <=> k <= Done(c)'
  <2>1. n + 1 \in 0..N
    BY <1>3, <1>7 DEF Batches
  <2>2. HasRows(Head(chan[c])) <=> n + 1 # 0
    BY <1>7 DEF HasRows
  <2>3. CASE n + 1 = 0
    <3>1. ~Loading(c)'
      BY <1>1, <1>6, <2>2, <2>3 DEF Receive, Loading
    <3>2. Done(c)' = n + 1
      BY <1>5, <3>1 DEF Done
    <3>. QED  BY <1>2, <1>6, <2>3, <3>1, <3>2
  <2>4. CASE n + 1 # 0
    <3>1. engine' = [engine EXCEPT ![e] = "loading"] /\ batch' = [batch EXCEPT ![e] = Head(chan[c])]
      BY <1>1, <2>2, <2>4 DEF Receive
    <3>2. Loading(c)' /\ batch'[e] = <<c, n + 1>>
      BY <1>1, <1>7, <3>1 DEF Loading, TypeOK
    <3>3. Done(c)' = n
      BY <1>5, <3>2 DEF Done
    <3>. QED  BY <1>2, <1>6, <2>1, <2>4, <3>2, <3>3
  <2>. QED  BY <2>3, <2>4
<1>10. Accounted(c)'
  BY <1>1, <1>5, <1>8, <1>9 DEF Accounted
<1>. QED
  BY <1>1, <1>10 DEF Receive, Current

(* Loading moves it into the target (engine.go:344-356).                   *)
LEMMA AccountedLoad ==
  ASSUME TypeOK, NEW e \in Engines, LoadBatch(e), Accounted(Current(e))
  PROVE  Accounted(Current(e))'
<1>1. PICK c \in Dispatches : c = Current(e) /\ c[1] = e
  BY CurrentType
<1>2. /\ chan' = chan /\ Passed(c)' = Passed(c) /\ Passed(c) \in Int
      /\ chan[c] \in Seq(Batches)
  BY <1>1, RemoteAssumption DEF LoadBatch, TypeOK, Passed, pushVars
<1>3. PICK n \in Int : n = Taken(c)
  <2>1. Len(chan[c]) \in Nat
    BY <1>2
  <2>. QED  BY <1>2, <2>1 DEF Taken
<1>4. Taken(c)' = n
  BY <1>2, <1>3 DEF Taken
<1>5. Loading(c) /\ ~Loading(c)'
  BY <1>1 DEF Loading, LoadBatch, TypeOK
<1>6. Done(c) = n - 1 /\ Done(c)' = n
  BY <1>3, <1>4, <1>5 DEF Done
<1>7. /\ \A i \in 1..Len(chan[c]) : chan[c][i] = <<c, n + i>>
      /\ batch[e] = <<c, n>>
      /\ \A k \in 1..N : <<c, k>> \in target[c] <=> k <= n - 1
  BY <1>1, <1>3, <1>5, <1>6 DEF Accounted
<1>8. target'[c] = target[c] \union {<<c, n>>}
  BY <1>1, <1>7 DEF LoadBatch, Loaded, TypeOK
<1>9. ASSUME NEW k \in 1..N PROVE <<c, k>> \in target'[c] <=> k <= n
  <2>1. k <= n <=> k <= n - 1 \/ k = n
    BY <1>3
  <2>. QED  BY <1>7, <1>8, <2>1
<1>10. Accounted(c)'
  BY <1>2, <1>4, <1>5, <1>6, <1>7, <1>9 DEF Accounted
<1>. QED
  BY <1>1, <1>10 DEF LoadBatch, Current

(* Passing a batch on puts it into the channel (agent_grpc.go:127).        *)
LEMMA AccountedSend ==
  ASSUME TypeOK, Structure, NEW d \in Dispatches, PushSend(d), dest[d] = d,
         Accounted(d)
  PROVE  Accounted(d)'
<1>0. PICK b : b = <<d, received[d] - 1>>
  OBVIOUS
<1>1. /\ chan[d] \in Seq(Batches) /\ b \in Batches
      /\ chan'[d] = Append(chan[d], b) /\ UNCHANGED target
      /\ received'[d] = received[d] /\ received[d] \in Nat
      /\ push[d] = "sending" /\ push'[d] = "recv" /\ UNCHANGED <<engine, batch>>
  BY <1>0, BatchType DEF PushSend, Structure, SendingOK, TypeOK, Step, engineVars
<1>2. /\ Len(chan[d]) \in Nat /\ Len(chan'[d]) = Len(chan[d]) + 1
      /\ chan'[d][Len(chan[d]) + 1] = b
      /\ \A i \in 1..Len(chan[d]) : chan'[d][i] = chan[d][i]
  BY <1>1, AppendProperties
<1>3. Passed(d) = received[d] - 2 /\ Passed(d)' = received[d] - 1
  BY <1>1 DEF Passed
<1>4. /\ Taken(d)' = Taken(d) /\ Taken(d) \in Int
      /\ Taken(d) + (Len(chan[d]) + 1) = received[d] - 1
  <2>1. received[d] \in Nat /\ Len(chan[d]) \in Nat /\ Len(chan'[d]) = Len(chan[d]) + 1
    BY <1>1, <1>2
  <2>2. Taken(d) = (received[d] - 2) - Len(chan[d])
    BY <1>3 DEF Taken
  <2>3. Taken(d)' = (received[d] - 1) - Len(chan'[d])
    BY <1>3 DEF Taken
  <2>. QED  BY <2>1, <2>2, <2>3
<1>5. ASSUME NEW i \in 1..Len(chan'[d]) PROVE chan'[d][i] = <<d, Taken(d) + i>>
  <2>1. CASE i = Len(chan[d]) + 1
    BY <1>0, <1>2, <1>4, <2>1
  <2>2. CASE i # Len(chan[d]) + 1
    <3>1. i \in 1..Len(chan[d])
      BY <1>2, <2>2
    <3>. QED  BY <1>2, <3>1 DEF Accounted
  <2>. QED  BY <2>1, <2>2
<1>6. Loading(d)' = Loading(d) /\ Done(d)' = Done(d)
  BY <1>1, <1>4 DEF Loading, Done
<1>. QED  BY <1>1, <1>4, <1>5, <1>6 DEF Accounted

(* While a rule is listened to, its target and its channel together hold   *)
(* what its handler passed on (engine.go:326-362, agent_grpc.go:105-115).  *)
LEMMA ListenedAccountedStep ==
  ASSUME TypeOK, Structure, Alone, ListenedAccounted, [Next]_vars
  PROVE  ListenedAccounted'
<1> USE DEF TypeOK, engineVars, agentVars, pushVars
<1> SUFFICES ASSUME NEW d \in Dispatches, Listened(d)' PROVE Accounted(d)'
  BY DEF ListenedAccounted
<1>1. ASSUME NEW e \in Engines, Register(e) PROVE Accounted(d)'
  <2>1. ~Listened(d)
    BY <1>1, ListenedAlone DEF Register, Unfinished
  <2>2. d = Current(e) /\ engine'[d[1]] = "registered"
    BY <1>1, <2>1, DispatchIsPair DEF Register, Listened, Current
  <2>3. /\ UNCHANGED <<chan, target, push, received>>
        /\ chan[d] = <<>> /\ target[d] = {} /\ push[d] = "none" /\ received[d] = 0
    BY <1>1, <2>2, Untouched DEF Register
  <2>4. Len(<<>>) = 0
    OBVIOUS
  <2>5. ~Loading(d)' /\ Passed(d)' = -1 /\ Taken(d)' = -1 /\ Done(d)' = -1
    BY <2>2, <2>3, <2>4 DEF Passed, Taken, Loading, Done
  <2>. QED  BY <2>3, <2>4, <2>5 DEF Accounted
<1>2. ASSUME \A e \in Engines : ~Register(e) PROVE Accounted(d)'
  <2>1. Listened(d) /\ Accounted(d) /\ d[1] \in Engines
    BY <1>2, ListenedStep, DispatchIsPair DEF ListenedAccounted
  <2>2. registry = d
    BY <2>1 DEF Alone, ListenerRegistered
  <2>3. ASSUME NEW e \in Engines, Receive(e) \/ LoadBatch(e) PROVE Accounted(d)'
    <3>1. d = Current(e)
      BY <2>1, <2>3, ListenedAlone DEF Receive, LoadBatch, Unfinished
    <3>2. Accounted(Current(e))'
      BY <2>1, <2>3, <3>1, AccountedReceive, AccountedLoad
    <3>. QED  BY <2>3, <3>1, <3>2 DEF Receive, LoadBatch, Current
  <2>4. ASSUME NEW e \in Engines, LoadFails(e) PROVE FALSE
    <3>1. d[1] = e
      BY <2>1, <2>4, ListenedAlone DEF LoadFails, Unfinished
    <3>. QED  BY <2>4, <3>1 DEF LoadFails, Listened
  <2> DEFINE Kept == UNCHANGED <<target, chan>> /\ Passed(d)' = Passed(d)
                     /\ (Loading(d)' <=> Loading(d)) /\ UNCHANGED batch
  <2>5. ASSUME NEW e \in Engines,
               StartEngine(e) \/ Send(e) \/ DispatchFails(e) \/ FinishRule(e) \/ Return(e)
        PROVE  Kept
    BY <2>1, <2>5 DEF StartEngine, Send, DispatchFails, FinishRule, Return, Loading, Passed
  <2>6. ASSUME NEW c \in Dispatches, AgentStep(c) \/ ConnectionLost(c)
        PROVE  Kept
    BY <2>6 DEF AgentStep, AgentOpens, AgentRefuses, AgentSends, AgentCloses,
                ConnectionLost, Passed, Structure, StreamEnds, Loading
  <2>7. ASSUME NEW c \in Dispatches, PushSend(c) PROVE Accounted(d)'
    <3>1. CASE c = d
      <4>1. dest[d] = d
        BY <2>1, <2>7, <3>1 DEF Alone, DestinationOpen, PushSend
      <4>. QED  BY <2>1, <2>7, <3>1, <4>1, AccountedSend
    <3>2. CASE c # d
      <4>0. agent[d] # "none"
        <5>1. engine[d[1]] # "registered"
          BY <2>1, <2>7, HandlerLive DEF Alone, RegisteredQuiet, PushSend
        <5>2. d = Current(d[1]) /\ engine[d[1]] \in {"listening", "loading"}
          BY <2>1, <5>1, DispatchIsPair DEF Listened, Current
        <5>. QED  BY <2>1, <5>2 DEF Structure, ListenerStarted, Listening
      <4>1. dest[c] # d
        BY <2>7, <3>2, <4>0 DEF Alone, DestinationOpen, PushSend
      <4>2. /\ UNCHANGED <<target[d], chan[d], batch>> /\ Loading(d)' = Loading(d)
            /\ Passed(d)' = Passed(d)
        BY <2>7, <3>2, <4>1 DEF PushSend, Step, Passed, Structure, SendingOK, Loading
      <4>. QED  BY <2>1, <4>2, AccountedSame
    <3>. QED  BY <3>1, <3>2
  <2>8. ASSUME NEW c \in Dispatches, PushRecv(c) PROVE Kept
    <3>1. UNCHANGED <<target, chan, engine, batch>> /\ push[c] = "recv" /\ registry # Nobody
      BY <2>2, <2>8, NobodyApart DEF PushRecv
    <3>2. push' = [push EXCEPT ![c] = "sending"] /\ received' = [received EXCEPT ![c] = @ + 1]
      BY <2>8, <3>1 DEF PushRecv, Step
    <3>3. (received[d] + 1) - 2 = received[d] - 1
      BY RemoteAssumption
    <3>. QED  BY <3>1, <3>2, <3>3 DEF Passed, Loading
  <2>9. ASSUME NEW c \in Dispatches,
               PushEnd(c) \/ PushClose(c) \/ PushBreaks(c) \/ PushPanics(c)
        PROVE  Kept
    BY <2>9 DEF PushEnd, PushClose, PushBreaks, PushPanics, Step, Passed, Loading
  <2>10. ASSUME UNCHANGED vars PROVE Kept
    BY <2>10 DEF vars, Passed, Loading
  <2>11. ASSUME Kept PROVE Accounted(d)'
    BY <2>1, <2>11, AccountedSame
  <2> HIDE DEF Kept
  <2>. QED
    BY <1>2, <2>3, <2>4, <2>5, <2>6, <2>7, <2>8, <2>9, <2>10, <2>11
    DEF Next, EngineStep, DispatchSync, ListenStep, PushStep
<1>. QED  BY <1>1, <1>2

(* A rule is finished when its stream has ended and its channel is drained *)
(* (engine.go:331-335), and nothing is loaded for it afterwards.           *)
LEMMA FinishedLoadedStep ==
  ASSUME TypeOK, Structure, Alone, Accounting, [Next]_vars
  PROVE  FinishedLoaded'
<1> USE DEF TypeOK, engineVars, agentVars, pushVars
<1> SUFFICES ASSUME NEW d \in finished'
             PROVE  /\ Ended(d)' /\ Begun(d)' /\ ~Listened(d)'
                    /\ \A k \in 1..N :
                         <<d, k>> \in target'[d] <=> k <= produced'[d] - 1
  BY DEF FinishedLoaded
<1>1. CASE d \in finished
  <2>0. /\ d \in Dispatches /\ Ended(d) /\ Begun(d) /\ ~Listened(d)
        /\ \A k \in 1..N : <<d, k>> \in target[d] <=> k <= produced[d] - 1
    BY <1>1 DEF Accounting, FinishedLoaded
  <2>1. Begun(d)'
    BY <2>0, BegunGrows
  <2>2. ASSUME NEW e \in Engines, Register(e) \/ Send(e) PROVE d # Current(e)
    <3>1. CASE Register(e)
      BY <2>0, <3>1, ReadyNotBegun DEF Register
    <3>2. CASE Send(e)
      BY <2>0, <3>2, CurrentType DEF Send, Listened
    <3>. QED  BY <2>2, <3>1, <3>2
  <2>3. ~Listened(d)'
    BY <2>0, <2>2, ListenedStep
  <2>4. Ended(d)' /\ produced'[d] = produced[d]
    <3>1. ASSUME NEW e \in Engines, Send(e)
          PROVE  Ended(d)' /\ produced'[d] = produced[d]
      <4>1. agent'[d] = agent[d] /\ produced' = produced
        BY <2>2, <3>1 DEF Send
      <4>. QED  BY <2>0, <4>1 DEF Ended
    <3>. QED  BY <2>0, <3>1, OtherStep
  <2>5. target'[d] = target[d]
    <3>1. ASSUME NEW e \in Engines, engine[e] = "loading" PROVE d # Current(e)
      BY <2>0, <3>1, CurrentType DEF Listened
    <3>. QED  BY <2>0, <3>1, TargetStep
  <2>. QED  BY <2>0, <2>1, <2>3, <2>4, <2>5
<1>2. CASE d \notin finished
  <2>1. PICK e \in Engines : FinishRule(e)
    BY <1>2
    DEF Next, StartEngine, EngineStep, DispatchSync, Register, Send, DispatchFails, ListenStep,
        Receive, LoadBatch, LoadFails, Return, AgentStep, AgentOpens, AgentRefuses,
        AgentSends, AgentCloses, ConnectionLost, PushStep, PushRecv, PushSend,
        PushEnd, PushClose, PushBreaks, PushPanics, vars
  <2>2. /\ d = Current(e) /\ d \in Dispatches /\ d \in closed /\ chan[d] = <<>>
        /\ Listened(d) /\ agent[d] # "none"
    BY <1>2, <2>1, CurrentType DEF FinishRule, Listened, Listening, Structure, ListenerStarted
  <2>3. push[d] = "done" /\ received[d] = produced[d] /\ Ended(d)
    BY <2>2 DEF Alone, ClosedDone
  <2>4. \A k \in 1..N : <<d, k>> \in target[d] <=> k <= produced[d] - 1
    <3>1. Accounted(d)
      BY <2>2 DEF Accounting, ListenedAccounted
    <3>2. ~Loading(d)
      BY <2>1, <2>2, CurrentType DEF Loading, FinishRule
    <3>3. Len(chan[d]) = 0 /\ Done(d) = produced[d] - 1
      BY <2>2, <2>3, <3>2 DEF Passed, Taken, Done
    <3>. QED  BY <3>1, <3>3 DEF Accounted
  <2>5. Begun(d)'
    <3>1. Begun(d)
      BY <2>2 DEF Structure, BegunOnly
    <3>. QED  BY <2>2, <3>1, BegunGrows
  <2>6. UNCHANGED <<agent, produced, target>>
    BY <2>1 DEF FinishRule
  <2>7. ~Listened(d)'
    <3>1. d[1] = e /\ d[2] = rule[e]
      BY <2>2, CurrentType
    <3>2. CASE rule[e] < Rules
      <4>1. engine'[e] = "ready"
        BY <2>1, <3>2 DEF FinishRule
      <4>. QED  BY <3>1, <4>1 DEF Listened
    <3>3. CASE ~(rule[e] < Rules)
      <4>1. engine'[e] = "returning"
        BY <2>1, <3>3 DEF FinishRule
      <4>. QED  BY <3>1, <4>1 DEF Listened
    <3>. QED  BY <3>2, <3>3
  <2>. QED  BY <2>3, <2>4, <2>5, <2>6, <2>7 DEF Ended
<1>. QED  BY <1>1, <1>2

-----------------------------------------------------------------------------
IndInv == TypeOK /\ Structure /\ (~overlapped => Alone /\ Accounting)

(* Whether the job id was shared is never forgotten.                       *)
LEMMA OverlapStays ==
  ASSUME TypeOK, [Next]_vars, overlapped PROVE overlapped'
BY DEF TypeOK, Next, StartEngine, EngineStep, DispatchSync, Register, Send, DispatchFails,
       ListenStep, Receive, LoadBatch, LoadFails, FinishRule, Return, AgentStep, AgentOpens,
       AgentRefuses, AgentSends, AgentCloses, ConnectionLost, PushStep, PushRecv,
       PushSend, PushEnd, PushClose, PushBreaks, PushPanics, vars

(* The inductive invariant holds however engines, agents and handlers      *)
(* interleave, streams break and loads fail.                               *)
THEOREM IndInvHolds == Spec => []IndInv
<1>1. Init => Structure /\ Alone /\ Accounting
  <2> SUFFICES ASSUME Init PROVE Structure /\ Alone /\ Accounting
    OBVIOUS
  <2> USE DEF Init
  <2>1. Structure
    BY DispatchIsPair, NobodyApart, CurrentType, RemoteAssumption
    DEF Structure, SendingOK, BegunOnly, StreamEnds, ListenerStarted, Ended, Listening
  <2>2. OneEngine /\ OneStream /\ RegisteredQuiet /\ ListenerRegistered /\ RegistryOpen
    BY DispatchIsPair DEF OneEngine, OneStream, RegisteredQuiet, ListenerRegistered, RegistryOpen,
                          Unfinished, Live, Listened
  <2>3. DestinationOpen /\ ClosedDone
    BY DEF DestinationOpen, ClosedDone
  <2>4. Accounting
    BY DispatchIsPair DEF Accounting, LoadedOwn, ListenedAccounted, FinishedLoaded, Listened, Rows
  <2>. QED  BY <2>1, <2>2, <2>3, <2>4 DEF Alone
<1>2. TypeOK /\ IndInv /\ [Next]_vars => IndInv'
  <2> SUFFICES ASSUME IndInv, [Next]_vars PROVE IndInv'
    OBVIOUS
  <2>1. TypeOK' /\ Structure'
    BY StructureStep DEF IndInv
  <2>2. ASSUME ~overlapped' PROVE Alone' /\ Accounting'
    <3>1. ~overlapped
      BY <2>2, OverlapStays DEF IndInv
    <3>2. Alone /\ Accounting
      BY <3>1 DEF IndInv
    <3>. QED
      BY <2>2, <3>2, AloneStep, LoadedOwnStep, ListenedAccountedStep,
         FinishedLoadedStep
      DEF IndInv, Accounting
  <2>. QED  BY <2>1, <2>2 DEF IndInv
<1>3. Init /\ TypeOK => IndInv
  BY <1>1 DEF IndInv
<1>. QED  BY <1>2, <1>3, TypeCorrect, PTL DEF Spec

(* As long as the job id is not shared, no handler sends on or closes a    *)
(* closed channel, for any number of engines, rules and batches            *)
(* (agent_grpc.go:107-127).                                                *)
THEOREM NoPanicWhenAlone == Spec => []AloneNoPanic
<1>1. IndInv => AloneNoPanic
  BY DEF IndInv, Alone, AloneNoPanic
<1>. QED  BY <1>1, IndInvHolds, PTL

(* Under the same condition a rule loads what its own agent extracted and  *)
(* nothing else (agent_grpc.go:119-127).                                   *)
THEOREM NoMixingWhenAlone == Spec => []AloneNoMixing
<1>1. IndInv => AloneNoMixing
  BY DEF IndInv, Accounting, LoadedOwn, AloneNoMixing
<1>. QED  BY <1>1, IndInvHolds, PTL

(* A target that has exactly the batches below p has what was sent.        *)
LEMMA SentRows ==
  ASSUME NEW d, NEW t, NEW p \in 0..(N + 1), t \subseteq Rows(d),
         \A k \in 1..N : <<d, k>> \in t <=> k <= p - 1
  PROVE  t = {<<d, k>> : k \in 1..p - 1}
<1>1. \A k \in 1..p - 1 : k \in 1..N
  BY RemoteAssumption
<1>2. \A b \in t : \E k \in 1..N : b = <<d, k>>
  BY DEF Rows
<1>. QED  BY <1>1, <1>2, RemoteAssumption

(* Under the same condition a finished rule has loaded every batch that    *)
(* its agent sent (engine.go:326-365).                                     *)
THEOREM FinishedLoadedWhenAlone == Spec => []AloneFinishedLoaded
<1>1. IndInv => AloneFinishedLoaded
  <2> SUFFICES ASSUME IndInv, ~overlapped, NEW d \in finished
               PROVE  target[d] = {<<d, k>> : k \in 1..produced[d] - 1}
    BY DEF AloneFinishedLoaded
  <2>1. /\ produced[d] \in 0..(N + 1) /\ target[d] \subseteq Rows(d)
        /\ \A k \in 1..N : <<d, k>> \in target[d] <=> k <= produced[d] - 1
    BY DEF IndInv, TypeOK, Accounting, LoadedOwn, FinishedLoaded
  <2>. QED  BY <2>1, SentRows
<1>. QED  BY <1>1, IndInvHolds, PTL

(* Under the same condition the listener holds a batch once, in hand or    *)
(* waiting, and has not loaded it before (agent_grpc.go:105-127,           *)
(* engine.go:327-356).                                                     *)
THEOREM LoadsOnceWhenAlone == Spec => []AloneLoadsOnce
<1>1. IndInv => AloneLoadsOnce
  <2> SUFFICES ASSUME IndInv, ~overlapped, NEW e \in Engines, Listening(e)
               PROVE  LET waiting == InHand(e) \o chan[Current(e)] IN
                      \A i \in 1..Len(waiting) :
                        /\ waiting[i] \notin target[Current(e)]
                        /\ \A j \in 1..Len(waiting) : waiting[i] = waiting[j] => i = j
    BY DEF AloneLoadsOnce
  <2>1. PICK c \in Dispatches : c = Current(e) /\ c[1] = e
    BY CurrentType DEF IndInv
  <2>2. Accounted(c) /\ target[c] \subseteq Rows(c)
    <3>1. Listened(c)
      BY <2>1, CurrentType DEF Listened, Listening, IndInv
    <3>. QED  BY <3>1 DEF IndInv, Accounting, ListenedAccounted, LoadedOwn
  <2>3. chan[c] \in Seq(Batches) /\ Len(chan[c]) \in Nat
        /\ Taken(c) \in Int /\ Done(c) \in Int
    <3>1. chan[c] \in Seq(Batches) /\ Len(chan[c]) \in Nat /\ received[c] \in Nat
      BY DEF IndInv, TypeOK
    <3>. QED  BY <3>1 DEF Taken, Done, Passed
  <2>4. PICK w : w = InHand(e) \o chan[c]
    OBVIOUS
  <2>5. Len(w) \in Nat /\ \A i \in 1..Len(w) : w[i] = <<c, Done(c) + i>>
    <3>1. CASE Loading(c)
      <4>1. PICK b \in Batches : b = batch[e]
        BY <2>1, <3>1 DEF Loading, IndInv, TypeOK
      <4>2. InHand(e) = <<b>> /\ <<b>> \in Seq(Batches) /\ Len(<<b>>) = 1 /\ <<b>>[1] = b
        BY <2>1, <3>1, <4>1 DEF InHand, Loading
      <4>3. /\ Len(w) = 1 + Len(chan[c])
            /\ \A i \in 1..Len(w) : w[i] = IF i <= 1 THEN <<b>>[i] ELSE chan[c][i - 1]
        BY <2>3, <2>4, <4>2, ConcatProperties
      <4>4. b = <<c, Done(c) + 1>> /\ Taken(c) = Done(c) + 1
        BY <2>1, <2>2, <2>3, <3>1, <4>1 DEF Accounted, Done
      <4>5. ASSUME NEW i \in 1..Len(w) PROVE w[i] = <<c, Done(c) + i>>
        <5>1. CASE i = 1
          BY <4>2, <4>3, <4>4, <5>1
        <5>2. CASE i # 1
          <6>1. i - 1 \in 1..Len(chan[c]) /\ w[i] = chan[c][i - 1]
            BY <2>3, <4>3, <5>2
          <6>2. chan[c][i - 1] = <<c, Taken(c) + (i - 1)>>
            BY <2>2, <6>1 DEF Accounted
          <6>3. Taken(c) + (i - 1) = Done(c) + i
            BY <2>3, <4>3, <4>4
          <6>. QED  BY <6>1, <6>2, <6>3
        <5>. QED  BY <5>1, <5>2
      <4>. QED  BY <2>3, <4>3, <4>5
    <3>2. CASE ~Loading(c)
      <4>1. w = chan[c]
        BY <2>1, <2>3, <2>4, <3>2 DEF InHand, Loading
      <4>. QED  BY <2>2, <2>3, <3>2, <4>1 DEF Accounted, Done
    <3>. QED  BY <3>1, <3>2
  <2>6. ASSUME NEW i \in 1..Len(w) PROVE w[i] \notin target[c]
    <3>1. SUFFICES ASSUME <<c, Done(c) + i>> \in target[c] PROVE FALSE
      BY <2>5
    <3>2. Done(c) + i \in 1..N
      BY <2>2, <3>1 DEF Rows
    <3>3. Done(c) + i =< Done(c)
      BY <2>2, <3>1, <3>2 DEF Accounted
    <3>. QED  BY <2>3, <2>5, <3>3
  <2>7. ASSUME NEW i \in 1..Len(w), NEW j \in 1..Len(w), w[i] = w[j] PROVE i = j
    <3>1. Done(c) + i = Done(c) + j
      BY <2>5, <2>7
    <3>. QED  BY <2>3, <2>5, <3>1
  <2>. QED  BY <2>1, <2>4, <2>6, <2>7
<1>. QED  BY <1>1, IndInvHolds, PTL

-----------------------------------------------------------------------------
(* Transfer, for each dispatch.  What its mapped state depends on:         *)
LEMMA PromiseSame ==
  ASSUME NEW d \in Dispatches, UNCHANGED <<produced[d], target[d], Verdict(d)>>
  PROVE  UNCHANGED Promise(d)!vars
BY DEF Promise!vars

(* The mapped verdict of a dispatch changes only with its own engine.      *)
LEMMA VerdictSame ==
  ASSUME NEW d \in Dispatches, UNCHANGED <<engine, rule, finished>>
  PROVE  UNCHANGED Verdict(d)
BY DEF Verdict

(* A dispatch that is listened to has no verdict yet.                      *)
LEMMA ListenedRuns ==
  ASSUME Accounting, NEW d \in Dispatches, Listened(d)
  PROVE  Verdict(d) = "running" /\ d \notin finished
BY DEF Accounting, FinishedLoaded, Listened, Verdict

(* The agent sends another batch, also after the engine has failed.        *)
LEMMA AgentKeepsPromise ==
  ASSUME IndInv, ~overlapped, NEW d \in Dispatches, NEW c \in Dispatches,
         AgentStep(c) \/ ConnectionLost(c)
  PROVE  Promise(d)!Next \/ UNCHANGED Promise(d)!vars
<1> USE DEF IndInv
<1>1. UNCHANGED <<target, engine, rule, finished>>
  BY DEF AgentStep, AgentOpens, AgentRefuses, AgentSends, AgentCloses, ConnectionLost, engineVars
<1>2. Verdict(d)' = Verdict(d)
  BY <1>1, VerdictSame
<1>3. CASE AgentSends(d)
  <2>1. produced[d] \in 0..N /\ produced'[d] = produced[d] + 1 /\ agent[d] = "streaming"
    BY <1>3 DEF AgentSends, TypeOK
  <2>2. Verdict(d) # "ok"
    BY <2>1 DEF Verdict, Accounting, FinishedLoaded, Ended
  <2>3. produced[d] \in 1..N
    BY <2>1 DEF Structure, StreamEnds
  <2>4. 1..produced'[d] - 1 = (1..produced[d] - 1) \union {produced[d]}
    BY <2>1, <2>3
  <2>5. PICK b : b = <<d, produced[d]>>
    OBVIOUS
  <2>6. Promise(d)!Hand(b)
    BY <1>1, <1>2, <2>2, <2>4, <2>5 DEF Promise!Hand
  <2>7. b \in Rows(d)
    BY <2>3, <2>5 DEF Rows
  <2>. QED  BY <2>6, <2>7 DEF Promise!Next
<1>4. CASE AgentOpens(d)
  <2>1. produced'[d] = 1 /\ produced[d] = 0
    BY <1>4 DEF AgentOpens, TypeOK, Structure, StreamEnds
  <2>2. \A k : k \notin 1..produced[d] - 1 /\ k \notin 1..produced'[d] - 1
    BY <2>1
  <2>. QED  BY <1>1, <1>2, <2>2 DEF Promise!vars
<1>5. CASE ~AgentSends(d) /\ ~AgentOpens(d)
  <2>1. produced'[d] = produced[d]
    <3>1. CASE AgentRefuses(c) \/ AgentCloses(c) \/ ConnectionLost(c)
      BY <3>1 DEF AgentRefuses, AgentCloses, ConnectionLost
    <3>2. CASE (AgentSends(c) \/ AgentOpens(c)) /\ c # d
      BY <3>2 DEF AgentSends, AgentOpens, TypeOK
    <3>. QED  BY <1>5, <3>1, <3>2 DEF AgentStep
  <2>. QED  BY <1>1, <1>2, <2>1, PromiseSame
<1>. QED  BY <1>3, <1>4, <1>5

(* Receiving a batch is no step of Transfer; loading it is a load of one   *)
(* that was sent, or fails.                                                *)
LEMMA TakingKeepsPromise ==
  ASSUME IndInv, IndInv', ~overlapped, NEW d \in Dispatches,
         NEW e \in Engines, Receive(e) \/ LoadBatch(e) \/ LoadFails(e)
  PROVE  Promise(d)!Next \/ UNCHANGED Promise(d)!vars
<1> USE DEF IndInv
<1>1. PICK c \in Dispatches : c = Current(e) /\ c[1] = e /\ c[2] = rule[e]
  BY CurrentType
<1>2. UNCHANGED <<rule, finished, produced>>
  BY DEF Receive, LoadBatch, LoadFails, agentVars
<1>3. CASE Receive(e)
  <2>1. target' = target
    BY <1>3 DEF Receive
  <2>2. \A f \in Engines : engine'[f] \in {"returning", "done"} <=> engine[f] \in {"returning", "done"}
    <3>1. engine[e] = "listening" /\ engine' \in {engine, [engine EXCEPT ![e] = "loading"]}
      BY <1>3 DEF Receive
    <3>2. engine'[e] \in {"listening", "loading"} /\ \A f \in Engines \ {e} : engine'[f] = engine[f]
      BY <3>1, Zenon DEF TypeOK
    <3>. QED  BY <3>1, <3>2
  <2>3. Verdict(d)' = Verdict(d)
    BY <1>2, <2>2, DispatchIsPair DEF Verdict
  <2>. QED  BY <1>2, <2>1, <2>3, PromiseSame
<1>4. CASE (LoadBatch(e) \/ LoadFails(e)) /\ d # c
  <2>1. target'[d] = target[d]
    BY <1>1, <1>4 DEF LoadBatch, LoadFails, Loaded, TypeOK
  <2>2. Verdict(d)' = Verdict(d)
    <3>1. ~(rule[e] = d[2] /\ d[1] = e)
      BY <1>1, <1>4, DispatchIsPair
    <3>2. \A f \in Engines : f # e => engine'[f] = engine[f]
      BY <1>4 DEF LoadBatch, LoadFails, TypeOK
    <3>. QED  BY <1>2, <3>1, <3>2, DispatchIsPair DEF Verdict
  <2>. QED  BY <1>2, <2>1, <2>2, PromiseSame
<1>5. CASE (LoadBatch(e) \/ LoadFails(e)) /\ d = c
  <2>1. Listened(d) /\ Loading(d)
    BY <1>1, <1>5 DEF Listened, Loading, LoadBatch, LoadFails
  <2>2. Verdict(d) = "running" /\ d \notin finished
    BY <2>1, ListenedRuns
  <2>3. /\ Accounted(d) /\ target[d] \subseteq Rows(d)
        /\ Len(chan[d]) \in Nat /\ received[d] \in Nat /\ batch[e] \in Batches
    <3>1. Accounted(d) /\ target[d] \subseteq Rows(d)
      BY <2>1 DEF Accounting, ListenedAccounted, LoadedOwn
    <3>2. chan[d] \in Seq(Batches) /\ received[d] \in 0..(N + 1) /\ batch[e] \in Batches
      BY <1>1, <1>5, <2>1 DEF TypeOK, Loading
    <3>. QED  BY <3>1, <3>2, RemoteAssumption
  <2>4. PICK k \in 1..N : k = Taken(d) /\ batch[e] = <<d, k>>
    <3>1. batch[e] = <<d, Taken(d)>> /\ Taken(d) >= 1
      BY <1>1, <1>5, <2>1, <2>3 DEF Accounted
    <3>2. PICK x \in 0..N : batch[e] = <<d, x>>
      BY <2>3, <3>1 DEF Batches
    <3>. QED  BY <3>1, <3>2, RemoteAssumption
  <2>5. k \in 1..produced[d] - 1
    <3>1. received[d] <= produced[d] /\ produced[d] \in Nat
      BY RemoteAssumption DEF Structure, StreamEnds, TypeOK
    <3>. QED  BY <2>3, <2>4, <3>1 DEF Taken, Passed
  <2>6. PICK b : b = <<d, k>>
    OBVIOUS
  <2>7. b \in Rows(d) /\ b \in {<<d, x>> : x \in 1..produced[d] - 1} /\ b \notin target[d]
    <3>1. ~(k =< Done(d))
      BY <2>1, <2>4 DEF Done
    <3>. QED  BY <2>3, <2>4, <2>5, <2>6, <3>1 DEF Accounted, Rows
  <2>8. Loaded(e)[d] = target[d] \union {b}
    BY <1>1, <1>5, <2>4, <2>6 DEF Loaded, TypeOK
  <2>9. CASE LoadBatch(e)
    <3>1. Verdict(d)' = Verdict(d)
      <4>1. engine'[e] = "listening"
        BY <2>9 DEF LoadBatch, TypeOK
      <4>. QED  BY <1>1, <1>2, <1>5, <2>2, <4>1 DEF Verdict
    <3>2. target'[d] = target[d] \union {b}
      BY <2>8, <2>9 DEF LoadBatch
    <3>3. Promise(d)!Load(b)
      BY <1>2, <2>2, <2>7, <3>1, <3>2 DEF Promise!Load
    <3>. QED  BY <2>7, <3>3 DEF Promise!Next
  <2>10. CASE LoadFails(e)
    <3>1. Verdict(d)' = "failed"
      <4>1. engine'[e] = "returning"
        BY <2>10 DEF LoadFails, TypeOK
      <4>. QED  BY <1>1, <1>2, <1>5, <2>2, <4>1 DEF Verdict
    <3>2. target'[d] \in {target[d], target[d] \union {b}}
      BY <2>8, <2>10 DEF LoadFails
    <3>3. Promise(d)!Fail
      BY <1>2, <2>2, <2>7, <3>1, <3>2 DEF Promise!Fail
    <3>. QED  BY <3>3 DEF Promise!Next
  <2>. QED  BY <1>5, <2>9, <2>10
<1>. QED  BY <1>3, <1>4, <1>5

(* A closed and drained channel is success; a command that cannot be sent  *)
(* is failure; the other steps of an engine change no promise.             *)
LEMMA EndingKeepsPromise ==
  ASSUME IndInv, IndInv', ~overlapped', NEW d \in Dispatches,
         NEW e \in Engines, \/ FinishRule(e) \/ DispatchFails(e) \/ StartEngine(e)
                            \/ Register(e) \/ Send(e) \/ Return(e)
  PROVE  Promise(d)!Next \/ UNCHANGED Promise(d)!vars
<1> USE DEF IndInv
<1>1. PICK c \in Dispatches : c = Current(e) /\ c[1] = e /\ c[2] = rule[e]
  BY CurrentType
<1>2. UNCHANGED <<produced, target>>
  BY DEF FinishRule, DispatchFails, StartEngine, Register, Send, Return, agentVars
<1>3. d # c => ~(d[1] = e /\ d[2] = rule[e])
  BY <1>1, DispatchIsPair
<1>4. CASE FinishRule(e)
  <2>1. /\ engine[e] = "listening" /\ finished' = finished \union {c}
        /\ \/ rule' = [rule EXCEPT ![e] = @ + 1] /\ engine' = [engine EXCEPT ![e] = "ready"]
           \/ rule' = rule /\ engine' = [engine EXCEPT ![e] = "returning"]
    BY <1>1, <1>4 DEF FinishRule
  <2>2. CASE d = c
    <3>1. Listened(d)
      BY <1>1, <2>1, <2>2 DEF Listened
    <3>2. Verdict(d) = "running" /\ Verdict(d)' = "ok"
      BY <2>1, <2>2, <3>1, ListenedRuns, OverlapStays, <1>4 DEF Verdict, FinishRule
    <3>3. target'[d] = {<<d, k>> : k \in 1..produced'[d] - 1}
      <4>1. d \in finished'
        BY <2>1, <2>2
      <4>2. /\ produced'[d] \in 0..(N + 1) /\ target'[d] \subseteq Rows(d)
            /\ \A k \in 1..N : <<d, k>> \in target'[d] <=> k <= produced'[d] - 1
        BY <4>1 DEF TypeOK, Accounting, LoadedOwn, FinishedLoaded, Rows
      <4>. QED  BY <4>2, SentRows
    <3>4. Promise(d)!Succeed
      BY <1>2, <3>2, <3>3 DEF Promise!Succeed
    <3>. QED  BY <3>4 DEF Promise!Next
  <2>3. CASE d # c
    <3>1. d \in finished' <=> d \in finished
      BY <2>1, <2>3
    <3>2. CASE d[1] # e
      <4>1. engine'[d[1]] = engine[d[1]] /\ rule'[d[1]] = rule[d[1]]
        BY <2>1, <3>2, DispatchIsPair DEF TypeOK
      <4>. QED  BY <1>2, <3>1, <4>1, PromiseSame DEF Verdict
    <3>3. CASE d[1] = e
      <4>1. d[2] # rule[e] /\ (engine'[e] = "ready" \/ rule'[e] = rule[e])
        BY <1>3, <2>1, <2>3, <3>3 DEF TypeOK
      <4>2. Verdict(d)' = Verdict(d)
        BY <3>1, <3>3, <4>1 DEF Verdict
      <4>. QED  BY <1>2, <4>2, PromiseSame
    <3>. QED  BY <3>2, <3>3
  <2>. QED  BY <2>2, <2>3
<1>5. CASE DispatchFails(e)
  <2>1. UNCHANGED <<rule, finished>> /\ engine[e] \in {"ready", "registered"} /\ engine' = [engine EXCEPT ![e] = "returning"]
    BY <1>5 DEF DispatchFails
  <2>2. engine'[e] = "returning" /\ \A f \in Engines \ {e} : engine'[f] = engine[f]
    BY <2>1, Zenon DEF TypeOK
  <2>3. CASE d = c
    <3>1. d \notin finished
      <4>0. Accounting
        BY <1>5 DEF DispatchFails
      <4>1. CASE engine[e] = "ready"
        BY <1>1, <2>3, <4>0, <4>1, ReadyNotBegun DEF Accounting, FinishedLoaded
      <4>2. CASE engine[e] = "registered"
        BY <1>1, <2>3, <4>0, <4>2, ListenedRuns DEF Listened
      <4>. QED  BY <2>1, <4>1, <4>2
    <3>2. Verdict(d) = "running" /\ Verdict(d)' = "failed"
      BY <1>1, <2>1, <2>2, <2>3, <3>1 DEF Verdict
    <3>3. Promise(d)!Fail
      BY <1>2, <3>2 DEF Promise!Fail
    <3>. QED  BY <3>3 DEF Promise!Next
  <2>4. CASE d # c
    <3>1. Verdict(d)' = Verdict(d)
      BY <1>3, <2>1, <2>2, <2>4, DispatchIsPair DEF Verdict
    <3>. QED  BY <1>2, <3>1, PromiseSame
  <2>. QED  BY <2>3, <2>4
<1>6. CASE StartEngine(e) \/ Register(e) \/ Send(e) \/ Return(e)
  <2>1. /\ UNCHANGED <<rule, finished>>
        /\ \/ /\ engine[e] \in {"idle", "ready", "registered"}
              /\ engine' \in {[engine EXCEPT ![e] = p] : p \in {"ready", "registered", "listening"}}
           \/ engine[e] = "returning" /\ engine' = [engine EXCEPT ![e] = "done"]
    BY <1>6 DEF StartEngine, Register, Send, Return
  <2>2. \A f \in Engines : engine[f] \in {"returning", "done"} <=> engine'[f] \in {"returning", "done"}
    <3>1. engine \in [Engines -> {"idle", "ready", "registered", "listening", "loading", "returning", "done"}]
      BY DEF TypeOK
    <3>2. \A f \in Engines \ {e} : engine'[f] = engine[f]
      BY <2>1, <3>1, Zenon
    <3>3. \/ /\ engine[e] \in {"idle", "ready", "registered"}
             /\ engine'[e] \in {"ready", "registered", "listening"}
          \/ engine[e] = "returning" /\ engine'[e] = "done"
      BY <2>1, <3>1, Zenon
    <3>4. engine[e] \in {"returning", "done"} <=> engine'[e] \in {"returning", "done"}
      BY <3>3
    <3>. QED  BY <3>2, <3>4, Zenon
  <2>3. Verdict(d)' = Verdict(d)
    BY <2>1, <2>2, DispatchIsPair DEF Verdict
  <2>. QED  BY <1>2, <2>3, PromiseSame
<1>. QED  BY <1>4, <1>5, <1>6

(* Each step of engine, agent and handlers is a step of Transfer or none.  *)
LEMMA StepKeepsPromise ==
  ASSUME IndInv, IndInv', ~overlapped, ~overlapped', [Next]_vars, NEW d \in Dispatches
  PROVE  Promise(d)!Next \/ UNCHANGED Promise(d)!vars
<1>1. ASSUME NEW e \in Engines, StartEngine(e) \/ EngineStep(e)
      PROVE  Promise(d)!Next \/ UNCHANGED Promise(d)!vars
  BY <1>1, TakingKeepsPromise, EndingKeepsPromise DEF EngineStep, DispatchSync, ListenStep
<1>2. ASSUME NEW c \in Dispatches, AgentStep(c) \/ ConnectionLost(c)
      PROVE  Promise(d)!Next \/ UNCHANGED Promise(d)!vars
  BY <1>2, AgentKeepsPromise
<1>3. ASSUME NEW c \in Dispatches, PushStep(c)
      PROVE  UNCHANGED <<engine, rule, finished, produced, target>>
  BY <1>3 DEF PushStep, PushRecv, PushSend, PushEnd, PushClose, PushBreaks, PushPanics,
              engineVars, agentVars
<1>4. ASSUME UNCHANGED vars
      PROVE  UNCHANGED <<engine, rule, finished, produced, target>>
  BY <1>4 DEF vars, engineVars, agentVars
<1>5. ASSUME UNCHANGED <<engine, rule, finished, produced, target>>
      PROVE  UNCHANGED Promise(d)!vars
  BY <1>5, VerdictSame, PromiseSame
<1>. QED  BY <1>1, <1>2, <1>3, <1>4, <1>5 DEF Next

(* As long as the job id is not shared, the whole of registry, channels,   *)
(* agents and handlers implements Transfer for each dispatch               *)
(* (engine.go:297-366, agent_grpc.go:86-129).                              *)
THEOREM PromiseWhenAlone == Spec => AloneKeepsPromise
<1>1. IndInv /\ IndInv' /\ [Next]_vars
      => [~overlapped' => \A d \in Dispatches : Promise(d)!Next \/ UNCHANGED Promise(d)!vars]_vars
  <2> SUFFICES ASSUME IndInv, IndInv', [Next]_vars, ~overlapped', NEW d \in Dispatches
               PROVE  Promise(d)!Next \/ UNCHANGED Promise(d)!vars
    OBVIOUS
  <2>1. ~overlapped
    BY OverlapStays DEF IndInv
  <2>. QED  BY <2>1, StepKeepsPromise
<1>. QED  BY <1>1, IndInvHolds, PTL DEF Spec, AloneKeepsPromise

(* Hence, of a behaviour that never shares the job id, each dispatch is a  *)
(* behaviour of Transfer.                                                  *)
THEOREM AloneImplementsTransfer ==
  ASSUME NEW d \in Dispatches
  PROVE  Spec /\ []~overlapped => Promise(d)!Spec
<1>1. Init => Promise(d)!Init
  <2> SUFFICES ASSUME Init PROVE Promise(d)!Init
    OBVIOUS
  <2>1. \A k : k \notin 1..produced[d] - 1
    BY DEF Init
  <2>2. target[d] = {} /\ Verdict(d) = "running"
    BY DispatchIsPair DEF Init, Verdict
  <2>. QED  BY <2>1, <2>2 DEF Promise!Init
<1>2. IndInv /\ IndInv' /\ ~overlapped /\ (~overlapped)' /\ [Next]_vars
      => [Promise(d)!Next]_(Promise(d)!vars)
  BY StepKeepsPromise
<1>. QED  BY <1>1, <1>2, IndInvHolds, PTL DEF Spec, Promise!Spec

-----------------------------------------------------------------------------
(* That a listener is released stays with TLC (ListenerReleased); what it  *)
(* rests on is that it is never left alone: its own channel has something  *)
(* for it, or its agent or its handler has a step to take.                 *)
Attended(d) ==
  \/ chan[d] # <<>> \/ d \in closed
  \/ agent[d] = "commanded" \/ agent[d] = "streaming"
  \/ push[d] = "recv" /\ (received[d] < produced[d] \/ agent[d] = "eof")
  \/ push[d] = "sending" /\ dest[d] \notin closed /\ Len(chan[dest[d]]) < Cap
  \/ push[d] = "closing" /\ dest[d] \notin closed

(* The handler of a stream that ended in order has closed the channel.     *)
EndClosed ==
  \A d \in Dispatches :
    Listened(d) /\ push[d] = "done" /\ agent[d] # "broken" => d \in closed

(* Nothing but a broken stream makes the handler of a listened dispatch    *)
(* return without closing its channel (agent_grpc.go:93-113).              *)
LEMMA EndClosedStep ==
  ASSUME TypeOK, Structure, Alone, EndClosed, [Next]_vars
  PROVE  EndClosed'
<1> USE DEF TypeOK, engineVars, agentVars, pushVars
<1> SUFFICES ASSUME NEW d \in Dispatches, Listened(d)', push'[d] = "done",
                    agent'[d] # "broken"
             PROVE  d \in closed'
  BY DEF EndClosed
<1>1. ASSUME NEW e \in Engines, Register(e), d = Current(e) PROVE FALSE
  BY <1>1, Untouched DEF Register
<1>2. CASE Listened(d)
  <2>1. registry = d /\ d # Nobody
    BY <1>2, NobodyApart DEF Alone, ListenerRegistered
  <2>2. push[d] = "done" /\ agent[d] # "broken" => d \in closed
    BY <1>2 DEF EndClosed
  <2>3. ASSUME NEW e \in Engines,
               \/ StartEngine(e) \/ Register(e) \/ DispatchFails(e) \/ ListenStep(e)
               \/ Return(e)
        PROVE  d \in closed'
    BY <2>2, <2>3 DEF StartEngine, Register, DispatchFails, ListenStep, Receive, LoadBatch,
                      LoadFails, FinishRule, Return
  <2>4. ASSUME NEW e \in Engines, Send(e) PROVE d \in closed'
    <3>1. PICK c \in Dispatches : c = Current(e)
      BY CurrentType
    <3>2. push[c] = "none"
      BY <2>4, <3>1 DEF Send, Structure, ListenerStarted, StreamEnds
    <3>3. d # c /\ agent'[d] = agent[d] /\ UNCHANGED <<push, closed>>
      BY <2>4, <3>1, <3>2 DEF Send
    <3>. QED  BY <2>2, <3>3
  <2>5. ASSUME NEW c \in Dispatches, AgentStep(c) \/ ConnectionLost(c)
        PROVE  d \in closed'
    BY <2>2, <2>5 DEF AgentStep, AgentOpens, AgentRefuses, AgentSends, AgentCloses,
                      ConnectionLost
  <2>6. ASSUME NEW c \in Dispatches, PushStep(c), c # d PROVE d \in closed'
    BY <2>2, <2>6 DEF PushStep, PushRecv, PushSend, PushEnd, PushClose, PushBreaks,
                      PushPanics, Step
  <2>7. ASSUME PushStep(d) PROVE d \in closed'
    <3>1. ~PushRecv(d) /\ ~PushSend(d)
      BY <2>1 DEF PushRecv, PushSend, Step
    <3>2. ~PushEnd(d)
      BY <2>1, RemoteAssumption DEF PushEnd, Step, Structure, StreamEnds
    <3>3. CASE PushClose(d)
      BY <1>2, <3>3 DEF PushClose, Alone, DestinationOpen
    <3>4. ~PushBreaks(d)
      BY DEF PushBreaks
    <3>5. ~PushPanics(d)
      BY DEF PushPanics
    <3>. QED  BY <2>7, <3>1, <3>2, <3>3, <3>4, <3>5 DEF PushStep
  <2>8. CASE UNCHANGED vars
    BY <2>2, <2>8 DEF vars
  <2>. QED  BY <2>3, <2>4, <2>5, <2>6, <2>7, <2>8 DEF Next, EngineStep, DispatchSync
<1>. QED  BY <1>1, <1>2, ListenedStep

(* As long as the job id is not shared, an engine that listens is attended *)
(* to unless the agent refused the command or its stream broke: that the   *)
(* loop over dataCh has no other way to wait for ever (engine.go:326-362). *)
THEOREM NeverLeftAlone ==
  Spec => [](~overlapped =>
               \A e \in Engines :
                 engine[e] = "listening" /\ agent[Current(e)] \notin {"refused", "broken"}
                   => Attended(Current(e)))
<1> DEFINE Goal == ~overlapped =>
               \A e \in Engines :
                 engine[e] = "listening" /\ agent[Current(e)] \notin {"refused", "broken"}
                   => Attended(Current(e))
           Closed == ~overlapped => EndClosed
<1>1. Init => Closed
  BY DispatchIsPair DEF Init, EndClosed, Listened
<1>2. IndInv /\ Closed /\ [Next]_vars => Closed'
  <2>1. ASSUME IndInv, Closed, [Next]_vars, ~overlapped' PROVE EndClosed'
    BY <2>1, OverlapStays, EndClosedStep DEF IndInv
  <2>. QED  BY <2>1
<1>3. IndInv /\ Closed => Goal
  <2> SUFFICES ASSUME IndInv, EndClosed, ~overlapped, NEW e \in Engines,
                      engine[e] = "listening",
                      agent[Current(e)] \notin {"refused", "broken"}
               PROVE  Attended(Current(e))
    OBVIOUS
  <2>1. PICK d \in Dispatches : d = Current(e)
    BY CurrentType DEF IndInv
  <2>2. Listened(d)
    BY <2>1, CurrentType DEF IndInv, Listened
  <2>3. /\ agent[d] \in {"commanded", "streaming", "eof"}
        /\ push[d] \in {"none", "recv", "sending", "closing", "done"}
        /\ push[d] = "none" => agent[d] = "commanded"
    BY <2>1 DEF IndInv, TypeOK, Structure, ListenerStarted, Listening, StreamEnds
  <2>4. push[d] \in {"sending", "closing"} => dest[d] = d /\ d \notin closed
    BY <2>2 DEF IndInv, Alone, DestinationOpen
  <2>5. chan[d] = <<>> => Len(chan[d]) < Cap
    BY RemoteAssumption
  <2>6. push[d] = "done" => d \in closed
    BY <2>2, <2>3 DEF EndClosed
  <2>. QED  BY <2>1, <2>3, <2>4, <2>5, <2>6 DEF Attended
<1> HIDE DEF Goal, Closed
<1>4. Spec => []Closed
  BY <1>1, <1>2, IndInvHolds, PTL DEF Spec
<1>5. Spec => []Goal
  BY <1>3, <1>4, IndInvHolds, PTL
<1>. QED  BY <1>5 DEF Goal
=============================================================================
