----------------------------- MODULE RemoteSync -----------------------------
(***************************************************************************)
(* Extraction by a remote agent: the engine registers a channel under the  *)
(* job's id and sends START_SYNC (engine.go:297-366, agent_manager.go);    *)
(* the agent extracts and pushes batches on a stream of its own            *)
(* (cmd/agent/main.go); the gRPC handler of that stream routes each batch  *)
(* by looking the job id up again (agent_grpc.go:103-129).                 *)
(*                                                                         *)
(* The module follows ONE job id.  An engine is one call of ExecuteSync    *)
(* for it; JobLifecycle shows how a second one may start while the first   *)
(* still works, or after it failed while its agent still extracts.  Each   *)
(* dispatch (an engine and a rule) has its own channel, its own agent      *)
(* goroutine and its own PushData handler, but all share the job id.       *)
(***************************************************************************)
EXTENDS Integers, Sequences

CONSTANTS
  Engines,    \* calls of ExecuteSync for the job
  Rules,      \* rules of the job's schema, executed in order
  N,          \* batches with rows a complete extraction sends
  Cap,        \* capacity of a data channel                (100 in the code)
  Nobody      \* no entry in the registry

ASSUME RemoteAssumption ==
  /\ Rules \in Nat \ {0} /\ N \in Nat /\ Cap \in Nat \ {0}
  /\ Nobody \notin Engines \X (1..Rules)

Dispatches == Engines \X (1..Rules)

(* A batch names its stream and its place in it; place 0 is the header,    *)
(* which has no rows.                                                      *)
Batches == Dispatches \X (0..N)
Rows(d) == {<<d, k>> : k \in 1..N}

VARIABLES
  engine,     \* "idle", "ready", "registered", "listening", "loading", "returning", "done"
  rule,       \* the rule an engine is at
  batch,      \* the batch it has taken from its channel and loads
  registry,   \* AgentManager.jobs[jobID]: whose channel, or Nobody
  chan,       \* contents of each channel
  closed,     \* channels that were closed
  agent,      \* the agent's goroutine for a dispatch
  produced,   \* batches it has sent, header included
  push,       \* the PushData handler at the other end
  received,   \* batches it has received
  dest,       \* the channel it has looked up
  target,     \* batches loaded by the listener of a dispatch
  finished,   \* dispatches whose listener took the rule for finished
  panicked,   \* a handler panicked: the server is gone
  overlapped  \* history: the job id was shared by two engines or streams

engineVars == <<engine, rule, batch, target, finished>>
agentVars  == <<agent, produced>>
pushVars   == <<push, received, dest>>
vars == <<engineVars, registry, chan, closed, agentVars, pushVars, panicked,
          overlapped>>

Current(e) == <<e, rule[e]>>

(* A stream is live from the command until its handler has returned.       *)
Live(d)      == agent[d] \notin {"none", "refused"} /\ push[d] # "done"
Unfinished(e) == engine[e] \notin {"idle", "done"}

-----------------------------------------------------------------------------
(* The engine. *)

StartEngine(e) ==
  /\ ~panicked /\ engine[e] = "idle"
  /\ engine' = [engine EXCEPT ![e] = "ready"]
  /\ overlapped' = (overlapped \/ \E f \in Engines : Unfinished(f))
  /\ UNCHANGED <<rule, batch, target, finished, registry, chan, closed, agentVars,
                 pushVars, panicked>>

(* DispatchSync: the channel is entered in the registry ...                *)
Register(e) ==
  /\ ~panicked /\ engine[e] = "ready"
  /\ registry' = Current(e)
  /\ engine' = [engine EXCEPT ![e] = "registered"]
  /\ overlapped' = (overlapped \/ \E d \in Dispatches : Live(d))
  /\ UNCHANGED <<rule, batch, target, finished, chan, closed, agentVars, pushVars,
                 panicked>>

(* ... and the command is sent.                                            *)
Send(e) ==
  /\ ~panicked /\ engine[e] = "registered"
  /\ agent' = [agent EXCEPT ![Current(e)] = "commanded"]
  /\ engine' = [engine EXCEPT ![e] = "listening"]
  /\ UNCHANGED <<rule, batch, target, finished, registry, chan, closed, produced,
                 pushVars, panicked, overlapped>>

(* The agent is not connected, or sending fails after the registration.    *)
DispatchFails(e) ==
  /\ ~panicked /\ engine[e] \in {"ready", "registered"}
  /\ engine' = [engine EXCEPT ![e] = "returning"]
  /\ UNCHANGED <<rule, batch, target, finished, registry, chan, closed, agentVars,
                 pushVars, panicked, overlapped>>

HasRows(b) == b[2] # 0

(* batch, ok := <-dataCh: a batch without rows is not loaded.              *)
Receive(e) ==
  LET ch == chan[Current(e)] IN
  /\ ~panicked /\ engine[e] = "listening"
  /\ ch # <<>>
  /\ chan' = [chan EXCEPT ![Current(e)] = Tail(ch)]
  /\ IF HasRows(Head(ch))
     THEN /\ engine' = [engine EXCEPT ![e] = "loading"]
          /\ batch' = [batch EXCEPT ![e] = Head(ch)]
     ELSE UNCHANGED <<engine, batch>>
  /\ UNCHANGED <<rule, target, finished, registry, closed, agentVars, pushVars,
                 panicked, overlapped>>

Loaded(e) == [target EXCEPT ![Current(e)] = @ \union {batch[e]}]

(* StreamLoad returns.                                                     *)
LoadBatch(e) ==
  /\ ~panicked /\ engine[e] = "loading"
  /\ target' = Loaded(e)
  /\ engine' = [engine EXCEPT ![e] = "listening"]
  /\ batch' = [batch EXCEPT ![e] = Nobody]
  /\ UNCHANGED <<rule, finished, registry, chan, closed, agentVars, pushVars,
                 panicked, overlapped>>

(* The driver reports an error; the batch may have been committed.         *)
LoadFails(e) ==
  /\ ~panicked /\ engine[e] = "loading"
  /\ target' \in {target, Loaded(e)}
  /\ engine' = [engine EXCEPT ![e] = "returning"]
  /\ batch' = [batch EXCEPT ![e] = Nobody]
  /\ UNCHANGED <<rule, finished, registry, chan, closed, agentVars, pushVars,
                 panicked, overlapped>>

FinishEarly(e) ==
  /\ ~panicked /\ engine[e] = "listening"
  /\ Current(e) \in closed
  /\ finished' = finished \union {Current(e)}
  /\ IF rule[e] < Rules
     THEN /\ rule' = [rule EXCEPT ![e] = @ + 1]
          /\ engine' = [engine EXCEPT ![e] = "ready"]
     ELSE /\ engine' = [engine EXCEPT ![e] = "returning"]
          /\ UNCHANGED rule
  /\ UNCHANGED <<batch, target, registry, chan, closed, agentVars, pushVars, panicked,
                 overlapped>>
(* batch, ok := <-dataCh with !ok: closed and drained. *)
FinishRule(e) ==
  /\ ~panicked /\ engine[e] = "listening"
  /\ Current(e) \in closed /\ chan[Current(e)] = <<>>
  /\ finished' = finished \union {Current(e)}
  /\ IF rule[e] < Rules
     THEN /\ rule' = [rule EXCEPT ![e] = @ + 1]
          /\ engine' = [engine EXCEPT ![e] = "ready"]
     ELSE /\ engine' = [engine EXCEPT ![e] = "returning"]
          /\ UNCHANGED rule
  /\ UNCHANGED <<batch, target, registry, chan, closed, agentVars, pushVars, panicked,
                 overlapped>>

(* The deferred CleanupJob deletes the entry of the job id, whoever made it. *)
Return(e) ==
  /\ ~panicked /\ engine[e] = "returning"
  /\ registry' = Nobody
  /\ engine' = [engine EXCEPT ![e] = "done"]
  /\ UNCHANGED <<rule, batch, target, finished, chan, closed, agentVars, pushVars,
                 panicked, overlapped>>

-----------------------------------------------------------------------------
(* The agent: handleSyncJob, one goroutine per START_SYNC.                 *)

AgentOpens(d) ==
  /\ ~panicked /\ agent[d] = "commanded"
  /\ agent' = [agent EXCEPT ![d] = "streaming"]
  /\ produced' = [produced EXCEPT ![d] = 1]
  /\ push' = [push EXCEPT ![d] = "recv"]
  /\ UNCHANGED <<engineVars, registry, chan, closed, received, dest, panicked,
                 overlapped>>

(* Bad payload, unknown driver, or the stream does not open: it returns    *)
(* without a word to the master.  So does a session that broke first.      *)
AgentRefuses(d) ==
  /\ ~panicked /\ agent[d] = "commanded"
  /\ agent' = [agent EXCEPT ![d] = "refused"]
  /\ UNCHANGED <<engineVars, registry, chan, closed, produced, pushVars,
                 panicked, overlapped>>

AgentSends(d) ==
  /\ ~panicked /\ agent[d] = "streaming"
  /\ produced[d] <= N
  /\ produced' = [produced EXCEPT ![d] = @ + 1]
  /\ UNCHANGED <<engineVars, registry, chan, closed, agent, pushVars, panicked,
                 overlapped>>

(* CloseAndRecv follows the extraction, complete or not: its error is only *)
(* logged, so the master sees the same end of stream.                      *)
AgentCloses(d) ==
  /\ ~panicked /\ agent[d] = "streaming"
  /\ agent' = [agent EXCEPT ![d] = "eof"]
  /\ UNCHANGED <<engineVars, registry, chan, closed, produced, pushVars,
                 panicked, overlapped>>

ConnectionLost(d) ==
  /\ ~panicked /\ agent[d] \in {"streaming", "eof"}
  /\ push[d] # "done"
  /\ agent' = [agent EXCEPT ![d] = "broken"]
  /\ UNCHANGED <<engineVars, registry, chan, closed, produced, pushVars,
                 panicked, overlapped>>

-----------------------------------------------------------------------------
(* The master: PushData, one goroutine per stream.                         *)

Step(d, p) == push' = [push EXCEPT ![d] = p]

PushRecv(d) ==
  /\ ~panicked /\ push[d] = "recv"
  /\ received[d] < produced[d]
  /\ received' = [received EXCEPT ![d] = @ + 1]
  /\ dest' = [dest EXCEPT ![d] = registry]
  /\ IF registry = Nobody THEN UNCHANGED push      \* the batch is dropped
                          ELSE Step(d, "sending")
  /\ UNCHANGED <<engineVars, registry, chan, closed, agentVars, panicked,
                 overlapped>>

PushSendDropping(d) ==
  /\ ~panicked /\ push[d] = "sending"
  /\ dest[d] \notin closed
  /\ IF Len(chan[dest[d]]) < Cap
     THEN chan' = [chan EXCEPT ![dest[d]] = Append(@, <<d, received[d] - 1>>)]
     ELSE UNCHANGED chan
  /\ Step(d, "recv")
  /\ UNCHANGED <<engineVars, registry, closed, agentVars, received, dest,
                 panicked, overlapped>>
PushSendUnbounded(d) ==
  /\ ~panicked /\ push[d] = "sending"
  /\ dest[d] \notin closed
  /\ chan' = [chan EXCEPT ![dest[d]] = Append(@, <<d, received[d] - 1>>)]
  /\ Step(d, "recv")
  /\ UNCHANGED <<engineVars, registry, closed, agentVars, received, dest,
                 panicked, overlapped>>
(* ch <- batch: blocks while the channel is full, panics when it is closed. *)
PushSend(d) ==
  /\ ~panicked /\ push[d] = "sending"
  /\ dest[d] \notin closed
  /\ Len(chan[dest[d]]) < Cap
  /\ chan' = [chan EXCEPT ![dest[d]] = Append(@, <<d, received[d] - 1>>)]
  /\ Step(d, "recv")
  /\ UNCHANGED <<engineVars, registry, closed, agentVars, received, dest,
                 panicked, overlapped>>

PushEndForgettingChannel(d) ==
  /\ ~panicked /\ push[d] = "recv"
  /\ agent[d] = "eof" /\ received[d] = produced[d]
  /\ Step(d, "done")
  /\ UNCHANGED <<engineVars, registry, chan, closed, agentVars, received, dest,
                 panicked, overlapped>>
PushEnd(d) ==
  /\ ~panicked /\ push[d] = "recv"
  /\ agent[d] = "eof" /\ received[d] = produced[d]
  /\ dest' = [dest EXCEPT ![d] = registry]
  /\ Step(d, IF received[d] = 0 \/ registry = Nobody THEN "done" ELSE "closing")
  /\ UNCHANGED <<engineVars, registry, chan, closed, agentVars, received,
                 panicked, overlapped>>

PushCloseKeepsReading(d) ==
  /\ ~panicked /\ push[d] = "closing"
  /\ dest[d] \notin closed
  /\ closed' = closed \union {dest[d]}
  /\ Step(d, "recv")
  /\ UNCHANGED <<engineVars, registry, chan, agentVars, received, dest,
                 panicked, overlapped>>
PushClose(d) ==
  /\ ~panicked /\ push[d] = "closing"
  /\ dest[d] \notin closed
  /\ closed' = closed \union {dest[d]}
  /\ Step(d, "done")
  /\ UNCHANGED <<engineVars, registry, chan, agentVars, received, dest,
                 panicked, overlapped>>

(* Recv returns an error: the handler returns and closes nothing.          *)
PushBreaks(d) ==
  /\ ~panicked /\ push[d] = "recv"
  /\ agent[d] = "broken"
  /\ Step(d, "done")
  /\ UNCHANGED <<engineVars, registry, chan, closed, agentVars, received, dest,
                 panicked, overlapped>>

(* Sending on, or closing, a closed channel ends the process.              *)
PushPanics(d) ==
  /\ ~panicked /\ push[d] \in {"sending", "closing"}
  /\ dest[d] \in closed
  /\ panicked' = TRUE
  /\ UNCHANGED <<engineVars, registry, chan, closed, agentVars, pushVars,
                 overlapped>>

-----------------------------------------------------------------------------
Init ==
  /\ engine = [e \in Engines |-> "idle"]
  /\ rule = [e \in Engines |-> 1]
  /\ batch = [e \in Engines |-> Nobody]
  /\ registry = Nobody
  /\ chan = [d \in Dispatches |-> <<>>]
  /\ closed = {}
  /\ agent = [d \in Dispatches |-> "none"]
  /\ produced = [d \in Dispatches |-> 0]
  /\ push = [d \in Dispatches |-> "none"]
  /\ received = [d \in Dispatches |-> 0]
  /\ dest = [d \in Dispatches |-> Nobody]
  /\ target = [d \in Dispatches |-> {}]
  /\ finished = {}
  /\ panicked = FALSE
  /\ overlapped = FALSE

DispatchSync(e) == Register(e) \/ Send(e) \/ DispatchFails(e)
ListenStep(e) == Receive(e) \/ LoadBatch(e) \/ LoadFails(e) \/ FinishRule(e)
EngineStep(e) == DispatchSync(e) \/ ListenStep(e) \/ Return(e)
AgentStep(d)  == AgentOpens(d) \/ AgentRefuses(d) \/ AgentSends(d) \/ AgentCloses(d)
PushStep(d)   == \/ PushRecv(d) \/ PushSend(d) \/ PushEnd(d) \/ PushClose(d)
                 \/ PushBreaks(d) \/ PushPanics(d)

Next ==
  \/ \E e \in Engines : StartEngine(e) \/ EngineStep(e)
  \/ \E d \in Dispatches : AgentStep(d) \/ ConnectionLost(d) \/ PushStep(d)

Spec == Init /\ [][Next]_vars

(* Goroutines are scheduled, driver calls return, and a batch in transit   *)
(* arrives; connections need not break, jobs need not be started.          *)
FairSpec ==
  /\ Spec
  /\ \A e \in Engines : WF_vars(EngineStep(e))
  /\ \A d \in Dispatches : /\ WF_vars(AgentStep(d))
                           /\ WF_vars(PushStep(d))

-----------------------------------------------------------------------------
TypeOK ==
  /\ engine \in [Engines -> {"idle", "ready", "registered", "listening", "loading",
                              "returning", "done"}]
  /\ rule \in [Engines -> 1..Rules]
  /\ batch \in [Engines -> Batches \union {Nobody}]
  /\ \A e \in Engines : engine[e] = "loading" => batch[e] \in Batches
  /\ registry \in Dispatches \union {Nobody}
  /\ chan \in [Dispatches -> Seq(Batches)]
  /\ \A d \in Dispatches : Len(chan[d]) <= Cap
  /\ closed \subseteq Dispatches /\ finished \subseteq Dispatches
  /\ agent \in [Dispatches -> {"none", "commanded", "streaming", "eof",
                               "broken", "refused"}]
  /\ produced \in [Dispatches -> 0..(N + 1)]
  /\ push \in [Dispatches -> {"none", "recv", "sending", "closing", "done"}]
  /\ received \in [Dispatches -> 0..(N + 1)]
  /\ dest \in [Dispatches -> Dispatches \union {Nobody}]
  /\ target \in [Dispatches -> SUBSET Batches]
  /\ panicked \in BOOLEAN /\ overlapped \in BOOLEAN

(* As long as one engine and one stream at a time use the job id, no       *)
(* handler sends on or closes a closed channel (agent_grpc.go:110, 127).   *)
AloneNoPanic == ~overlapped => ~panicked

(* Under the same condition a rule loads what its own agent extracted and  *)
(* nothing else (agent_grpc.go:119-127).                                   *)
AloneNoMixing == ~overlapped => \A d \in Dispatches : target[d] \subseteq Rows(d)

(* Under the same condition a rule that finished has loaded every batch    *)
(* its agent sent before it closed the stream (engine.go:327-365).         *)
AloneFinishedLoaded ==
  ~overlapped => \A d \in finished : target[d] = {<<d, k>> : k \in 1..produced[d] - 1}

(* Under the same condition no batch is loaded twice: none that the        *)
(* listener has in hand or that waits for it is in the target already or   *)
(* waits there a second time (agent_grpc.go:105-127, engine.go:327-356).   *)
Listening(e) == engine[e] \in {"listening", "loading"}
InHand(e) == IF engine[e] = "loading" THEN <<batch[e]>> ELSE <<>>
AloneLoadsOnce ==
  ~overlapped => \A e \in Engines : Listening(e) =>
    LET waiting == InHand(e) \o chan[Current(e)] IN
    \A i \in 1..Len(waiting) :
      /\ waiting[i] \notin target[Current(e)]
      /\ \A j \in 1..Len(waiting) : waiting[i] = waiting[j] => i = j

(* Under the same condition each dispatch keeps the promise of Transfer,   *)
(* as the local pipeline does: only its own batches reach the target,      *)
(* success means all of them did, and nothing is loaded after the engine   *)
(* has given up, while the agent goes on sending (engine.go:297-366).      *)
Verdict(d) ==
  IF d \in finished THEN "ok"
  ELSE IF rule[d[1]] = d[2] /\ engine[d[1]] \in {"returning", "done"} THEN "failed"
  ELSE "running"
Promise(d) == INSTANCE Transfer WITH
  Chunks  <- Rows(d),
  handed  <- {<<d, k>> : k \in 1..produced[d] - 1},
  loaded  <- target[d],
  verdict <- Verdict(d)
AloneKeepsPromise ==
  [][~overlapped' => \A d \in Dispatches : Promise(d)!Next \/ UNCHANGED Promise(d)!vars]_vars

(* A listener does not wait for ever, unless its stream was refused or     *)
(* broke, or somebody else used the job id: nothing else is needed to      *)
(* drain and close the channel (engine.go:326-362).                        *)
ListenerReleased ==
  \A e \in Engines, r \in 1..Rules :
    Listening(e) /\ rule[e] = r ~>
      \/ ~Listening(e) \/ rule[e] # r
      \/ agent[<<e, r>>] \in {"refused", "broken"}
      \/ overlapped

(***************************************************************************)
(* What the code says and the program does not do.                         *)
(***************************************************************************)

(* engine.go:333 "Channel closed - agent finished sending batches": a rule *)
(* is finished only after its agent has sent all there is.                 *)
ClosedMeansFinished == \A d \in finished : produced[d] = N + 1

(* agent_grpc.go:120 "Route the batch to the correct active job channel":  *)
(* no listener loads a batch of another dispatch.                          *)
RoutedCorrectly == \A d \in Dispatches : target[d] \subseteq Rows(d)
=============================================================================
