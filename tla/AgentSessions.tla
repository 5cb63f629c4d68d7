---------------------------- MODULE AgentSessions ----------------------------
(***************************************************************************)
(* The sessions of one node: the agent's streams to the master, the entry  *)
(* of the node in the AgentManager, the row of the node in M_NODE with the *)
(* heartbeats and the cleaner that keep its status, and the connection     *)
(* tests that are sent to the agent.  Nodes do not interact.               *)
(*                                                                         *)
(* Time passes in ticks of some seconds.                                   *)
(***************************************************************************)
EXTENDS Naturals

CONSTANTS Sessions,   \* streams, used again when both ends are done with them
          Tests,      \* requests to test a connection
          Period,     \* between two heartbeats of an agent
          Delay,      \* how long a heartbeat may take from the agent to the row
          Threshold,  \* of the cleaner
          None

ASSUME AgentAssumption ==
  /\ Period \in Nat \ {0} /\ Delay \in Nat /\ Threshold \in Nat
  /\ None \notin Sessions

(* A heartbeat is sent every 8 s, the cleaner waits for 20 s: it holds as  *)
(* long as a heartbeat is stored within 12 s.                              *)
HeartbeatsInTime == Period + Delay =< Threshold

VARIABLES
  client, server,  \* the two ends of a stream: "no", "open" (a handshake was sent), "gone"; "no", "serving"
  next, beats,     \* ticks until the agent sends a heartbeat; the ages of those under way
  agents,          \* the manager's entry of the node: a session or None
  row,             \* M_NODE has the node
  status, age,     \* its status; ticks since last_seen
  test, target,    \* where a request is; the session it was sent to
  tests,           \* the manager's map from a test to its channel: its domain
  order, respCh,   \* the command: "no", "sent", "running" at the agent, "done"; an answer is in the channel
  heard            \* history: the last heartbeat of the session was stored

streams == <<client, server, next, beats>>
node == <<row, status, age>>
checks == <<test, target, tests, order, respCh>>
vars == <<streams, agents, node, checks, heard>>

Expired == Threshold + 1   \* age is not counted further
TestStates == {"idle", "found", "listed", "waiting", "answered", "failed"}

Init ==
  /\ client = [s \in Sessions |-> "no"] /\ server = [s \in Sessions |-> "no"]
  /\ next = [s \in Sessions |-> Period] /\ beats = [s \in Sessions |-> {}]
  /\ agents = None
  /\ row \in BOOLEAN /\ status = "offline" /\ age \in IF row THEN 0..Expired ELSE {Expired}
  /\ test = [x \in Tests |-> "idle"] /\ target = [x \in Tests |-> None] /\ tests = {}
  /\ order = [x \in Tests |-> "no"] /\ respCh = [x \in Tests |-> FALSE]
  /\ heard = [s \in Sessions |-> FALSE]

-----------------------------------------------------------------------------
(* The agent.                                                              *)

(* runSession: opens a stream and sends the handshake.                     *)
Connect(s) ==
  /\ client[s] # "open" /\ server[s] = "no"
  /\ client' = [client EXCEPT ![s] = "open"]
  /\ next' = [next EXCEPT ![s] = Period] /\ beats' = [beats EXCEPT ![s] = {}]
  /\ UNCHANGED <<server, agents, node, checks, heard>>

Beat(s) ==
  /\ client[s] = "open" /\ next[s] = 0
  /\ next' = [next EXCEPT ![s] = Period]
  /\ beats' = [beats EXCEPT ![s] = @ \cup {0}]
  /\ UNCHANGED <<client, server, agents, node, checks, heard>>

(* The connection of the agent ends, or the agent (dead) does.  A command  *)
(* on the stream is lost; one that runs outlives the stream.               *)
Cut(s) ==
  /\ client[s] = "open"
  /\ client' = [client EXCEPT ![s] = "gone"]
  /\ \E dead \in BOOLEAN :
       order' = [x \in Tests |-> IF target[x] = s /\ (order[x] = "sent" \/ (dead /\ order[x] = "running"))
                                 THEN "no" ELSE order[x]]
  /\ UNCHANGED <<server, next, beats, agents, node, test, target, tests, respCh, heard>>

Command(x) ==
  /\ order[x] = "sent"
  /\ order' = [order EXCEPT ![x] = "running"]
  /\ UNCHANGED <<streams, agents, node, test, target, tests, respCh, heard>>

(* handleTestConnection ends and reports: ResolveTestResult takes the      *)
(* channel out of the map and sends the result.                            *)
Report(x) ==
  /\ order[x] = "running"
  /\ order' = [order EXCEPT ![x] = "done"]
  /\ tests' = tests \ {x}
  /\ respCh' = [respCh EXCEPT ![x] = x \in tests]
  /\ UNCHANGED <<streams, agents, node, test, target, heard>>

(* The call fails, which is logged.                                        *)
ReportLost(x) ==
  /\ order[x] = "running"
  /\ order' = [order EXCEPT ![x] = "no"]
  /\ UNCHANGED <<streams, agents, node, test, target, tests, respCh, heard>>

-----------------------------------------------------------------------------
(* The master's handler Session.                                           *)

(* The handshake is accepted, a node that is not known is inserted, and    *)
(* Register replaces the entry of the node.                                *)
Accept(s) ==
  /\ client[s] = "open" /\ server[s] = "no"
  /\ server' = [server EXCEPT ![s] = "serving"]
  /\ agents' = s
  /\ row' = TRUE
  /\ IF row THEN UNCHANGED <<status, age>> ELSE status' = "online" /\ age' = 0
  /\ heard' = [heard EXCEPT ![s] = FALSE]
  /\ UNCHANGED <<client, next, beats, checks>>

(* The database or the token refuses it.                                   *)
Reject(s) ==
  /\ client[s] = "open" /\ server[s] = "no"
  /\ client' = [client EXCEPT ![s] = "gone"]
  /\ UNCHANGED <<server, next, beats, agents, node, checks, heard>>

Oldest(b, ages) == \A a \in ages : a =< b

(* UPDATE M_NODE SET status, last_seen = NOW(): of a row that may be gone. *)
Store(s) ==
  /\ IF row THEN status' = "online" /\ age' = 0 ELSE UNCHANGED <<status, age>>
  /\ heard' = [heard EXCEPT ![s] = row]

(* Recv returns a heartbeat; the update may fail, which is logged.         *)
Heartbeat(s) ==
  /\ server[s] = "serving"
  /\ \E b \in beats[s] :
       /\ Oldest(b, beats[s])
       /\ beats' = [beats EXCEPT ![s] = @ \ {b}]
       /\ \/ Store(s)
          \/ heard' = [heard EXCEPT ![s] = FALSE] /\ UNCHANGED <<status, age>>
  /\ UNCHANGED <<client, server, next, agents, row, checks>>

(* Variant: Unregister is not deferred. *)
SessionEndsRegistered(s) ==
  /\ server[s] = "serving" /\ client[s] = "gone"
  /\ server' = [server EXCEPT ![s] = "no"]
  /\ UNCHANGED <<client, next, beats, agents, node, checks, heard>>

(* Recv returns an error, or EOF: the deferred Unregister deletes the      *)
(* entry of the node, whichever session it is.                             *)
SessionEnds(s) ==
  /\ server[s] = "serving" /\ client[s] = "gone"
  /\ server' = [server EXCEPT ![s] = "no"]
  /\ agents' = None
  /\ UNCHANGED <<client, next, beats, node, checks, heard>>

(* The master's process ends and starts again.                             *)
Restart ==
  /\ client' = [s \in Sessions |-> IF client[s] = "open" THEN "gone" ELSE client[s]]
  /\ server' = [s \in Sessions |-> "no"] /\ agents' = None
  /\ test' = [x \in Tests |-> IF test[x] \in {"found", "listed", "waiting"} THEN "failed" ELSE test[x]]
  /\ tests' = {}
  /\ order' = [x \in Tests |-> IF order[x] = "sent" THEN "no" ELSE order[x]]
  /\ UNCHANGED <<next, beats, node, target, respCh, heard>>

-----------------------------------------------------------------------------
(* The row: the handlers of nodes.go, and the cleaner.                     *)
(* The status and age of a row that is not there mean nothing.             *)

(* The row is inserted offline; last_seen has its default, NOW().          *)
CreateNode ==
  /\ ~row /\ row' = TRUE
  /\ status' = "offline" /\ age' = 0
  /\ UNCHANGED <<streams, agents, checks, heard>>

DeleteNode ==
  /\ row /\ row' = FALSE
  /\ status' = "offline" /\ age' = Expired
  /\ heard' = [s \in Sessions |-> FALSE]
  /\ UNCHANGED <<streams, agents, checks>>

(* UpdateNode may give the node another code, or this code to another row. *)
UpdateNode ==
  /\ row' = ~row
  /\ IF row THEN status' = "offline" /\ age' = Expired /\ heard' = [s \in Sessions |-> FALSE]
     ELSE status' \in {"online", "offline"} /\ age' \in 0..Expired /\ heard' = heard
  /\ UNCHANGED <<streams, agents, checks>>

(* Variant: the threshold is the period of the cleaner. *)
StaleSooner == age >= Threshold

Stale == age > Threshold   \* last_seen < NOW() - INTERVAL '20 seconds'

(* Variant: a node that the manager knows is spared. *)
CleanUnregistered ==
  /\ row /\ agents = None /\ status # "offline" /\ Stale
  /\ status' = "offline"
  /\ UNCHANGED <<row, age, streams, agents, checks, heard>>

Clean ==
  /\ row /\ status # "offline" /\ Stale
  /\ status' = "offline"
  /\ UNCHANGED <<row, age, streams, agents, checks, heard>>

-----------------------------------------------------------------------------
(* TestConnectionAdhoc on a distributed node.  A request is made again     *)
(* under a new test id, when nothing is left of the old one.               *)

(* Variant: the command is sent without an entry. *)
AskAnyway(x) ==
  /\ test[x] \notin {"found", "listed", "waiting"} /\ order[x] \notin {"sent", "running"} /\ x \notin tests
  /\ target' = [target EXCEPT ![x] = agents]
  /\ test' = [test EXCEPT ![x] = "found"]
  /\ order' = [order EXCEPT ![x] = "no"] /\ respCh' = [respCh EXCEPT ![x] = FALSE]
  /\ UNCHANGED <<streams, agents, node, tests, heard>>

(* DispatchTestConnection: GetAgent.                                       *)
Ask(x) ==
  /\ test[x] \notin {"found", "listed", "waiting"} /\ order[x] \notin {"sent", "running"} /\ x \notin tests
  /\ target' = [target EXCEPT ![x] = agents]
  /\ test' = [test EXCEPT ![x] = IF agents = None THEN "failed" ELSE "found"]
  /\ order' = [order EXCEPT ![x] = "no"] /\ respCh' = [respCh EXCEPT ![x] = FALSE]
  /\ UNCHANGED <<streams, agents, node, tests, heard>>

List(x) ==
  /\ test[x] = "found"
  /\ test' = [test EXCEPT ![x] = "listed"]
  /\ tests' = tests \cup {x}
  /\ UNCHANGED <<streams, agents, node, target, order, respCh, heard>>

(* Send to a stream whose handler has ended fails: the entry of the node   *)
(* and that of the test are deleted.                                       *)
SendFails(x) ==
  /\ server[target[x]] = "no"
  /\ test' = [test EXCEPT ![x] = "failed"]
  /\ tests' = tests \ {x} /\ agents' = None
  /\ UNCHANGED order

Sent(x) ==
  /\ server[target[x]] = "serving"
  /\ test' = [test EXCEPT ![x] = "waiting"] /\ order' = [order EXCEPT ![x] = "sent"]
  /\ UNCHANGED <<agents, tests>>

(* Variant: the channel is put into the map after the command is sent. *)
SendUnlisted(x) ==
  /\ \/ test[x] = "found" /\ server[target[x]] = "serving"
        /\ order[x] = "no" /\ order' = [order EXCEPT ![x] = "sent"] /\ UNCHANGED <<test, agents, tests>>
     \/ test[x] = "listed" /\ test' = [test EXCEPT ![x] = "waiting"] /\ UNCHANGED <<order, agents, tests>>
  /\ UNCHANGED <<streams, node, target, respCh, heard>>

Send(x) ==
  /\ test[x] = "listed"
  /\ SendFails(x) \/ Sent(x)
  /\ UNCHANGED <<streams, node, target, respCh, heard>>

Receive(x) ==
  /\ test[x] = "waiting" /\ respCh[x]
  /\ test' = [test EXCEPT ![x] = "answered"] /\ respCh' = [respCh EXCEPT ![x] = FALSE]
  /\ UNCHANGED <<streams, agents, node, target, tests, order, heard>>

(* After 15 seconds; nobody deletes the entry of the test.                 *)
GiveUp(x) ==
  /\ test[x] = "waiting"
  /\ test' = [test EXCEPT ![x] = "failed"]
  /\ UNCHANGED <<streams, agents, node, target, tests, order, respCh, heard>>

-----------------------------------------------------------------------------
(* A heartbeat is sent when it is due, and is stored, while both ends of   *)
(* its stream are there, within Delay.                                     *)
Tick ==
  /\ \A s \in Sessions : client[s] = "open" => next[s] > 0 /\ (server[s] = "serving" => Delay \notin beats[s])
  /\ next' = [s \in Sessions |-> IF client[s] = "open" THEN next[s] - 1 ELSE next[s]]
  /\ beats' = [s \in Sessions |-> {IF a < Delay THEN a + 1 ELSE a : a \in beats[s]}]
  /\ age' = IF age = Expired THEN age ELSE age + 1
  /\ UNCHANGED <<client, server, agents, row, status, checks, heard>>

Next ==
  \/ Tick \/ Clean \/ Restart \/ CreateNode \/ DeleteNode \/ UpdateNode
  \/ \E s \in Sessions :
       Connect(s) \/ Beat(s) \/ Cut(s) \/ Accept(s) \/ Reject(s) \/ Heartbeat(s) \/ SessionEnds(s)
  \/ \E x \in Tests :
       Command(x) \/ Report(x) \/ ReportLost(x) \/ Ask(x) \/ List(x) \/ Send(x) \/ Receive(x) \/ GiveUp(x)

(* Time passes, and the cleaner's ticker runs for ever.                    *)
Spec == Init /\ [][Next]_vars
FairSpec == Spec /\ WF_vars(Tick) /\ WF_vars(Clean)

-----------------------------------------------------------------------------
TypeOK ==
  /\ client \in [Sessions -> {"no", "open", "gone"}] /\ server \in [Sessions -> {"no", "serving"}]
  /\ next \in [Sessions -> 0..Period] /\ beats \in [Sessions -> SUBSET (0..Delay)]
  /\ agents \in Sessions \cup {None}
  /\ row \in BOOLEAN /\ status \in {"online", "offline"} /\ age \in 0..Expired
  /\ test \in [Tests -> TestStates] /\ target \in [Tests -> Sessions \cup {None}]
  /\ tests \subseteq Tests
  /\ order \in [Tests -> {"no", "sent", "running", "done"}] /\ respCh \in [Tests -> BOOLEAN]
  /\ heard \in [Sessions -> BOOLEAN]
  /\ \A x \in Tests : test[x] \in {"found", "listed", "waiting"} => target[x] # None

(* A command is never sent to a stream whose handler has returned because  *)
(* the manager still knows it: whoever ends last, and whether it is the    *)
(* handler or a failed Send that unregisters, the entry is of a session    *)
(* that is served.                                                         *)
EntryIsServed == agents # None => server[agents] = "serving"

(* The cleaner never marks a node offline under an agent whose heartbeats  *)
(* are late by no more than Delay, across reconnections, sessions that     *)
(* overlap and restarts of the master.                                     *)
LiveIsOnline ==
  \A s \in Sessions : client[s] = "open" /\ server[s] = "serving" /\ heard[s] => row /\ status = "online"

(* An answer that the agent gives while the handler waits reaches it: it   *)
(* cannot overtake the registration of its channel.                        *)
AnswerHeard == \A x \in Tests : test[x] \in {"listed", "waiting"} /\ order[x] = "done" => respCh[x]

(* A node is not shown online for ever when all its agents are gone, even  *)
(* if the master never learns that their streams have ended.               *)
GoneIsOffline ==
  row /\ (\A s \in Sessions : client[s] # "open")
    ~> ~row \/ status = "offline" \/ (\E s \in Sessions : client[s] = "open")
=============================================================================
