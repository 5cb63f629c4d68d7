------------------------- MODULE AgentSessionsProofs -------------------------
(* Proofs about AgentSessions for any number of sessions and tests and any *)
(* period, delay and threshold.  That a live node stays online needs       *)
(* HeartbeatsInTime.                                                       *)
EXTENDS AgentSessions, TLAPS

Types ==
  /\ client \in [Sessions -> {"no", "open", "gone"}] /\ server \in [Sessions -> {"no", "serving"}]
  /\ next \in [Sessions -> 0..Period] /\ beats \in [Sessions -> SUBSET (0..Delay)]
  /\ agents \in Sessions \cup {None}
  /\ row \in BOOLEAN /\ status \in {"online", "offline"} /\ age \in 0..Expired
  /\ heard \in [Sessions -> BOOLEAN]

TestTypes ==
  /\ test \in [Tests -> TestStates] /\ target \in [Tests -> Sessions \cup {None}]
  /\ tests \subseteq Tests
  /\ order \in [Tests -> {"no", "sent", "running", "done"}] /\ respCh \in [Tests -> BOOLEAN]

Live(s) == client[s] = "open" /\ server[s] = "serving" /\ heard[s] = TRUE

(* The row is no older than the time since the heartbeat before the oldest *)
(* one under way, or since the last one, was sent.                         *)
Fresh(s) ==
  Live(s) => /\ row = TRUE /\ age \in Nat
             /\ HeartbeatsInTime => status = "online"
             /\ beats[s] = {} => age + next[s] =< Period
             /\ beats[s] # {} => \E b \in beats[s] : age =< Period + b

(* Before the command is sent nobody works on it; until the agent reports, *)
(* the channel is in the map; then the answer is in the channel.           *)
TestOK(x) ==
  /\ test[x] \in {"found", "listed", "waiting"} => target[x] # None
  /\ test[x] \in {"found", "listed"} => order[x] = "no"
  /\ test[x] = "listed" => x \in tests
  /\ test[x] = "waiting" => IF order[x] = "done" THEN respCh[x] = TRUE ELSE x \in tests

RowInv == Types /\ EntryIsServed /\ \A s \in Sessions : Fresh(s)
TestInv == TestTypes /\ \A x \in Tests : TestOK(x)
IndInv == RowInv /\ TestInv

(* The invariant holds initially.                                          *)
LEMMA InitInv == Init => IndInv
<1> SUFFICES ASSUME Init PROVE IndInv
  OBVIOUS
<1>1. Types
  <2>1. Period \in 0..Period /\ Expired \in 0..Expired /\ age \in 0..Expired
    BY AgentAssumption, SMT DEF Init, Expired
  <2>. QED  BY <2>1, Zenon DEF Init, Types
<1>2. EntryIsServed
  BY DEF Init, EntryIsServed
<1>3. ASSUME NEW s \in Sessions PROVE Fresh(s)
  BY DEF Init, Fresh, Live
<1>4. TestTypes
  BY DEF Init, TestTypes, TestStates
<1>5. ASSUME NEW x \in Tests PROVE TestOK(x)
  BY DEF Init, TestOK
<1>. QED  BY <1>1, <1>2, <1>3, <1>4, <1>5 DEF IndInv, RowInv, TestInv

(* The bound on the age of a row under a live session.                     *)
LEMMA FreshIsYoung ==
  ASSUME RowInv, HeartbeatsInTime, NEW s \in Sessions, Live(s)
  PROVE  row = TRUE /\ status = "online" /\ age \in Nat /\ age =< Threshold
<1>1. Fresh(s) /\ Types
  BY DEF RowInv
<1>2. row = TRUE /\ status = "online" /\ age \in Nat
  BY <1>1 DEF Fresh
<1>3. CASE beats[s] = {}
  <2>1. next[s] \in 0..Period /\ age + next[s] =< Period
    BY <1>1, <1>3, Zenon DEF Fresh, Types
  <2>. QED  BY <1>2, <2>1, AgentAssumption, SMT DEF HeartbeatsInTime
<1>4. CASE beats[s] # {}
  <2>1. PICK b \in beats[s] : age =< Period + b
    BY <1>1, <1>4, Zenon DEF Fresh
  <2>2. b \in 0..Delay
    BY <1>1, <2>1, SMT DEF Types
  <2>. QED  BY <1>2, <2>1, <2>2, AgentAssumption, SMT DEF HeartbeatsInTime
<1>. QED  BY <1>3, <1>4

-----------------------------------------------------------------------------
(* Steps that leave the tests alone, or only cut their commands.           *)
LEMMA ConnectRow == ASSUME RowInv, NEW s \in Sessions, Connect(s) PROVE RowInv'
<1> USE AgentAssumption DEF RowInv, streams, node, checks
<1>1. Types'
  BY SMT DEF Types, Connect
<1>2. EntryIsServed'
  BY SMT DEF Types, EntryIsServed, Connect
<1>3. ASSUME NEW u \in Sessions PROVE Fresh(u)'
  BY <1>3, SMT DEF Types, Fresh, Live, Connect
<1>. QED  BY <1>1, <1>2, <1>3

(* A new heartbeat is the youngest one.                                    *)
LEMMA BeatRow == ASSUME RowInv, NEW s \in Sessions, Beat(s) PROVE RowInv'
<1> USE AgentAssumption DEF RowInv, streams, node, checks
<1>1. Types'
  BY SMT DEF Types, Beat
<1>2. EntryIsServed'
  BY SMT DEF Types, EntryIsServed, Beat
<1>3. ASSUME NEW u \in Sessions PROVE Fresh(u)'
  BY <1>3, SMT DEF Types, Fresh, Live, Beat
<1>. QED  BY <1>1, <1>2, <1>3

(* A cut session is not live.                                              *)
LEMMA CutRow == ASSUME RowInv, NEW s \in Sessions, Cut(s) PROVE RowInv'
<1> USE AgentAssumption DEF RowInv, streams, node, checks
<1>1. Types'
  BY SMT DEF Types, Cut
<1>2. EntryIsServed'
  BY SMT DEF Types, EntryIsServed, Cut
<1>3. ASSUME NEW u \in Sessions PROVE Fresh(u)'
  BY <1>3, SMT DEF Types, Fresh, Live, Cut
<1>. QED  BY <1>1, <1>2, <1>3

(* An accepted session was not heard yet.                                  *)
LEMMA AcceptRow == ASSUME RowInv, NEW s \in Sessions, Accept(s) PROVE RowInv'
<1> USE AgentAssumption DEF RowInv, streams, node, checks
<1>1. Types'
  <2>1. 0 \in 0..Expired
    BY SMT DEF Expired
  <2>. QED  BY <2>1, Zenon DEF Types, Accept
<1>2. EntryIsServed'
  BY SMT DEF Types, EntryIsServed, Accept
<1>3. ASSUME NEW u \in Sessions PROVE Fresh(u)'
  BY <1>3, SMT DEF Types, Fresh, Live, Accept
<1>. QED  BY <1>1, <1>2, <1>3

(* Nor is a rejected one live.                                             *)
LEMMA RejectRow == ASSUME RowInv, NEW s \in Sessions, Reject(s) PROVE RowInv'
<1> USE AgentAssumption DEF RowInv, streams, node, checks
<1>1. Types'
  BY SMT DEF Types, Reject
<1>2. EntryIsServed'
  BY SMT DEF Types, EntryIsServed, Reject
<1>3. ASSUME NEW u \in Sessions PROVE Fresh(u)'
  BY <1>3, SMT DEF Types, Fresh, Live, Reject
<1>. QED  BY <1>1, <1>2, <1>3

(* The entry goes with the handler.                                        *)
LEMMA SessionEndsRow == ASSUME RowInv, NEW s \in Sessions, SessionEnds(s) PROVE RowInv'
<1> USE AgentAssumption DEF RowInv, streams, node, checks
<1>1. Types'
  BY SMT DEF Types, SessionEnds
<1>2. EntryIsServed'
  BY SMT DEF Types, EntryIsServed, SessionEnds
<1>3. ASSUME NEW u \in Sessions PROVE Fresh(u)'
  BY <1>3, SMT DEF Types, Fresh, Live, SessionEnds
<1>. QED  BY <1>1, <1>2, <1>3

(* The stored heartbeat was the oldest under way.                          *)
LEMMA HeartbeatRow == ASSUME RowInv, NEW s \in Sessions, Heartbeat(s) PROVE RowInv'
<1> USE AgentAssumption DEF RowInv, streams, node, checks
<1>1. Types'
  <2>1. 0 \in 0..Expired
    BY SMT DEF Expired
  <2>2. beats' \in [Sessions -> SUBSET (0..Delay)]
    BY SMT DEF Types, Heartbeat
  <2>3. heard' \in [Sessions -> BOOLEAN] /\ age' \in 0..Expired /\ status' \in {"online", "offline"}
    <3>1. /\ heard' \in {[heard EXCEPT ![s] = row], [heard EXCEPT ![s] = FALSE]}
          /\ (status' = "online" /\ age' = 0) \/ (status' = status /\ age' = age)
      BY Zenon DEF Heartbeat, Store
    <3>2. /\ heard \in [Sessions -> BOOLEAN] /\ row \in BOOLEAN
          /\ age \in 0..Expired /\ status \in {"online", "offline"}
      BY Zenon DEF Types
    <3>. QED  BY <2>1, <3>1, <3>2, Zenon
  <2>. QED  BY <2>2, <2>3, Zenon DEF Types, Heartbeat
<1>2. EntryIsServed'
  BY SMT DEF Types, EntryIsServed, Heartbeat
<1>3. ASSUME NEW u \in Sessions PROVE Fresh(u)'
  BY <1>3, SMT DEF Types, Fresh, Live, Heartbeat, Store
<1>. QED  BY <1>1, <1>2, <1>3

(* A restart ends every session.                                           *)
LEMMA RestartRow == ASSUME RowInv, Restart PROVE RowInv'
<1> USE AgentAssumption DEF RowInv, streams, node, checks
<1>1. Types'
  BY SMT DEF Types, Restart
<1>2. EntryIsServed'
  BY SMT DEF Types, EntryIsServed, Restart
<1>3. ASSUME NEW u \in Sessions PROVE Fresh(u)'
  BY <1>3, SMT DEF Types, Fresh, Live, Restart
<1>. QED  BY <1>1, <1>2, <1>3

(* A row that was not there had no live session that was heard.            *)
LEMMA CreateNodeRow == ASSUME RowInv, CreateNode PROVE RowInv'
<1> USE AgentAssumption DEF RowInv, streams, node, checks
<1>1. Types'
  <2>1. 0 \in 0..Expired
    BY SMT DEF Expired
  <2>. QED  BY <2>1, Zenon DEF Types, CreateNode
<1>2. EntryIsServed'
  BY SMT DEF Types, EntryIsServed, CreateNode
<1>3. ASSUME NEW u \in Sessions PROVE Fresh(u)'
  BY <1>3, SMT DEF Types, Fresh, Live, CreateNode
<1>. QED  BY <1>1, <1>2, <1>3

(* What was heard goes with the row.                                       *)
LEMMA DeleteNodeRow == ASSUME RowInv, DeleteNode PROVE RowInv'
<1> USE AgentAssumption DEF RowInv, streams, node, checks
<1>1. Types'
  <2>1. Expired \in 0..Expired
    BY SMT DEF Expired
  <2>. QED  BY <2>1, Zenon DEF Types, DeleteNode
<1>2. EntryIsServed'
  BY SMT DEF Types, EntryIsServed, DeleteNode
<1>3. ASSUME NEW u \in Sessions PROVE Fresh(u)'
  BY <1>3, SMT DEF Types, Fresh, Live, DeleteNode
<1>. QED  BY <1>1, <1>2, <1>3

(* A row that takes the code has no live session that was heard.           *)
LEMMA UpdateNodeRow == ASSUME RowInv, UpdateNode PROVE RowInv'
<1> USE AgentAssumption DEF RowInv, streams, node, checks
<1>1. Types'
  <2>1. CASE row = TRUE
    <3>1. Expired \in 0..Expired
      BY SMT DEF Expired
    <3>. QED  BY <2>1, <3>1, Zenon DEF Types, UpdateNode
  <2>2. CASE row = FALSE
    <3>1. row' \in BOOLEAN /\ status' \in {"online", "offline"} /\ age' \in 0..Expired
      BY <2>2, SMT DEF Types, UpdateNode
    <3>. QED  BY <2>2, <3>1, Zenon DEF Types, UpdateNode
  <2>. QED  BY <2>1, <2>2 DEF Types
<1>2. EntryIsServed'
  BY SMT DEF Types, EntryIsServed, UpdateNode
<1>3. ASSUME NEW u \in Sessions PROVE Fresh(u)'
  BY <1>3, SMT DEF Types, Fresh, Live, UpdateNode
<1>. QED  BY <1>1, <1>2, <1>3

(* The cleaner spares the row of a live session, which is young.           *)
LEMMA CleanRow == ASSUME RowInv, Clean PROVE RowInv'
<1> USE AgentAssumption DEF RowInv, streams, node, checks
<1>1. Types'
  BY SMT DEF Types, Clean, Expired, Stale
<1>2. EntryIsServed'
  BY SMT DEF Types, EntryIsServed, Clean
<1>3. ASSUME NEW u \in Sessions PROVE Fresh(u)'
  <2>1. SUFFICES ASSUME Live(u)' PROVE Fresh(u)'
    BY Zenon DEF Fresh
  <2>2. Live(u) /\ UNCHANGED <<row, age, beats, next>>
    BY <2>1, Zenon DEF Live, Clean
  <2>3. ~HeartbeatsInTime
    <3> SUFFICES ASSUME HeartbeatsInTime PROVE FALSE
      OBVIOUS
    <3>1. age \in Nat /\ age =< Threshold
      BY <1>3, <2>2, FreshIsYoung
    <3>. QED  BY <3>1, SMT DEF Clean, Stale
  <2>. QED  BY <1>3, <2>2, <2>3, Zenon DEF Fresh, HeartbeatsInTime
<1>. QED  BY <1>1, <1>2, <1>3

(* A tick brings the next heartbeat as much nearer as the row gets older.  *)
LEMMA TickRow == ASSUME RowInv, Tick PROVE RowInv'
<1> USE AgentAssumption DEF RowInv, streams, node, checks
<1>1. Types'
  BY SMT DEF Types, Tick, Expired
<1>2. EntryIsServed'
  BY SMT DEF Types, EntryIsServed, Tick
<1>3. ASSUME NEW u \in Sessions PROVE Fresh(u)'
  <2>1. SUFFICES ASSUME Live(u)'
                 PROVE  /\ row' = TRUE /\ age' \in Nat
                        /\ HeartbeatsInTime => status' = "online"
                        /\ beats'[u] = {} => age' + next'[u] =< Period
                        /\ beats'[u] # {} => \E b \in beats'[u] : age' =< Period + b
    BY Zenon DEF Fresh, HeartbeatsInTime
  <2>2. Live(u) /\ row' = row /\ status' = status
    BY <2>1, Zenon DEF Live, Tick
  <2>3. row = TRUE /\ (HeartbeatsInTime => status = "online") /\ age \in Nat
    BY <1>3, <2>2, Zenon DEF Fresh
  <2>4. age' \in Nat /\ age' =< age + 1
    BY <2>3, SMT DEF Tick
  <2>5. next[u] \in 0..Period /\ next[u] > 0 /\ next'[u] = next[u] - 1 /\ Delay \notin beats[u]
    BY <1>3, <2>2, SMT DEF Tick, Live, Types
  <2>6. beats'[u] = {IF a < Delay THEN a + 1 ELSE a : a \in beats[u]}
    BY <1>3, Zenon DEF Tick
  <2>7. CASE beats[u] = {}
    <3>1. age + next[u] =< Period
      BY <1>3, <2>2, <2>7, Zenon DEF Fresh
    <3>2. beats'[u] = {}
      BY <2>6, <2>7, Zenon
    <3>. QED  BY <2>2, <2>3, <2>4, <2>5, <3>1, <3>2, SMT
  <2>8. CASE beats[u] # {}
    <3>1. PICK b \in beats[u] : age =< Period + b
      BY <1>3, <2>2, <2>8, Zenon DEF Fresh
    <3>2. b \in 0..Delay /\ b < Delay
      BY <1>3, <2>5, <3>1, SMT DEF Types
    <3>3. b + 1 \in beats'[u]
      BY <2>6, <3>1, <3>2, Zenon
    <3>4. age' =< Period + (b + 1)
      BY <2>3, <2>4, <3>1, <3>2, SMT
    <3>. QED  BY <2>2, <2>3, <2>4, <3>3, <3>4
  <2>. QED  BY <2>7, <2>8
<1>. QED  BY <1>1, <1>2, <1>3

-----------------------------------------------------------------------------
(* Steps of a test: they leave the streams and the row alone.               *)
LEMMA CommandRow == ASSUME RowInv, NEW x \in Tests, Command(x) PROVE RowInv'
<1>1. UNCHANGED <<streams, agents, node, heard>>
  BY DEF Command
<1>. QED  BY <1>1, Zenon DEF RowInv, Types, EntryIsServed, Fresh, Live, streams, node

LEMMA ReportRow == ASSUME RowInv, NEW x \in Tests, Report(x) PROVE RowInv'
<1>1. UNCHANGED <<streams, agents, node, heard>>
  BY DEF Report
<1>. QED  BY <1>1, Zenon DEF RowInv, Types, EntryIsServed, Fresh, Live, streams, node

LEMMA ReportLostRow == ASSUME RowInv, NEW x \in Tests, ReportLost(x) PROVE RowInv'
<1>1. UNCHANGED <<streams, agents, node, heard>>
  BY DEF ReportLost
<1>. QED  BY <1>1, Zenon DEF RowInv, Types, EntryIsServed, Fresh, Live, streams, node

LEMMA AskRow == ASSUME RowInv, NEW x \in Tests, Ask(x) PROVE RowInv'
<1>1. UNCHANGED <<streams, agents, node, heard>>
  BY DEF Ask
<1>. QED  BY <1>1, Zenon DEF RowInv, Types, EntryIsServed, Fresh, Live, streams, node

LEMMA ListRow == ASSUME RowInv, NEW x \in Tests, List(x) PROVE RowInv'
<1>1. UNCHANGED <<streams, agents, node, heard>>
  BY DEF List
<1>. QED  BY <1>1, Zenon DEF RowInv, Types, EntryIsServed, Fresh, Live, streams, node

LEMMA ReceiveRow == ASSUME RowInv, NEW x \in Tests, Receive(x) PROVE RowInv'
<1>1. UNCHANGED <<streams, agents, node, heard>>
  BY DEF Receive
<1>. QED  BY <1>1, Zenon DEF RowInv, Types, EntryIsServed, Fresh, Live, streams, node

LEMMA GiveUpRow == ASSUME RowInv, NEW x \in Tests, GiveUp(x) PROVE RowInv'
<1>1. UNCHANGED <<streams, agents, node, heard>>
  BY DEF GiveUp
<1>. QED  BY <1>1, Zenon DEF RowInv, Types, EntryIsServed, Fresh, Live, streams, node

(* A failed Send may take the entry away.                                  *)
LEMMA SendRow == ASSUME RowInv, NEW x \in Tests, Send(x) PROVE RowInv'
<1>1. UNCHANGED <<streams, node, heard>> /\ agents' \in {agents, None}
  BY DEF Send, SendFails, Sent
<1>2. Types'
  BY <1>1, Zenon DEF RowInv, Types, streams, node
<1>3. EntryIsServed'
  BY <1>1, Zenon DEF RowInv, EntryIsServed, streams
<1>4. \A s \in Sessions : Fresh(s)'
  BY <1>1, Zenon DEF RowInv, Fresh, Live, streams, node
<1>. QED  BY <1>2, <1>3, <1>4 DEF RowInv

(* An entry of the manager is a session, so that a command has a target.   *)
LEMMA AskTest == ASSUME RowInv, TestInv, NEW x \in Tests, Ask(x) PROVE TestInv'
<1> USE DEF TestInv, RowInv
<1>1. TestTypes'
  BY SMT DEF TestTypes, Types, TestStates, Ask
<1>2. ASSUME NEW y \in Tests PROVE TestOK(y)'
  BY <1>2, SMT DEF TestTypes, TestOK, Ask
<1>. QED  BY <1>1, <1>2

LEMMA CommandTest == ASSUME TestInv, NEW x \in Tests, Command(x) PROVE TestInv'
<1> USE DEF TestInv
<1>1. TestTypes'
  BY SMT DEF TestTypes, TestStates, Command
<1>2. ASSUME NEW y \in Tests PROVE TestOK(y)'
  BY <1>2, SMT DEF TestTypes, TestOK, Command
<1>. QED  BY <1>1, <1>2

LEMMA ReportLostTest == ASSUME TestInv, NEW x \in Tests, ReportLost(x) PROVE TestInv'
<1> USE DEF TestInv
<1>1. TestTypes'
  BY SMT DEF TestTypes, TestStates, ReportLost
<1>2. ASSUME NEW y \in Tests PROVE TestOK(y)'
  BY <1>2, SMT DEF TestTypes, TestOK, ReportLost
<1>. QED  BY <1>1, <1>2

LEMMA ReportTest == ASSUME TestInv, NEW x \in Tests, Report(x) PROVE TestInv'
<1> USE DEF TestInv
<1>1. TestTypes'
  BY SMT DEF TestTypes, TestStates, Report
<1>2. ASSUME NEW y \in Tests PROVE TestOK(y)'
  <2>1. CASE y = x
    <3>1. order[x] = "running" /\ order'[x] = "done" /\ test' = test /\ target' = target
      BY SMT DEF TestTypes, Report
    <3>2. test[x] = "waiting" => x \in tests
      BY <3>1, SMT DEF TestOK
    <3>3. respCh'[x] = (x \in tests)
      BY Zenon DEF TestTypes, Report
    <3>4. test[x] = "waiting" => respCh'[x] = TRUE
      BY <3>2, <3>3, Zenon
    <3>5. TestOK(x)
      OBVIOUS
    <3>6. TestOK(x)'
      BY <3>1, <3>4, <3>5, Zenon DEF TestOK
    <3>. QED  BY <2>1, <3>6
  <2>2. CASE y # x
    BY <1>2, <2>2, SMT DEF TestTypes, TestOK, Report
  <2>. QED  BY <2>1, <2>2
<1>. QED  BY <1>1, <1>2

LEMMA ListTest == ASSUME TestInv, NEW x \in Tests, List(x) PROVE TestInv'
<1> USE DEF TestInv
<1>1. TestTypes'
  BY SMT DEF TestTypes, TestStates, List
<1>2. ASSUME NEW y \in Tests PROVE TestOK(y)'
  BY <1>2, SMT DEF TestTypes, TestOK, List
<1>. QED  BY <1>1, <1>2

LEMMA SendTest == ASSUME TestInv, NEW x \in Tests, Send(x) PROVE TestInv'
<1> USE DEF TestInv
<1>1. TestTypes'
  BY SMT DEF TestTypes, TestStates, Send, SendFails, Sent
<1>2. ASSUME NEW y \in Tests PROVE TestOK(y)'
  BY <1>2, SMT DEF TestTypes, TestOK, Send, SendFails, Sent
<1>. QED  BY <1>1, <1>2

LEMMA ReceiveTest == ASSUME TestInv, NEW x \in Tests, Receive(x) PROVE TestInv'
<1> USE DEF TestInv
<1>1. TestTypes'
  BY SMT DEF TestTypes, TestStates, Receive
<1>2. ASSUME NEW y \in Tests PROVE TestOK(y)'
  BY <1>2, SMT DEF TestTypes, TestOK, Receive
<1>. QED  BY <1>1, <1>2

LEMMA GiveUpTest == ASSUME TestInv, NEW x \in Tests, GiveUp(x) PROVE TestInv'
<1> USE DEF TestInv
<1>1. TestTypes'
  BY SMT DEF TestTypes, TestStates, GiveUp
<1>2. ASSUME NEW y \in Tests PROVE TestOK(y)'
  BY <1>2, SMT DEF TestTypes, TestOK, GiveUp
<1>. QED  BY <1>1, <1>2

(* A stream that ends takes commands away; nothing waits after a restart.  *)
LEMMA CutTest == ASSUME TestInv, NEW s \in Sessions, Cut(s) PROVE TestInv'
<1> USE DEF TestInv
<1>1. TestTypes'
  BY SMT DEF TestTypes, Cut
<1>2. ASSUME NEW y \in Tests PROVE TestOK(y)'
  BY <1>2, SMT DEF TestTypes, TestOK, Cut
<1>. QED  BY <1>1, <1>2

LEMMA RestartTest == ASSUME TestInv, Restart PROVE TestInv'
<1> USE DEF TestInv
<1>1. TestTypes'
  BY SMT DEF TestTypes, TestStates, Restart
<1>2. ASSUME NEW y \in Tests PROVE TestOK(y)'
  BY <1>2, SMT DEF TestTypes, TestOK, Restart
<1>. QED  BY <1>1, <1>2

LEMMA OthersTest == ASSUME TestInv, UNCHANGED checks PROVE TestInv'
BY Zenon DEF TestInv, TestTypes, TestOK, checks

-----------------------------------------------------------------------------
(* Every step preserves the invariant.                                     *)
LEMMA NextInv == ASSUME IndInv, [Next]_vars PROVE IndInv'
<1> USE DEF IndInv
<1>1. CASE Tick
  BY <1>1, TickRow, OthersTest DEF Tick
<1>2. CASE Clean
  BY <1>2, CleanRow, OthersTest DEF Clean
<1>3. CASE Restart
  BY <1>3, RestartRow, RestartTest
<1>4. CASE CreateNode
  BY <1>4, CreateNodeRow, OthersTest DEF CreateNode
<1>5. CASE DeleteNode
  BY <1>5, DeleteNodeRow, OthersTest DEF DeleteNode
<1>6. ASSUME NEW s \in Sessions, Connect(s) PROVE IndInv'
  BY <1>6, ConnectRow, OthersTest DEF Connect
<1>7. ASSUME NEW s \in Sessions, Beat(s) PROVE IndInv'
  BY <1>7, BeatRow, OthersTest DEF Beat
<1>8. ASSUME NEW s \in Sessions, Cut(s) PROVE IndInv'
  BY <1>8, CutRow, CutTest
<1>9. ASSUME NEW s \in Sessions, Accept(s) PROVE IndInv'
  BY <1>9, AcceptRow, OthersTest DEF Accept
<1>10. ASSUME NEW s \in Sessions, Reject(s) PROVE IndInv'
  BY <1>10, RejectRow, OthersTest DEF Reject
<1>11. ASSUME NEW s \in Sessions, Heartbeat(s) PROVE IndInv'
  BY <1>11, HeartbeatRow, OthersTest DEF Heartbeat
<1>12. ASSUME NEW s \in Sessions, SessionEnds(s) PROVE IndInv'
  BY <1>12, SessionEndsRow, OthersTest DEF SessionEnds
<1>13. ASSUME NEW x \in Tests, Command(x) PROVE IndInv'
  BY <1>13, CommandRow, CommandTest
<1>14. ASSUME NEW x \in Tests, Report(x) PROVE IndInv'
  BY <1>14, ReportRow, ReportTest
<1>15. ASSUME NEW x \in Tests, Ask(x) PROVE IndInv'
  BY <1>15, AskRow, AskTest
<1>16. ASSUME NEW x \in Tests, List(x) PROVE IndInv'
  BY <1>16, ListRow, ListTest
<1>17. ASSUME NEW x \in Tests, Send(x) PROVE IndInv'
  BY <1>17, SendRow, SendTest
<1>18. ASSUME NEW x \in Tests, Receive(x) PROVE IndInv'
  BY <1>18, ReceiveRow, ReceiveTest
<1>19. ASSUME NEW x \in Tests, GiveUp(x) PROVE IndInv'
  BY <1>19, GiveUpRow, GiveUpTest
<1>20. CASE UpdateNode
  BY <1>20, UpdateNodeRow, OthersTest DEF UpdateNode
<1>21. ASSUME NEW x \in Tests, ReportLost(x) PROVE IndInv'
  BY <1>21, ReportLostRow, ReportLostTest
<1>22. CASE UNCHANGED vars
  BY <1>22, Zenon DEF RowInv, Types, EntryIsServed, Fresh, Live, TestInv, TestTypes, TestOK,
                      vars, streams, node, checks
<1>. QED
  BY <1>1, <1>2, <1>3, <1>4, <1>5, <1>6, <1>7, <1>8, <1>9, <1>10, <1>11, <1>12, <1>13, <1>14,
     <1>15, <1>16, <1>17, <1>18, <1>19, <1>20, <1>21, <1>22, Zenon DEF Next

(* The inductive invariant of the agent's sessions.                        *)
THEOREM IndInvHolds == Spec => []IndInv
<1>1. Init => IndInv
  BY InitInv
<1>2. IndInv /\ [Next]_vars => IndInv'
  BY NextInv
<1>. QED  BY <1>1, <1>2, PTL DEF Spec

(* Every variable keeps its type, and a test at work has a target.         *)
THEOREM TypeCorrect == Spec => []TypeOK
<1>1. IndInv => TypeOK
  BY Zenon DEF IndInv, RowInv, Types, TestInv, TestTypes, TestOK, TypeOK
<1>. QED  BY <1>1, IndInvHolds, PTL

(* AgentManager: the entry of a node is of a session that is served.       *)
THEOREM EntryServed == Spec => []EntryIsServed
<1>1. IndInv => EntryIsServed
  BY DEF IndInv, RowInv
<1>. QED  BY <1>1, IndInvHolds, PTL

(* The cleaner's threshold, against the agent's period and the delay of a  *)
(* heartbeat: a live agent's node is online.                               *)
THEOREM LiveOnline ==
  ASSUME HeartbeatsInTime PROVE Spec => []LiveIsOnline
<1>1. IndInv => LiveIsOnline
  BY Zenon DEF IndInv, RowInv, Types, Fresh, Live, LiveIsOnline
<1>. QED  BY <1>1, IndInvHolds, PTL

(* DispatchTestConnection and ResolveTestResult: an answer that is given   *)
(* while the handler waits is in its channel.                              *)
THEOREM AnswersHeard == Spec => []AnswerHeard
<1>1. IndInv => AnswerHeard
  BY Zenon DEF IndInv, TestInv, TestOK, TestTypes, AnswerHeard
<1>. QED  BY <1>1, IndInvHolds, PTL

(* M_NODE.last_seen: the row of a live session is never older than a       *)
(* period and the delay of a heartbeat, whatever the cleaner's threshold.  *)
THEOREM LiveIsRecent ==
  Spec => [](\A s \in Sessions : Live(s) => row = TRUE /\ age \in Nat /\ age =< Period + Delay)
<1>1. ASSUME IndInv, NEW s \in Sessions, Live(s)
      PROVE  row = TRUE /\ age \in Nat /\ age =< Period + Delay
  <2>1. Fresh(s) /\ Types
    BY <1>1 DEF IndInv, RowInv
  <2>2. row = TRUE /\ age \in Nat
    BY <1>1, <2>1 DEF Fresh
  <2>3. CASE beats[s] = {}
    <3>1. next[s] \in 0..Period /\ age + next[s] =< Period
      BY <1>1, <2>1, <2>3, Zenon DEF Fresh, Types
    <3>. QED  BY <2>2, <3>1, AgentAssumption, SMT
  <2>4. CASE beats[s] # {}
    <3>1. PICK b \in beats[s] : age =< Period + b
      BY <1>1, <2>1, <2>4, Zenon DEF Fresh
    <3>2. b \in 0..Delay
      BY <2>1, <3>1, SMT DEF Types
    <3>. QED  BY <2>2, <3>1, <3>2, AgentAssumption, SMT
  <2>. QED  BY <2>3, <2>4
<1>2. IndInv => \A s \in Sessions : Live(s) => row = TRUE /\ age \in Nat /\ age =< Period + Delay
  BY <1>1
<1>. QED  BY <1>2, IndInvHolds, PTL

-----------------------------------------------------------------------------
(* That a node whose agents are gone goes offline stays with TLC           *)
(* (GoneIsOffline).  It rests on this: without an agent the date that the  *)
(* cleaner judges only gets older, but for the heartbeats that are still   *)
(* under way.                                                              *)
Gone == \A s \in Sessions : client[s] # "open"
LastBeat == \E s \in Sessions : \E b \in beats[s] : beats' = [beats EXCEPT ![s] = @ \ {b}]
GoneOnlyAges ==
  Gone /\ Gone' /\ row = TRUE /\ row' = TRUE =>
    \/ LastBeat
    \/ status' = "offline"
    \/ status' = status /\ age' >= age

(* While no agent has a stream open, the status of a row that is not       *)
(* edited changes to offline only, and its last_seen is renewed only by a  *)
(* heartbeat that was sent before (agent_grpc.go:79-96).                   *)
THEOREM GoneAges == Spec => [][GoneOnlyAges]_vars
<1>1. ASSUME IndInv, Next PROVE GoneOnlyAges
  <2> USE DEF streams, node, checks
  <2> SUFFICES ASSUME Gone, Gone', row = TRUE, row' = TRUE
               PROVE  \/ LastBeat
                      \/ status' = "offline"
                      \/ status' = status /\ age' >= age
    BY Zenon DEF GoneOnlyAges
  <2>0. /\ age \in 0..Expired /\ Expired \in Nat
        /\ client \in [Sessions -> {"no", "open", "gone"}]
    BY <1>1, AgentAssumption, SMT DEF IndInv, RowInv, Types, Expired
  <2>a. status' = status /\ age' = age
        => status' = status /\ age' >= age
    BY <2>0, SMT
  <2>1. CASE Tick
    BY <2>0, <2>1, SMT DEF Tick
  <2>2. CASE Clean
    BY <2>2, Zenon DEF Clean
  <2>3. CASE CreateNode \/ DeleteNode \/ UpdateNode
    BY <2>3, Zenon DEF CreateNode, DeleteNode, UpdateNode
  <2>4. CASE Restart
    BY <2>a, <2>4, Zenon DEF Restart
  <2>5. ASSUME NEW s \in Sessions,
               \/ Connect(s) \/ Beat(s) \/ Cut(s) \/ Reject(s) \/ SessionEnds(s)
        PROVE  status' = status /\ age' = age
    BY <2>5, Zenon DEF Connect, Beat, Cut, Reject, SessionEnds
  <2>6. ASSUME NEW s \in Sessions, Accept(s) PROVE FALSE
    BY <2>6, Zenon DEF Accept, Gone
  <2>7. ASSUME NEW s \in Sessions, Heartbeat(s) PROVE LastBeat
    BY <2>7, Zenon DEF Heartbeat, LastBeat
  <2>8. ASSUME NEW x \in Tests,
               \/ Command(x) \/ Report(x) \/ ReportLost(x) \/ Ask(x) \/ List(x) \/ Send(x)
               \/ Receive(x) \/ GiveUp(x)
        PROVE  status' = status /\ age' = age
    BY <2>8, Zenon DEF Command, Report, ReportLost, Ask, List, Send, Receive, GiveUp
  <2>. QED  BY <1>1, <2>a, <2>1, <2>2, <2>3, <2>4, <2>5, <2>6, <2>7, <2>8, Zenon DEF Next
<1>2. ASSUME IndInv, [Next]_vars PROVE [GoneOnlyAges]_vars
  BY <1>1, <1>2
<1>. QED  BY <1>2, IndInvHolds, PTL DEF Spec
=============================================================================
