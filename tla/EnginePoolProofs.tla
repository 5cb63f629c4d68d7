-------------------------- MODULE EnginePoolProofs --------------------------
(* Proofs about EnginePool for any number of runs, workers, clients and    *)
(* connections.  That a connection is left needs EnoughConnections.        *)
EXTENDS EnginePool, FiniteSetTheorems, TLAPS

Types ==
  /\ pc \in [Engines -> Statements \cup {"new", "group", "listening", "done"}]
  /\ rules \in [Engines -> 0..MaxRules] /\ chunks \in [Engines -> 0..MaxChunks]
  /\ broken \subseteq Engines
  /\ asking \subseteq Loaders \cup Clients
  /\ held \subseteq Engines

(* Where a run has its cursor open, at most.                               *)
CursorPhases == {"mark", "rule", "threads", "group", "listening", "batch", "advance", "report"}

UsingOK == using \subseteq {a \in Actors : Waits(a)}
HeldOK == \A e \in held : pc[e] \in CursorPhases
CountOK == IsFiniteSet(using) /\ InUse =< Pool
LimitOK == Cardinality(Unfinished) =< AtOnce

IndInv == Types /\ UsingOK /\ HeldOK /\ CountOK /\ LimitOK

(* Sets of runs are finite.                                                *)
LEMMA RunsFinite ==
  ASSUME Types
  PROVE  /\ IsFiniteSet(held) /\ Cardinality(held) \in Nat
         /\ IsFiniteSet(Unfinished) /\ Cardinality(Unfinished) \in Nat
<1>1. held \subseteq Engines /\ Unfinished \subseteq Engines
  BY DEF Types, Unfinished
<1>2. IsFiniteSet(held) /\ IsFiniteSet(Unfinished)
  BY <1>1, PoolAssumption, FS_Subset
<1>. QED  BY <1>2, FS_CardinalityType

LEMMA InitInv == Init => IndInv
<1> SUFFICES ASSUME Init PROVE IndInv
  OBVIOUS
<1>1. Types
  BY PoolAssumption DEF Init, Types
<1>2. Unfinished = {}
  BY DEF Init, Unfinished
<1>3. Cardinality({}) = 0 /\ IsFiniteSet({})
  BY FS_EmptySet
<1>. QED
  BY <1>1, <1>2, <1>3, PoolAssumption DEF Init, IndInv, UsingOK, HeldOK, CountOK, LimitOK, InUse

(* A step after which no more runs are unfinished keeps the limit.         *)
LEMMA LimitKept ==
  ASSUME Types, Types', LimitOK, Unfinished' \subseteq Unfinished
  PROVE  LimitOK'
<1>1. Cardinality(Unfinished') =< Cardinality(Unfinished)
  BY RunsFinite, FS_Subset
<1>2. Cardinality(Unfinished') \in Nat /\ Cardinality(Unfinished) \in Nat
  BY RunsFinite, <1>1, FS_Subset, FS_CardinalityType
<1>. QED  BY <1>1, <1>2, PoolAssumption DEF LimitOK

(* The end of a statement of a run: it returns its connection, or leaves   *)
(* it to its cursor.                                                       *)
LEMMA MakesInv ==
  ASSUME IndInv, NEW e \in Engines, NEW s \in Statements, NEW t \in Statements \cup {"group", "listening", "done"},
         Makes(e, s, t),
         rules' \in [Engines -> 0..MaxRules], chunks' \in [Engines -> 0..MaxChunks], broken' \subseteq Engines,
         held' \subseteq held \cup {e}, e \in held' => t \in CursorPhases
  PROVE  IndInv'
<1> USE DEF IndInv
<1>1. Types'
  <2>1. t \in Statements \cup {"new", "group", "listening", "done"}
    OBVIOUS
  <2>2. pc' \in [Engines -> Statements \cup {"new", "group", "listening", "done"}]
    BY <2>1, Zenon DEF Types, Makes
  <2>3. held' \subseteq Engines
    BY DEF Types
  <2>. QED  BY <2>2, <2>3 DEF Types, Makes
<1>2. \A u \in Engines : pc'[u] = IF u = e THEN t ELSE pc[u]
  BY SMT DEF Types, Makes
<1>3. UsingOK'
  BY <1>2, SMT DEF UsingOK, Makes, Waits
<1>4. HeldOK'
  <2> SUFFICES ASSUME NEW u \in held' PROVE pc'[u] \in CursorPhases
    BY DEF HeldOK
  <2>1. u \in Engines
    BY <1>1 DEF Types
  <2>. QED  BY <1>2, <2>1 DEF HeldOK
<1>5. CountOK'
  <2>1. IsFiniteSet(using') /\ Cardinality(using') = Cardinality(using) - 1
    BY FS_RemoveElement DEF CountOK, Makes
  <2>2. IsFiniteSet(held \cup {e}) /\ Cardinality(held \cup {e}) =< Cardinality(held) + 1
    <3>1. IsFiniteSet(held)
      BY RunsFinite
    <3>2. /\ IsFiniteSet(held \cup {e})
          /\ Cardinality(held \cup {e}) = IF e \in held THEN Cardinality(held) ELSE Cardinality(held) + 1
      BY <3>1, FS_AddElement, Zenon
    <3>3. Cardinality(held) \in Nat
      BY <3>1, FS_CardinalityType
    <3>. QED  BY <3>2, <3>3
  <2>3. Cardinality(held') =< Cardinality(held \cup {e}) /\ Cardinality(held') \in Nat
    BY <2>2, FS_Subset, FS_CardinalityType
  <2>4. Cardinality(using) \in Nat /\ Cardinality(held) \in Nat /\ Cardinality(held \cup {e}) \in Nat
    BY <2>2, RunsFinite, FS_CardinalityType DEF CountOK
  <2>. QED  BY <2>1, <2>2, <2>3, <2>4, PoolAssumption DEF CountOK, InUse
<1>6. Unfinished' \subseteq Unfinished
  BY <1>2, SMT DEF Unfinished, Makes, Statements
<1>7. LimitOK'
  BY <1>1, <1>6, LimitKept
<1>. QED  BY <1>1, <1>3, <1>4, <1>5, <1>7

(* The end of the statement that comes before rows.Next.                   *)
LEMMA AdvancesInv ==
  ASSUME IndInv, NEW e \in Engines, NEW s \in Statements, Advances(e, s),
         UNCHANGED <<chunks, broken>>
  PROVE  IndInv'
<1>1. CASE rules[e] > 0 /\ Makes(e, s, "rule") /\ rules' = [rules EXCEPT ![e] = @ - 1] /\ held' = held
  <2>1. rules[e] - 1 \in 0..MaxRules /\ rules \in [Engines -> 0..MaxRules]
    BY <1>1, PoolAssumption, SMT DEF IndInv, Types
  <2>2. rules' \in [Engines -> 0..MaxRules]
    BY <1>1, <2>1, Zenon
  <2>. QED  BY <1>1, <2>2, MakesInv, Zenon DEF IndInv, Types, CursorPhases, Statements
<1>2. CASE Makes(e, s, "complete") /\ held' = held \ {e} /\ rules' = rules
  BY <1>2, MakesInv, Zenon DEF IndInv, Types, Statements
<1>. QED  BY <1>1, <1>2 DEF Advances

-----------------------------------------------------------------------------
(* Every step of a run keeps the invariant: its statements ...             *)
LEMMA StatementsInv ==
  ASSUME IndInv, NEW e \in Engines, EngineStep(e)
  PROVE  IndInv'
<1>1. /\ "load" \in Statements /\ "open" \in Statements /\ "mark" \in Statements /\ "rule" \in Statements
      /\ "threads" \in Statements /\ "advance" \in Statements /\ "complete" \in Statements
      /\ "report" \in Statements /\ "record" \in Statements /\ "admit" \in Statements
      /\ "batch" \in Statements
  BY DEF Statements
<1>2. Types /\ HeldOK
  BY DEF IndInv
<1>3. CASE Admit(e)
  <2>1. e \notin held
    BY <1>2, <1>3 DEF Admit, Makes, HeldOK, CursorPhases
  <2>. QED  BY <1>1, <1>2, <1>3, <2>1, MakesInv, Zenon DEF Admit, work, Types
<1>4. CASE LoadJob(e)
  <2>1. e \notin held
    BY <1>2, <1>4 DEF LoadJob, Makes, HeldOK, CursorPhases
  <2>. QED  BY <1>1, <1>2, <1>4, <2>1, MakesInv, Zenon DEF LoadJob, work, Types
<1>5. CASE OpenRules(e)
  <2>1. rules' \in [Engines -> 0..MaxRules]
    <3>1. PICK n \in 0..MaxRules : rules' = [rules EXCEPT ![e] = n]
      BY <1>5 DEF OpenRules
    <3>. QED  BY <1>2, <3>1, Zenon DEF Types
  <2>2. chunks' \in [Engines -> 0..MaxChunks] /\ broken' \subseteq Engines
    BY <1>2, <1>5 DEF OpenRules, Types
  <2>3. "mark" \in CursorPhases /\ "report" \in CursorPhases
    BY DEF CursorPhases
  <2>4. CASE Makes(e, "open", "mark") /\ held' = held \cup {e}
    BY <1>1, <2>1, <2>2, <2>3, <2>4, MakesInv, Zenon
  <2>5. CASE Makes(e, "open", "report") /\ held' = held
    BY <1>1, <2>1, <2>2, <2>3, <2>5, MakesInv, Zenon
  <2>. QED  BY <1>5, <2>4, <2>5 DEF OpenRules
<1>6. CASE MarkRunning(e)
  <2>1. CASE Advances(e, "mark")
    BY <1>1, <1>6, <2>1, AdvancesInv, Zenon DEF MarkRunning
  <2>2. CASE Makes(e, "mark", "report") /\ UNCHANGED <<rules, held>>
    BY <1>1, <1>2, <1>6, <2>2, MakesInv, Zenon DEF MarkRunning, Types, CursorPhases
  <2>. QED  BY <1>6, <2>1, <2>2 DEF MarkRunning
<1>7. CASE BeginRule(e)
  <2>1. chunks' \in [Engines -> 0..MaxChunks]
    <3>1. CASE \E n \in 0..MaxChunks : chunks' = [chunks EXCEPT ![e] = n]
      <4>1. PICK n \in 0..MaxChunks : chunks' = [chunks EXCEPT ![e] = n]
        BY <3>1
      <4>. QED  BY <1>2, <4>1, Zenon DEF Types
    <3>2. CASE chunks' = chunks
      BY <1>2, <3>2 DEF Types
    <3>. QED  BY <1>7, <3>1, <3>2 DEF BeginRule
  <2>2. rules' \in [Engines -> 0..MaxRules] /\ broken' \subseteq Engines /\ held' = held
    BY <1>2, <1>7 DEF BeginRule, Types
  <2>3. "threads" \in CursorPhases /\ "report" \in CursorPhases
    BY DEF CursorPhases
  <2>4. CASE Makes(e, "rule", "threads")
    BY <1>1, <2>1, <2>2, <2>3, <2>4, MakesInv, Zenon
  <2>5. CASE Makes(e, "rule", "report")
    BY <1>1, <2>1, <2>2, <2>3, <2>5, MakesInv, Zenon
  <2>. QED  BY <1>7, <2>4, <2>5 DEF BeginRule
<1>8. CASE StartWorkers(e)
  BY <1>1, <1>2, <1>8, MakesInv, Zenon DEF StartWorkers, work, Types, CursorPhases
<1>9. CASE Wait(e)
  <2> USE <1>2, <1>9
  <2> DEFINE t == IF e \in broken THEN "report" ELSE "advance"
  <2>1. t \in Statements \cap CursorPhases
    BY DEF Statements, CursorPhases
  <2>2. Types'
    <3>1. t \in Statements \cup {"new", "group", "listening", "done"}
      BY <2>1
    <3>2. pc' = [pc EXCEPT ![e] = t]
      BY DEF Wait
    <3> HIDE DEF t
    <3>3. pc' \in [Engines -> Statements \cup {"new", "group", "listening", "done"}]
      BY <3>1, <3>2, Zenon DEF Types
    <3>. QED  BY <3>3 DEF Types, Wait, work
  <2>3. \A u \in Engines : pc'[u] = IF u = e THEN t ELSE pc[u]
    BY SMT DEF Types, Wait
  <2> HIDE DEF t
  <2>4. UsingOK'
    BY <2>1, <2>3, SMT DEF IndInv, UsingOK, Wait, Waits
  <2>5. HeldOK'
    BY <2>1, <2>3, SMT DEF HeldOK, Wait, work, Types
  <2>6. CountOK'
    BY DEF IndInv, CountOK, InUse, Wait
  <2>7. Unfinished' \subseteq Unfinished
    BY <2>3, SMT DEF Unfinished, Wait
  <2>. QED  BY <2>2, <2>4, <2>5, <2>6, <2>7, LimitKept DEF IndInv
<1>10. CASE FinishRule(e)
  BY <1>1, <1>10, AdvancesInv, Zenon DEF FinishRule
<1>11. CASE Complete(e)
  <2>1. e \notin held
    BY <1>2, <1>11 DEF Complete, Makes, HeldOK, CursorPhases
  <2>. QED  BY <1>1, <1>2, <1>11, <2>1, MakesInv, Zenon DEF Complete, work, Types
<1>12. CASE ReturnError(e)
  BY <1>1, <1>2, <1>12, MakesInv, Zenon DEF ReturnError, work, Types
<1>13. CASE RecordFailure(e)
  <2>1. e \notin held
    BY <1>2, <1>13 DEF RecordFailure, Makes, HeldOK, CursorPhases
  <2>. QED  BY <1>1, <1>2, <1>13, <2>1, MakesInv, Zenon DEF RecordFailure, work, Types
<1>14. CASE Dispatch(e)
  <2>1. CASE Makes(e, "rule", "listening") /\ held' = held
    BY <1>1, <1>2, <1>14, <2>1, MakesInv, Zenon DEF Dispatch, work, Types, CursorPhases
  <2>2. CASE Makes(e, "rule", "record") /\ held' = held \ {e}
    BY <1>1, <1>2, <1>14, <2>2, MakesInv, Zenon DEF Dispatch, work, Types
  <2>. QED  BY <1>14, <2>1, <2>2 DEF Dispatch
<1>15. CASE LogBatch(e)
  BY <1>1, <1>2, <1>15, MakesInv, Zenon DEF LogBatch, work, Types, CursorPhases
<1>. QED
  BY <1>3, <1>4, <1>5, <1>6, <1>7, <1>8, <1>9, <1>10, <1>11, <1>12, <1>13, <1>14, <1>15 DEF EngineStep

(* ... a word of its agent, for which it needs no connection ...           *)
LEMMA ListenInv ==
  ASSUME IndInv, NEW e \in Engines, Listen(e)
  PROVE  IndInv'
<1> USE DEF IndInv
<1>1. PICK t \in {"batch", "report", "advance"} : pc' = [pc EXCEPT ![e] = t]
  BY DEF Listen
<1>2. t \in Statements \cap CursorPhases
  BY DEF Statements, CursorPhases
<1>3. Types'
  <2>1. t \in Statements \cup {"new", "group", "listening", "done"}
    BY <1>2
  <2>2. pc' \in [Engines -> Statements \cup {"new", "group", "listening", "done"}]
    BY <1>1, <2>1, Zenon DEF Types
  <2>. QED  BY <2>2 DEF Types, Listen, work
<1>4. \A u \in Engines : pc'[u] = IF u = e THEN t ELSE pc[u]
  BY <1>1, SMT DEF Types
<1>5. UsingOK'
  BY <1>2, <1>4, SMT DEF UsingOK, Listen, Waits
<1>6. HeldOK'
  BY <1>2, <1>4, SMT DEF HeldOK, Listen, work, Types
<1>7. CountOK'
  BY DEF CountOK, InUse, Listen
<1>8. Unfinished' \subseteq Unfinished
  BY <1>4, SMT DEF Unfinished, Listen
<1>. QED  BY <1>3, <1>5, <1>6, <1>7, <1>8, LimitKept

(* ... its start, the only step that takes part of the limit ...           *)
LEMMA StartInv ==
  ASSUME IndInv, NEW e \in Engines, Start(e)
  PROVE  IndInv'
<1> USE DEF IndInv
<1>1. Types'
  <2>1. pc' \in [Engines -> Statements \cup {"new", "group", "listening", "done"}]
    <3>1. "admit" \in Statements \cup {"new", "group", "listening", "done"}
      BY DEF Statements
    <3>. QED  BY <3>1, Zenon DEF Types, Start
  <2>. QED  BY <2>1 DEF Types, Start, work
<1>2. \A u \in Engines : pc'[u] = IF u = e THEN "admit" ELSE pc[u]
  BY SMT DEF Types, Start
<1>3. UsingOK'
  BY <1>2, SMT DEF UsingOK, Start, Waits, Statements
<1>4. HeldOK'
  <2>1. e \notin held
    BY DEF Start, HeldOK, CursorPhases
  <2>. QED  BY <1>2, <2>1, SMT DEF HeldOK, Start, work, Types
<1>5. CountOK'
  BY DEF CountOK, InUse, Start
<1>6. LimitOK'
  <2>1. Unfinished' = Unfinished \cup {e}
    BY <1>2, SMT DEF Unfinished
  <2>2. Cardinality(Unfinished') =< Cardinality(Unfinished) + 1 /\ Cardinality(Unfinished') \in Nat
    <3>1. IsFiniteSet(Unfinished) /\ Cardinality(Unfinished) \in Nat
      BY RunsFinite
    <3>2. IsFiniteSet(Unfinished \cup {e})
          /\ Cardinality(Unfinished \cup {e}) = IF e \in Unfinished THEN Cardinality(Unfinished) ELSE Cardinality(Unfinished) + 1
      BY <3>1, FS_AddElement, Zenon
    <3>3. Cardinality(Unfinished \cup {e}) \in Nat
      BY <3>2, FS_CardinalityType, Zenon
    <3>. QED  BY <2>1, <3>1, <3>2, <3>3
  <2>3. Cardinality(Unfinished) < AtOnce /\ Cardinality(Unfinished) \in Nat
    BY RunsFinite DEF Start
  <2>. QED  BY <2>2, <2>3, PoolAssumption DEF LimitOK
<1>. QED  BY <1>1, <1>3, <1>4, <1>5, <1>6

(* ... and the error that stops its loaders.                               *)
LEMMA BreakInv ==
  ASSUME IndInv, NEW e \in Engines, Break(e)
  PROVE  IndInv'
<1> USE DEF IndInv
<1>1. Types'
  <2>1. 0 \in 0..MaxChunks
    BY PoolAssumption
  <2>2. chunks' \in [Engines -> 0..MaxChunks]
    BY <2>1, Zenon DEF Types, Break
  <2>3. broken' \subseteq Engines /\ asking' \subseteq Loaders \cup Clients
    BY DEF Types, Break
  <2>. QED  BY <2>2, <2>3 DEF Types, Break
<1>2. UsingOK'
  BY DEF UsingOK, Break, Waits
<1>3. HeldOK' /\ CountOK'
  BY DEF HeldOK, CountOK, InUse, Break
<1>4. Unfinished' \subseteq Unfinished
  BY DEF Unfinished, Break
<1>. QED  BY <1>1, <1>2, <1>3, <1>4, LimitKept

(* A loader or a client asks, and gives its connection back.               *)
LEMMA AskersInv ==
  ASSUME IndInv,
         \/ \E l \in Loaders : TakeChunk(l)
         \/ \E c \in Clients : Request(c)
         \/ \E a \in Loaders \cup Clients : Report(a)
  PROVE  IndInv'
<1> USE DEF IndInv
<1>1. ASSUME NEW l \in Loaders, TakeChunk(l) PROVE IndInv'
  <2>1. Types'
    <3>1. l[1] \in Engines
      BY DEF Loaders
    <3>2. chunks[l[1]] - 1 \in 0..MaxChunks
      BY <1>1, <3>1, PoolAssumption, SMT DEF Types, TakeChunk
    <3>3. chunks' \in [Engines -> 0..MaxChunks]
      BY <1>1, <3>2, Zenon DEF Types, TakeChunk
    <3>. QED  BY <1>1, <3>3 DEF Types, TakeChunk
  <2>2. UsingOK' /\ HeldOK' /\ CountOK' /\ Unfinished' \subseteq Unfinished
    BY <1>1 DEF UsingOK, HeldOK, CountOK, InUse, Unfinished, Waits, TakeChunk
  <2>. QED  BY <2>1, <2>2, LimitKept
<1>2. ASSUME NEW c \in Clients, Request(c) PROVE IndInv'
  <2>1. Types'
    BY <1>2 DEF Types, Request, work
  <2>2. UsingOK' /\ HeldOK' /\ CountOK' /\ Unfinished' \subseteq Unfinished
    BY <1>2 DEF UsingOK, HeldOK, CountOK, InUse, Unfinished, Waits, Request, work
  <2>. QED  BY <2>1, <2>2, LimitKept
<1>3. ASSUME NEW a \in Loaders \cup Clients, Report(a) PROVE IndInv'
  <2>1. Types'
    BY <1>3 DEF Types, Report, work
  <2>2. UsingOK' /\ HeldOK' /\ Unfinished' \subseteq Unfinished
    BY <1>3 DEF UsingOK, HeldOK, Unfinished, Waits, Report, work
  <2>3. CountOK'
    <3>1. IsFiniteSet(using') /\ Cardinality(using') = Cardinality(using) - 1
      BY <1>3, FS_RemoveElement DEF CountOK, Report
    <3>2. Cardinality(using) \in Nat /\ Cardinality(held) \in Nat /\ held' = held
      BY <1>3, RunsFinite, FS_CardinalityType DEF CountOK, Report
    <3>. QED  BY <3>1, <3>2, PoolAssumption DEF CountOK, InUse
  <2>. QED  BY <2>1, <2>2, <2>3, LimitKept
<1>. QED  BY <1>1, <1>2, <1>3

(* The pool gives a connection only when it has one.                       *)
LEMMA AcquireInv ==
  ASSUME IndInv, NEW a \in Actors, Acquire(a)
  PROVE  IndInv'
<1> USE DEF IndInv
<1>1. Types'
  BY DEF Types, Acquire, work
<1>2. UsingOK' /\ HeldOK' /\ Unfinished' \subseteq Unfinished
  BY DEF UsingOK, HeldOK, Unfinished, Waits, Acquire, work
<1>3. CountOK'
  <2>1. IsFiniteSet(using') /\ Cardinality(using') = Cardinality(using) + 1
    BY FS_AddElement DEF CountOK, Acquire
  <2>2. Cardinality(using) \in Nat /\ Cardinality(held) \in Nat /\ held' = held
    BY RunsFinite, FS_CardinalityType DEF CountOK, Acquire
  <2>. QED  BY <2>1, <2>2, PoolAssumption DEF CountOK, InUse, Acquire
<1>. QED  BY <1>1, <1>2, <1>3, LimitKept

LEMMA NextInv == IndInv /\ [Next]_vars => IndInv'
<1> SUFFICES ASSUME IndInv, [Next]_vars PROVE IndInv'
  OBVIOUS
<1>1. ASSUME NEW e \in Engines, Start(e) \/ EngineStep(e) \/ Listen(e) \/ Break(e) PROVE IndInv'
  BY <1>1, StartInv, StatementsInv, ListenInv, BreakInv
<1>2. ASSUME NEW l \in Loaders, TakeChunk(l) \/ Report(l) PROVE IndInv'
  BY <1>2, AskersInv
<1>3. ASSUME NEW c \in Clients, Request(c) \/ Report(c) PROVE IndInv'
  BY <1>3, AskersInv
<1>4. ASSUME NEW a \in Actors, Acquire(a) PROVE IndInv'
  BY <1>4, AcquireInv
<1>5. CASE UNCHANGED vars
  BY <1>5 DEF vars, work, IndInv, Types, UsingOK, HeldOK, CountOK, LimitOK, InUse, Unfinished, Waits
<1>. QED  BY <1>1, <1>2, <1>3, <1>4, <1>5 DEF Next

-----------------------------------------------------------------------------
(* The inductive invariant holds of every behaviour.                       *)
THEOREM IndInvHolds == Spec => []IndInv
<1>. QED  BY InitInv, NextInv, PTL DEF Spec

(* The types, and the number of connections, are as declared: statements   *)
(* and cursors together never use more than the pool has.                  *)
THEOREM TypeCorrect == Spec => []TypeOK
<1>1. IndInv => TypeOK
  BY DEF IndInv, Types, UsingOK, CountOK, TypeOK
<1>. QED  BY <1>1, IndInvHolds, PTL

(* An open cursor belongs to an unfinished run.                            *)
LEMMA LeavesOne ==
  ASSUME EnoughConnections, IndInv PROVE ConnectionLeft
<1>1. held \subseteq Unfinished
  BY SMT DEF IndInv, HeldOK, Types, CursorPhases, Unfinished
<1>2. Cardinality(held) =< Cardinality(Unfinished)
  BY <1>1, RunsFinite, FS_Subset DEF IndInv
<1>. QED  BY <1>2, RunsFinite, PoolAssumption DEF IndInv, LimitOK, ConnectionLeft, EnoughConnections

(* The open cursors are fewer than the connections, because only runs that *)
(* go on have one, and fewer of those are admitted than the pool has       *)
(* connections: whenever all runs wait, one of them can be served.         *)
THEOREM ConnectionsLeft ==
  ASSUME EnoughConnections PROVE Spec => []ConnectionLeft
<1>1. IndInv => ConnectionLeft
  BY LeavesOne
<1>. QED  BY <1>1, IndInvHolds, PTL

(* That runs end and clients are served stays with TLC; what it rests on   *)
(* is that somebody can always go on: a statement that has a connection    *)
(* ends, one that waits gets a connection that is free, or a group whose   *)
(* workers make none ends or has another chunk to load.                    *)
SomebodyCanGo ==
  \/ \E a \in using : Waits(a)
  \/ \E a \in Actors : Waits(a) /\ a \notin using /\ InUse < Pool
  \/ \E e \in Engines : pc[e] = "group" /\ chunks[e] = 0 /\ asking \cap ({e} \X Workers) = {}
  \/ \E l \in Loaders : pc[l[1]] = "group" /\ chunks[l[1]] > 0 /\ l \notin asking

(* While fewer runs go on than the pool has connections, runs, workers and *)
(* handlers never all wait for one another's connections, in whatever      *)
(* phase each of them is (postgres.go:11-16, engine.go:70-470), and runs   *)
(* that listen to their agents do not stop the others.                     *)
Working == {e \in Unfinished : pc[e] # "listening"}

THEOREM NeverStuck ==
  ASSUME EnoughConnections, Workers # {}
  PROVE  Spec => [](Working # {} \/ asking # {} => SomebodyCanGo)
<1>1. ASSUME IndInv, Working # {} \/ asking # {}, ~SomebodyCanGo PROVE FALSE
  <2>1. using = {}
    BY <1>1, SMT DEF SomebodyCanGo, IndInv, UsingOK
  <2>2. InUse < Pool
    <3>1. Cardinality(using) = 0
      BY <2>1, FS_EmptySet
    <3>2. Cardinality(held) < Pool /\ Cardinality(held) \in Nat
      BY <1>1, <2>1, LeavesOne, RunsFinite DEF ConnectionLeft, IndInv
    <3>. QED  BY <3>1, <3>2 DEF InUse
  <2>3. \A a \in Actors : ~Waits(a)
    BY <1>1, <2>1, <2>2 DEF SomebodyCanGo
  <2>4. asking = {}
    <3>1. asking \subseteq Actors /\ \A a \in asking : Waits(a)
      BY <1>1 DEF IndInv, Types, Actors, Waits
    <3>. QED  BY <2>3, <3>1
  <2>5. PICK e \in Engines : pc[e] = "group"
    <3>1. PICK e \in Engines : pc[e] \notin {"new", "listening", "done"}
      BY <1>1, <2>4 DEF Working, Unfinished
    <3>2. pc[e] \notin Statements
      BY <2>3, <3>1 DEF Waits, Actors
    <3>. QED  BY <1>1, <3>1, <3>2, SMT DEF IndInv, Types
  <2>6. PICK w \in Workers : TRUE
    OBVIOUS
  <2>7. chunks[e] \in Nat
    BY <1>1, PoolAssumption, SMT DEF IndInv, Types
  <2>8. CASE chunks[e] = 0
    BY <1>1, <2>4, <2>5, <2>8 DEF SomebodyCanGo
  <2>9. CASE chunks[e] > 0
    <3>1. <<e, w>> \in Loaders
      BY DEF Loaders
    <3>2. PICK l \in Loaders : l = <<e, w>>
      BY <3>1
    <3>3. l[1] = e
      BY <3>2
    <3>. QED  BY <1>1, <2>4, <2>5, <2>9, <3>3 DEF SomebodyCanGo
  <2>. QED  BY <2>7, <2>8, <2>9
<1>2. IndInv => (Working # {} \/ asking # {} => SomebodyCanGo)
  BY <1>1
<1>. QED  BY <1>2, IndInvHolds, PTL
=============================================================================
