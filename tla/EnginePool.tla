----------------------------- MODULE EnginePool -----------------------------
(***************************************************************************)
(* The connections of the master's pool.  A run of the sync engine keeps   *)
(* the cursor of its schema rules open while it goes through them, hence   *)
(* one connection, and every other statement needs a second one: those of  *)
(* the run, those of the workers that load its chunks, and those of the    *)
(* request handlers, the scheduler and the cleaner (clients), which hold   *)
(* one connection at a time.  A statement waits for a connection without a *)
(* timeout: the context is context.Background().                           *)
(***************************************************************************)
EXTENDS Naturals, FiniteSets

CONSTANTS Engines,    \* calls of ExecuteSync
          Workers,    \* the loaders of a run, numbered alike in every run
          Clients,
          Pool,       \* connections of the pool
          AtOnce,     \* runs at a time, see JobLifecycle!QuietLimit
          MaxRules, MaxChunks   \* bounds on the rules of a run and the chunks of a rule

Loaders == Engines \X Workers

ASSUME PoolAssumption ==
  /\ IsFiniteSet(Engines) /\ IsFiniteSet(Workers)
  /\ Pool \in Nat /\ AtOnce \in Nat
  /\ MaxRules \in Nat /\ MaxChunks \in Nat
  /\ Engines \cap Loaders = {} /\ Clients \cap (Engines \cup Loaders) = {}

(* Nothing ensures it: cons_max_jobs is 10 unless set, and the pool has    *)
(* pgxpool's default size, the larger of 4 and the number of CPUs.         *)
EnoughConnections == AtOnce < Pool

Actors == Engines \cup Loaders \cup Clients

VARIABLES
  pc,              \* each run: the statement that is next, or where it is without one
  rules, chunks,   \* rules left; chunks of the rule that are not yet with a worker
  broken,          \* the runs whose errgroup was cancelled
  asking,          \* the loaders and clients that have a statement to make
  using,           \* the actors whose statement has a connection
  held             \* the runs whose cursor has one

work == <<rules, chunks, broken>>
vars == <<pc, work, asking, using, held>>

Statements == {"admit", "load", "open", "mark", "rule", "threads", "batch", "advance", "complete", "report", "record"}
Unfinished == {e \in Engines : pc[e] \notin {"new", "done"}}
Waits(a) == a \in asking \/ (a \in Engines /\ pc[a] \in Statements)
InUse == Cardinality(using) + Cardinality(held)

Init ==
  /\ pc = [e \in Engines |-> "new"]
  /\ rules = [e \in Engines |-> 0] /\ chunks = [e \in Engines |-> 0]
  /\ broken = {} /\ asking = {} /\ using = {} /\ held = {}

-----------------------------------------------------------------------------
(* Variant: the connection is not counted. *)
AcquireUncounted(a) ==
  /\ Waits(a) /\ a \notin using
  /\ using' = using \cup {a}
  /\ UNCHANGED <<pc, work, asking, held>>

(* pgxpool gives a statement a connection, or makes it wait.               *)
Acquire(a) ==
  /\ Waits(a) /\ a \notin using
  /\ InUse < Pool
  /\ using' = using \cup {a}
  /\ UNCHANGED <<pc, work, asking, held>>

(* A run makes statement s, gives its connection back and goes on to next. *)
Makes(e, s, next) ==
  /\ pc[e] = s /\ e \in using
  /\ using' = using \ {e}
  /\ pc' = [pc EXCEPT ![e] = next]
  /\ UNCHANGED asking

(* go func() { ExecuteSync }, of a handler or a cron entry.                *)
Start(e) ==
  /\ pc[e] = "new" /\ Cardinality(Unfinished) < AtOnce
  /\ pc' = [pc EXCEPT ![e] = "admit"]
  /\ UNCHANGED <<work, asking, using, held>>

(* The limit, the job, the network: several statements one after another   *)
(* count as one; each may end the run with a line in the log.              *)
Admit(e) ==
  /\ \E next \in {"load", "report"} : Makes(e, "admit", next)
  /\ UNCHANGED <<work, held>>

LoadJob(e) ==
  /\ \E next \in {"open", "report"} : Makes(e, "load", next)
  /\ UNCHANGED <<work, held>>

(* Query keeps the connection for the cursor.                              *)
OpenRules(e) ==
  /\ \/ Makes(e, "open", "mark") /\ held' = held \cup {e}
     \/ Makes(e, "open", "report") /\ held' = held
  /\ rules' \in {[rules EXCEPT ![e] = n] : n \in 0..MaxRules}
  /\ UNCHANGED <<chunks, broken>>

(* rows.Next: the next rule, or the end, which closes the cursor.          *)
Advances(e, s) ==
  \/ /\ rules[e] > 0
     /\ Makes(e, s, "rule")
     /\ rules' = [rules EXCEPT ![e] = @ - 1] /\ held' = held
  \/ /\ rules[e] = 0
     /\ Makes(e, s, "complete")
     /\ held' = held \ {e} /\ rules' = rules

(* Status, drivers and handshakes.                                         *)
MarkRunning(e) ==
  /\ \/ Advances(e, "mark")
     \/ Makes(e, "mark", "report") /\ UNCHANGED <<rules, held>>
  /\ UNCHANGED <<chunks, broken>>

(* Pre-queries and truncation; then the producer runs.                     *)
BeginRule(e) ==
  /\ \/ /\ Makes(e, "rule", "threads")
        /\ chunks' \in {[chunks EXCEPT ![e] = n] : n \in 0..MaxChunks}
     \/ Makes(e, "rule", "report") /\ UNCHANGED chunks
  /\ broken' = broken \ {e}
  /\ UNCHANGED <<rules, held>>

(* Of a distributed node: DispatchSync sends the rule to the agent, and    *)
(* the run listens, or it returns the error.                               *)
Dispatch(e) ==
  /\ \/ Makes(e, "rule", "listening") /\ held' = held
     \/ Makes(e, "rule", "record") /\ held' = held \ {e}
  /\ UNCHANGED work

(* The listener: a batch that is loaded, which is logged, or fails, or the *)
(* close of the channel.  It waits for the agent, with its cursor open.    *)
Listen(e) ==
  /\ pc[e] = "listening"
  /\ pc' \in {[pc EXCEPT ![e] = next] : next \in {"batch", "report", "advance"}}
  /\ UNCHANGED <<work, asking, using, held>>

LogBatch(e) ==
  /\ Makes(e, "batch", "listening")
  /\ UNCHANGED <<work, held>>

(* cons_worker_threads is read, and the workers start.                     *)
StartWorkers(e) ==
  /\ Makes(e, "threads", "group")
  /\ UNCHANGED <<work, held>>

(* A worker has loaded a chunk and logs it and counts its rows.            *)
TakeChunk(l) ==
  /\ pc[l[1]] = "group" /\ chunks[l[1]] > 0 /\ l \notin asking
  /\ asking' = asking \cup {l}
  /\ chunks' = [chunks EXCEPT ![l[1]] = @ - 1]
  /\ UNCHANGED <<pc, rules, broken, using, held>>

Report(a) ==
  /\ a \in asking /\ a \in using
  /\ asking' = asking \ {a} /\ using' = using \ {a}
  /\ UNCHANGED <<pc, work, held>>

(* An error cancels groupCtx: who waits for a connection gives up.         *)
Break(e) ==
  /\ pc[e] = "group" /\ e \notin broken
  /\ broken' = broken \cup {e}
  /\ chunks' = [chunks EXCEPT ![e] = 0]
  /\ asking' = {a \in asking : a \in using \/ a \notin {e} \X Workers}
  /\ UNCHANGED <<pc, rules, using, held>>

(* g.Wait returns.                                                         *)
Wait(e) ==
  /\ pc[e] = "group" /\ chunks[e] = 0 /\ asking \cap ({e} \X Workers) = {}
  /\ pc' = [pc EXCEPT ![e] = IF e \in broken THEN "report" ELSE "advance"]
  /\ UNCHANGED <<work, asking, using, held>>

(* Post-queries, the log and the high-water mark.                          *)
FinishRule(e) ==
  /\ Advances(e, "advance")
  /\ UNCHANGED <<chunks, broken>>

Complete(e) ==
  /\ Makes(e, "complete", "done")
  /\ UNCHANGED <<work, held>>

(* Variant: rows is not closed when the run returns early. *)
ReturnErrorLeaking(e) ==
  /\ Makes(e, "report", "record")
  /\ UNCHANGED <<work, held>>

(* LogToDB, return err, and the deferred rows.Close.                       *)
ReturnError(e) ==
  /\ Makes(e, "report", "record")
  /\ held' = held \ {e}
  /\ UNCHANGED work

(* The caller writes 'failed'.                                             *)
RecordFailure(e) ==
  /\ Makes(e, "record", "done")
  /\ UNCHANGED <<work, held>>

-----------------------------------------------------------------------------
Request(c) ==
  /\ c \notin asking
  /\ asking' = asking \cup {c}
  /\ UNCHANGED <<pc, work, using, held>>

EngineStep(e) ==
  \/ Admit(e) \/ LoadJob(e) \/ OpenRules(e) \/ MarkRunning(e)
  \/ BeginRule(e) \/ Dispatch(e) \/ LogBatch(e) \/ StartWorkers(e) \/ Wait(e) \/ FinishRule(e)
  \/ Complete(e) \/ ReturnError(e) \/ RecordFailure(e)

Next ==
  \/ \E e \in Engines : Start(e) \/ EngineStep(e) \/ Listen(e) \/ Break(e)
  \/ \E l \in Loaders : TakeChunk(l) \/ Report(l)
  \/ \E c \in Clients : Request(c) \/ Report(c)
  \/ \E a \in Actors : Acquire(a)

(* Statements end, loads end, and the pool serves in turn whoever waits.   *)
(* Nothing makes an agent answer: a run may listen for ever.               *)
Fairness ==
  /\ \A e \in Engines : WF_vars(EngineStep(e))
  /\ \A l \in Loaders : WF_vars(TakeChunk(l))
  /\ \A a \in Loaders \cup Clients : WF_vars(Report(a))
  /\ \A a \in Actors : SF_vars(Acquire(a))

Spec == Init /\ [][Next]_vars
FairSpec == Spec /\ Fairness

-----------------------------------------------------------------------------
(* Types; the pool hands out no more connections than it has; a cursor is  *)
(* open between the query and the last rule of a run, and not outside.     *)
TypeOK ==
  /\ pc \in [Engines -> Statements \cup {"new", "group", "listening", "done"}]
  /\ rules \in [Engines -> 0..MaxRules] /\ chunks \in [Engines -> 0..MaxChunks]
  /\ broken \subseteq Engines
  /\ asking \subseteq Loaders \cup Clients
  /\ using \subseteq {a \in Actors : Waits(a)}
  /\ held \subseteq Engines
  /\ InUse =< Pool

(* The runs never hold every connection while each of them waits for one   *)
(* more: when no statement is at work a connection is free.                *)
ConnectionLeft == using = {} => Cardinality(held) < Pool

(* Runs that were started end, however many other runs, workers and        *)
(* handlers want connections and however many other runs listen with their *)
(* cursors open, and a handler gets its statement through.  Only a run     *)
(* that itself waits for its agent again and again need not end.           *)
RunsEnd == \A e \in Engines : []<>(e \notin Unfinished \/ pc[e] = "listening")
ClientsServed == []<>(asking \cap Clients = {})
=============================================================================
