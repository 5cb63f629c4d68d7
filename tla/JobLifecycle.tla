---------------------------- MODULE JobLifecycle ----------------------------
(***************************************************************************)
(* The life of a synchronisation job: the SD_JOBS row that the dashboard   *)
(* shows, the API handlers that write it (handlers/jobs.go and             *)
(* handlers/network.go), the scheduler that inserts one per tick           *)
(* (syncengine/scheduler.go), and the engine goroutines that execute it    *)
(* (syncengine/engine.go).                                                 *)
(*                                                                         *)
(* Every SQL statement is one atomic step.  A goroutine keeps nothing      *)
(* locked between two statements, so everything between them interleaves:  *)
(* this is where an abort meets a completion, a reset meets a second       *)
(* start, and the concurrency limit meets the rows it counts.              *)
(***************************************************************************)
EXTENDS Integers, FiniteSets

CONSTANTS
  Jobs,           \* SD_JOBS.id values: SERIAL, fresh as long as the server lives
  Nets,           \* M_SCHEMA_JOBS.m_schema_job_id values
  Runs,           \* goroutines that call ExecuteSync (bounds a behaviour)
  NoJob, NoNet,   \* SQL NULL
  Limits,         \* what reading the setting cons_max_jobs may give (10 when missing)
  MaxJobs,        \* the largest of them
  ProgressStart,  \* progress written with 'running'           (5 in the code)
  ProgressCap,    \* highest progress a chunk may write        (98 in the code)
  ProgressDone,   \* progress written with 'completed'         (100 in the code)
  MaxRestarts,    \* bound on server crashes
  MaxFaults       \* bound on statements the database does not execute

ASSUME ConstantsAssumption ==
  /\ IsFiniteSet(Jobs) /\ IsFiniteSet(Runs)
  /\ NoJob \notin Jobs /\ NoNet \notin Nets
  /\ MaxJobs \in Nat /\ Limits \subseteq Int /\ \A limit \in Limits : limit <= MaxJobs
  /\ ProgressStart \in Nat /\ ProgressCap \in Nat /\ ProgressDone \in Nat
  /\ 0 < ProgressStart /\ ProgressStart <= ProgressCap
  /\ ProgressCap < ProgressDone
  /\ MaxRestarts \in Nat /\ MaxFaults \in Nat

VARIABLES
  status,    \* SD_JOBS.status, or "absent" / "deleted" where there is no row
  progress,  \* SD_JOBS.progress
  net,       \* SD_JOBS.network_id
  schema,    \* whether SD_JOBS.schema_id is set
  network,   \* M_SCHEMA_JOBS: "absent", "bare" (schema_id NULL) or "mapped"
  second,    \* what a handler or the scheduler still has to write for a network
  phase,     \* where each goroutine stands in ExecuteSync and its caller
  runJob,    \* the job it was started for
  waiting,   \* goroutines blocked: no connection is free, or no agent sends
  quiet,     \* history: nothing has yet happened that the limit ignores
  orphans,   \* history: rows left 'running' by a crash or a lost last write
  restarts,
  faults

rowVars  == <<status, progress, net, schema>>
netVars  == <<network, second>>
histVars == <<quiet, orphans>>
vars     == <<rowVars, netVars, phase, runJob, waiting, histVars, restarts, faults>>

RowStatus == {"pending", "running", "aborted", "failed", "completed"}
Phase     == {"unused", "spawned", "admitted", "loaded", "working",
              "failing", "done", "lost"}

(* The statement on the job row that follows one on the network: the       *)
(* INSERT of CreateNetwork, the upsert of UpdateNetwork, the scheduler's.  *)
Statement == [do : {"none", "insert", "upsert", "cron"}, schema : BOOLEAN]
Nothing   == [do |-> "none", schema |-> FALSE]

-----------------------------------------------------------------------------
(* Reading the tables. *)

Exists(j)     == status[j] \in RowStatus
RunningRows   == {j \in Jobs : status[j] = "running"}
JobOfNet(n)   == {j \in Jobs : Exists(j) /\ net[j] = n}

(* Goroutines that have not returned, and those past the limit check that  *)
(* have not met an error.                                                  *)
Active        == {r \in Runs : phase[r] \in {"spawned", "admitted", "loaded",
                                             "working", "failing"}}
Executing     == {r \in Runs : phase[r] \in {"admitted", "loaded", "working"}}
EnginesOf(j)  == {r \in Active : runJob[r] = j}

(* The job, network and schema that ExecuteSync joins before it starts.    *)
Loadable(j)   == /\ Exists(j)
                 /\ net[j] \in Nets /\ network[net[j]] # "absent"
                 /\ schema[j]

-----------------------------------------------------------------------------
(* Writing a row: an UPDATE by primary key changes nothing when the row    *)
(* was deleted.                                                            *)

SetStatus(j, s) ==
  status' = IF Exists(j) THEN [status EXCEPT ![j] = s] ELSE status
SetProgress(j, p) ==
  progress' = IF Exists(j) THEN [progress EXCEPT ![j] = p] ELSE progress

(* An INSERT: a fresh id, a foreign key that exists, UNIQUE(network_id).   *)
InsertRow(j, n, s) ==
  /\ status[j] = "absent"
  /\ n = NoNet \/ JobOfNet(n) = {}
  /\ status'   = [status EXCEPT ![j] = "pending"]
  /\ progress' = [progress EXCEPT ![j] = 0]
  /\ net'      = [net EXCEPT ![j] = n]
  /\ schema'   = [schema EXCEPT ![j] = s]

(* go func() { ExecuteSync ... }() *)
Spawn(r, j) ==
  /\ phase[r] = "unused"
  /\ phase'  = [phase EXCEPT ![r] = "spawned"]
  /\ runJob' = [runJob EXCEPT ![r] = j]

Goto(r, p) == phase' = [phase EXCEPT ![r] = p]

-----------------------------------------------------------------------------
(* Handlers: networks and jobs. *)

CreateNetwork(n, s) ==
  /\ network[n] = "absent" /\ second[n] = Nothing
  /\ network' = [network EXCEPT ![n] = IF s THEN "mapped" ELSE "bare"]
  /\ second' = [second EXCEPT ![n] = [do |-> "insert", schema |-> s]]
  /\ UNCHANGED <<rowVars, phase, runJob, histVars, restarts, faults>>

UpdateNetwork(n, s) ==
  /\ network[n] # "absent" /\ second[n] = Nothing
  /\ network' = [network EXCEPT ![n] = IF s THEN "mapped" ELSE "bare"]
  /\ second' = [second EXCEPT ![n] = [do |-> "upsert", schema |-> s]]
  /\ UNCHANGED <<rowVars, phase, runJob, histVars, restarts, faults>>

(* The second statement of these two; its failure is only logged.  ON      *)
(* CONFLICT (network_id) DO UPDATE leaves the status alone.                *)
MirrorJob(n) ==
  /\ second[n].do \in {"insert", "upsert"}
  /\ second' = [second EXCEPT ![n] = Nothing]
  /\ \/ /\ network[n] # "absent"
        /\ \E j \in Jobs : InsertRow(j, n, second[n].schema)
     \/ /\ second[n].do = "upsert" /\ JobOfNet(n) # {}
        /\ schema' = [j \in Jobs |-> IF j \in JobOfNet(n) THEN second[n].schema
                                                        ELSE schema[j]]
        /\ UNCHANGED <<status, progress, net>>
     \/ UNCHANGED rowVars
  /\ UNCHANGED <<network, phase, runJob, histVars, restarts, faults>>

DeleteNetwork(n) ==
  /\ network[n] # "absent"
  /\ network' = [network EXCEPT ![n] = "absent"]
  /\ net' = [j \in Jobs |-> IF net[j] = n THEN NoNet ELSE net[j]]
  /\ UNCHANGED <<status, progress, schema, second, phase, runJob, histVars,
                 restarts, faults>>

(* Whoever used the schema (networks ns, jobs js) is left without one, and *)
(* a statement that is still to name it can only fail.                     *)
DeleteSchema(ns, js) ==
  /\ network' = [n \in Nets |-> IF n \in ns /\ network[n] = "mapped"
                                THEN "bare" ELSE network[n]]
  /\ second' = [n \in Nets |-> IF n \in ns /\ network[n] = "mapped"
                               THEN Nothing ELSE second[n]]
  /\ schema' = [j \in Jobs |-> schema[j] /\ j \notin js]
  /\ UNCHANGED <<status, progress, net, phase, runJob, histVars, restarts,
                 faults>>

CreateJob(j, n, s) ==
  /\ n # NoNet => network[n] # "absent"
  /\ InsertRow(j, n, s)
  /\ UNCHANGED <<netVars, phase, runJob, histVars, restarts, faults>>

(* The statuses StartJob accepts: 'aborted' is not among them. *)
StartableOrRunning == {"pending", "failed", "completed", "running"}
Startable          == {"pending", "failed", "completed"}

StartJob(j, r) ==
  /\ status[j] \in Startable
  /\ status'   = [status EXCEPT ![j] = "running"]
  /\ progress' = [progress EXCEPT ![j] = 0]
  /\ Spawn(r, j)
  /\ UNCHANGED <<net, schema, netVars, histVars, restarts, faults>>

(* Abort, reset and delete write the row and tell no engine: a goroutine   *)
(* of the job that is under way keeps going.                               *)
Overtake(j) ==
  /\ quiet'   = (quiet /\ EnginesOf(j) = {})
  /\ orphans' = orphans \ {j}

AbortJob(j) ==
  /\ status[j] = "running"
  /\ SetStatus(j, "aborted")
  /\ Overtake(j)
  /\ UNCHANGED <<progress, net, schema, netVars, phase, runJob, restarts,
                 faults>>

ResetJobKeepingProgress(j) ==
  /\ Exists(j)
  /\ SetStatus(j, "pending")
  /\ Overtake(j)
  /\ UNCHANGED <<progress, net, schema, netVars, phase, runJob, restarts,
                 faults>>
ResetJob(j) ==
  /\ Exists(j)
  /\ SetStatus(j, "pending")
  /\ SetProgress(j, 0)
  /\ Overtake(j)
  /\ UNCHANGED <<net, schema, netVars, phase, runJob, restarts, faults>>

DeleteJob(j) ==
  /\ Exists(j)
  /\ SetStatus(j, "deleted")
  /\ net' = [net EXCEPT ![j] = NoNet]
  /\ Overtake(j)
  /\ UNCHANGED <<progress, schema, netVars, phase, runJob, restarts, faults>>

(* The scheduler's callback reads the network, which must have a schema,   *)
(* and inserts a row of its own for the run, still 'pending' when the      *)
(* goroutine starts.  It gives up when the network already has a row.      *)
ReadNetwork(n) ==
  /\ network[n] = "mapped" /\ second[n] = Nothing
  /\ second' = [second EXCEPT ![n] = [do |-> "cron", schema |-> TRUE]]
  /\ UNCHANGED <<rowVars, network, phase, runJob, histVars, restarts, faults>>

TriggerJob(n, j, r) ==
  /\ second[n].do = "cron" /\ network[n] # "absent"
  /\ second' = [second EXCEPT ![n] = Nothing]
  /\ InsertRow(j, n, TRUE)
  /\ Spawn(r, j)
  /\ quiet' = FALSE
  /\ UNCHANGED <<network, orphans, restarts, faults>>

TriggerFails(n) ==
  /\ second[n].do = "cron"
  /\ second' = [second EXCEPT ![n] = Nothing]
  /\ UNCHANGED <<rowVars, network, phase, runJob, histVars, restarts, faults>>

-----------------------------------------------------------------------------
(* ExecuteSync, one action per statement that meets the database. *)

AtLimitOffByOne(limit) == Cardinality(RunningRows) > limit
AtLimit(limit)         == Cardinality(RunningRows) >= limit

Admit(r) ==
  /\ phase[r] = "spawned"
  /\ \E limit \in Limits : ~AtLimit(limit)
  /\ Goto(r, "admitted")
  /\ UNCHANGED <<rowVars, netVars, runJob, histVars, restarts, faults>>

Reject(r) ==
  /\ phase[r] = "spawned"
  /\ \E limit \in Limits : AtLimit(limit)
  /\ Goto(r, "failing")
  /\ UNCHANGED <<rowVars, netVars, runJob, histVars, restarts, faults>>

(* The error of the counting query is dropped and the count stays 0.       *)
AdmitUncounted(r) ==
  /\ phase[r] = "spawned"
  /\ faults < MaxFaults
  /\ faults' = faults + 1
  /\ \E limit \in Limits : Goto(r, IF limit > 0 THEN "admitted" ELSE "failing")
  /\ quiet' = FALSE
  /\ UNCHANGED <<rowVars, netVars, runJob, orphans, restarts>>

LoadJob(r) ==
  /\ phase[r] = "admitted"
  /\ Loadable(runJob[r])
  /\ Goto(r, "loaded")
  /\ UNCHANGED <<rowVars, netVars, runJob, histVars, restarts, faults>>

LoadFails(r) ==
  /\ phase[r] = "admitted"
  /\ Goto(r, "failing")
  /\ UNCHANGED <<rowVars, netVars, runJob, histVars, restarts, faults>>

MarkRunning(r) ==
  /\ phase[r] = "loaded"
  /\ SetStatus(runJob[r], "running")
  /\ SetProgress(runJob[r], ProgressStart)
  /\ Goto(r, "working")
  /\ UNCHANGED <<net, schema, netVars, runJob, histVars, restarts, faults>>

(* A pipeline worker reports one chunk. *)
ChunkProgressUncapped(p) == p + 1
ChunkProgress(p)         == IF p < ProgressCap THEN p + 1 ELSE ProgressCap

ReportChunk(r) ==
  /\ phase[r] = "working"
  /\ SetProgress(runJob[r], ChunkProgress(progress[runJob[r]]))
  /\ UNCHANGED <<status, net, schema, netVars, phase, runJob, histVars,
                 restarts, faults>>

(* A driver is unknown, a handshake, a truncate or a rule fails. *)
PipelineFails(r) ==
  /\ phase[r] = "working"
  /\ Goto(r, "failing")
  /\ UNCHANGED <<rowVars, netVars, runJob, histVars, restarts, faults>>

Complete(r) ==
  /\ phase[r] = "working"
  /\ SetStatus(runJob[r], "completed")
  /\ SetProgress(runJob[r], ProgressDone)
  /\ orphans' = orphans \ {runJob[r]}
  /\ Goto(r, "done")
  /\ UNCHANGED <<net, schema, netVars, runJob, quiet, restarts, faults>>

(* The goroutine that called ExecuteSync records its error. *)
ForgetFailure(r) ==
  /\ phase[r] = "failing"
  /\ Goto(r, "done")
  /\ UNCHANGED <<rowVars, netVars, runJob, histVars, restarts, faults>>
RecordFailure(r) ==
  /\ phase[r] = "failing"
  /\ SetStatus(runJob[r], "failed")
  /\ orphans' = orphans \ {runJob[r]}
  /\ Goto(r, "done")
  /\ UNCHANGED <<progress, net, schema, netVars, runJob, quiet, restarts,
                 faults>>

(* The engine drops the error of every one of its UPDATEs. *)
LoseWrite(r) ==
  /\ phase[r] \in {"loaded", "working", "failing"}
  /\ faults < MaxFaults
  /\ faults' = faults + 1
  /\ Goto(r, IF phase[r] = "loaded" THEN "working" ELSE "done")
  /\ orphans' = IF phase[r] # "loaded" /\ status[runJob[r]] = "running"
                THEN orphans \union {runJob[r]} ELSE orphans
  /\ UNCHANGED <<rowVars, netVars, runJob, quiet, restarts>>

(* A run waits where its code does, without a timeout: any statement for a *)
(* connection of the pool, the listener of a remote rule for a batch or a  *)
(* close.  Nothing says that the wait ends.                                *)
Wait(r) ==
  /\ r \in Active \ waiting
  /\ waiting' = waiting \union {r}
Resume(r) ==
  /\ r \in waiting
  /\ waiting' = waiting \ {r}

(* The server dies and comes back: the rows stay, the goroutines do not,   *)
(* and nothing at start-up looks at rows left 'running'.                   *)
Restart ==
  /\ restarts < MaxRestarts
  /\ restarts' = restarts + 1
  /\ phase' = [r \in Runs |-> IF r \in Active THEN "lost" ELSE phase[r]]
  /\ second' = [n \in Nets |-> Nothing]
  /\ waiting' = {}
  /\ orphans' = orphans \union RunningRows
  /\ UNCHANGED <<rowVars, network, runJob, quiet, faults>>

-----------------------------------------------------------------------------
Init ==
  /\ status   = [j \in Jobs |-> "absent"]
  /\ progress = [j \in Jobs |-> 0]
  /\ net      = [j \in Jobs |-> NoNet]
  /\ schema   = [j \in Jobs |-> FALSE]
  /\ network  = [n \in Nets |-> "absent"]
  /\ second   = [n \in Nets |-> Nothing]
  /\ phase    = [r \in Runs |-> "unused"]
  /\ runJob   = [r \in Runs |-> NoJob]
  /\ waiting  = {}
  /\ quiet    = TRUE
  /\ orphans  = {}
  /\ restarts = 0
  /\ faults   = 0

NetworkStep ==
  \E n \in Nets :
    \/ \E s \in BOOLEAN : CreateNetwork(n, s) \/ UpdateNetwork(n, s)
    \/ MirrorJob(n) \/ DeleteNetwork(n)
    \/ ReadNetwork(n) \/ TriggerFails(n)
    \/ \E j \in Jobs, r \in Runs : TriggerJob(n, j, r)

SchemaStep ==
  \E ns \in SUBSET Nets, js \in SUBSET Jobs : DeleteSchema(ns, js)

JobStep ==
  \E j \in Jobs :
    \/ \E n \in Nets \union {NoNet}, s \in BOOLEAN : CreateJob(j, n, s)
    \/ \E r \in Runs : StartJob(j, r)
    \/ AbortJob(j)
    \/ ResetJob(j)
    \/ DeleteJob(j)

(* What a goroutine that is not blocked does next of its own accord. *)
EngineStep(r) ==
  /\ r \notin waiting /\ UNCHANGED waiting
  /\ \/ Admit(r) \/ Reject(r)
     \/ LoadJob(r) \/ LoadFails(r)
     \/ MarkRunning(r)
     \/ PipelineFails(r) \/ Complete(r)
     \/ RecordFailure(r)

RunStep ==
  \E r \in Runs :
    \/ EngineStep(r)
    \/ /\ ReportChunk(r) \/ AdmitUncounted(r) \/ LoseWrite(r)
       /\ r \notin waiting /\ UNCHANGED waiting

WaitStep ==
  /\ \E r \in Runs : Wait(r) \/ Resume(r)
  /\ UNCHANGED <<rowVars, netVars, phase, runJob, histVars, restarts, faults>>

Next ==
  \/ (NetworkStep \/ SchemaStep \/ JobStep) /\ UNCHANGED waiting
  \/ RunStep \/ WaitStep
  \/ Restart

Spec == Init /\ [][Next]_vars

(* A goroutine is scheduled, and a driver call or a statement that has its *)
(* connection returns.  A wait may last for ever; but a run waits finitely *)
(* often (its statements and the batches of its rules are finitely many),  *)
(* so one that is not blocked for good goes on: strong fairness.  No user  *)
(* is obliged to do anything.                                              *)
FairSpec == Spec /\ \A r \in Runs : SF_vars(EngineStep(r))

-----------------------------------------------------------------------------
(* A goroutine that was started knows its job. *)
StartedHasJob == \A r \in Runs : phase[r] # "unused" => runJob[r] \in Jobs

TypeOK ==
  /\ status   \in [Jobs -> RowStatus \union {"absent", "deleted"}]
  /\ progress \in [Jobs -> 0..ProgressDone]
  /\ net      \in [Jobs -> Nets \union {NoNet}]
  /\ schema   \in [Jobs -> BOOLEAN]
  /\ network  \in [Nets -> {"absent", "bare", "mapped"}]
  /\ second   \in [Nets -> Statement]
  /\ phase    \in [Runs -> Phase]
  /\ runJob   \in [Runs -> Jobs \union {NoJob}]
  /\ waiting  \in SUBSET Runs
  /\ quiet    \in BOOLEAN
  /\ orphans  \in SUBSET Jobs
  /\ StartedHasJob
  /\ restarts \in 0..MaxRestarts
  /\ faults   \in 0..MaxFaults

(***************************************************************************)
(* What holds.                                                             *)
(***************************************************************************)

(* A row reads 'running' only while a goroutine works on it, unless a      *)
(* crash or a lost write orphaned it: every way out of ExecuteSync ends in *)
(* a status write (engine.go:460, jobs.go:226, scheduler.go:144).          *)
RunningHasEngine ==
  \A j \in Jobs : status[j] = "running" => EnginesOf(j) # {} \/ j \in orphans

(* As long as nobody overtook an engine (abort, reset or delete under way),*)
(* no cron run started and no count was lost, a job has one engine: the    *)
(* status guard of StartJob (jobs.go:204) is what excludes a second one.   *)
QuietExclusive ==
  quiet => \A r, s \in Active : runJob[r] = runJob[s] => r = s

(* Under the same condition the limit holds with one slot to spare: the    *)
(* check of engine.go:73 counts the row that StartJob already marked, so   *)
(* fewer than cons_max_jobs engines execute.                               *)
QuietLimit ==
  quiet => Executing = {} \/ Cardinality(Executing) < MaxJobs

(* Under the same condition progress and status agree: the full bar is     *)
(* shown exactly on completed jobs, an empty one on pending jobs           *)
(* (engine.go:423, engine.go:460, jobs.go:204, jobs.go:268).               *)
QuietProgress ==
  quiet => \A j \in Jobs :
             /\ status[j] = "completed" <=> Exists(j) /\ progress[j] = ProgressDone
             /\ status[j] = "pending" => progress[j] = 0

(* What the above rest on: as long as nothing overtakes a goroutine, the   *)
(* row of its job reads 'running'.                                         *)
QuietRunning == quiet => \A r \in Active : status[runJob[r]] = "running"

(* The inductive invariant: what StartJob (jobs.go:204) and the engine's   *)
(* status writes (engine.go:180, 460) keep true together.                  *)
IndInv ==
  /\ TypeOK
  /\ RunningHasEngine
  /\ QuietRunning
  /\ QuietExclusive
  /\ QuietLimit
  /\ QuietProgress

(* A run of a job waits for a connection or for its agent.                 *)
Held(j) == \E r \in waiting : runJob[r] = j

(* Whatever overtakes its engines, a row that reads 'running' gets another *)
(* status, is one of the orphans that only a user's abort or reset can     *)
(* free (jobs.go:222-230), or from then on always has an engine that waits *)
(* without a timeout for a connection (engine.go:167) or for its agent     *)
(* (engine.go:326-362): there is no other way to read 'running' for ever.  *)
RunningSettles ==
  \A j \in Jobs :
    [](status[j] = "running" =>
         <>(status[j] # "running" \/ j \in orphans \/ []Held(j)))

(***************************************************************************)
(* What the code or its messages say and the program does not do.          *)
(***************************************************************************)

(* consolidation-settings/page.tsx:298 "Query Timeout (Seconds)": the      *)
(* setting only bounds the handshakes (engine.go:193-196), a run that has  *)
(* started need not come to an end.                                        *)
RunsComeToAnEnd ==
  \A j \in Jobs : status[j] = "running" ~> status[j] # "running" \/ j \in orphans

(* engine.go:70 "Enforce Max Concurrent Jobs configuration".               *)
LimitEnforced == Cardinality(Executing) <= MaxJobs

(* jobs.go:213 answers a start with "Job not found or already running":    *)
(* a job under way cannot be started again.                                *)
OneEnginePerJob == \A r, s \in Active : runJob[r] = runJob[s] => r = s

(* jobs.go:257 "Job aborted successfully": an aborted job stays aborted    *)
(* until somebody resets or deletes it.                                    *)
AbortIsFinal ==
  [][\A j \in Jobs : status[j] = "aborted" =>
        status'[j] \in {"aborted", "pending", "deleted"}]_vars

(* engine.go:74 "system-wide concurrent jobs limit reached": a run is      *)
(* turned away only when that many other engines are executing.            *)
RejectedOnlyAtLimit ==
  [][\A r \in Runs : phase[r] = "spawned" /\ phase'[r] = "failing" =>
        Cardinality(Active \ {r}) >= MaxJobs]_vars
=============================================================================
