------------------------- MODULE JobLifecycleProofs -------------------------
(* Proofs about JobLifecycle for any number of jobs, networks and runs.    *)
EXTENDS JobLifecycle, FiniteSetTheorems, TLAPS

(* The statements that the handlers and the scheduler leave for later.     *)
LEMMA StatementsTyped ==
  /\ Nothing \in Statement
  /\ \A s \in BOOLEAN : /\ [do |-> "insert", schema |-> s] \in Statement
                        /\ [do |-> "upsert", schema |-> s] \in Statement
                        /\ [do |-> "cron", schema |-> s] \in Statement
  /\ \A x \in Statement : x.schema \in BOOLEAN
  BY DEF Nothing, Statement

(* Every variable keeps its type under every handler, every engine step    *)
(* and every restart (handlers/jobs.go, handlers/network.go, engine.go).   *)
THEOREM TypeCorrect == Spec => []TypeOK
<1>1. Init => TypeOK
  BY ConstantsAssumption, StatementsTyped
  DEF Init, TypeOK, StartedHasJob, RowStatus, Phase
<1>2. TypeOK /\ [Next]_vars => TypeOK'
  <2>0. ASSUME TypeOK, [Next]_vars PROVE waiting' \in SUBSET Runs
    BY <2>0 DEF TypeOK, Next, RunStep, EngineStep, WaitStep, Wait, Resume, Restart,
                Active, vars
  <2> SUFFICES ASSUME TypeOK, [Next]_vars, waiting' \in SUBSET Runs PROVE TypeOK'
    BY <2>0
  <2> USE DEF TypeOK, StartedHasJob, RowStatus, Phase, netVars
  <2>1. ASSUME NEW n \in Nets, NEW s \in BOOLEAN,
               CreateNetwork(n, s) \/ UpdateNetwork(n, s) \/ MirrorJob(n)
        PROVE  TypeOK'
    <3>1. /\ network' \in [Nets -> {"absent", "bare", "mapped"}]
          /\ second' \in [Nets -> Statement]
          /\ UNCHANGED <<phase, runJob, quiet, orphans, restarts, faults>>
      BY <2>1, StatementsTyped DEF CreateNetwork, UpdateNetwork, MirrorJob, histVars
    <3>2. CASE UNCHANGED rowVars
      BY <3>1, <3>2 DEF rowVars
    <3>3. ASSUME NEW j \in Jobs, InsertRow(j, n, second[n].schema) PROVE TypeOK'
      <4>1. second[n].schema \in BOOLEAN
        BY StatementsTyped
      <4>. QED  BY <3>1, <3>3, <4>1, ConstantsAssumption DEF InsertRow
    <3>4. CASE /\ schema' = [j \in Jobs |-> IF j \in JobOfNet(n) THEN second[n].schema
                                                            ELSE schema[j]]
               /\ UNCHANGED <<status, progress, net>>
      <4>1. second[n].schema \in BOOLEAN
        BY StatementsTyped
      <4>. QED  BY <3>1, <3>4, <4>1
    <3>. QED
      BY <2>1, <3>2, <3>3, <3>4 DEF CreateNetwork, UpdateNetwork, MirrorJob
  <2>2. ASSUME NEW n \in Nets, ReadNetwork(n) \/ TriggerFails(n) PROVE TypeOK'
    BY <2>2, StatementsTyped DEF ReadNetwork, TriggerFails, rowVars, histVars
  <2>3. ASSUME NEW n \in Nets, DeleteNetwork(n) PROVE TypeOK'
    BY <2>3 DEF DeleteNetwork, histVars
  <2>4. ASSUME NEW n \in Nets, NEW j \in Jobs, NEW r \in Runs,
               TriggerJob(n, j, r)
        PROVE  TypeOK'
    <3>1. /\ UNCHANGED <<network, orphans, restarts, faults>>
          /\ quiet' \in BOOLEAN /\ second' \in [Nets -> Statement]
      BY <2>4, StatementsTyped DEF TriggerJob
    <3>2. /\ status' \in [Jobs -> RowStatus \union {"absent", "deleted"}]
          /\ progress' \in [Jobs -> 0..ProgressDone]
          /\ net' \in [Jobs -> Nets \union {NoNet}]
          /\ schema' \in [Jobs -> BOOLEAN]
      BY <2>4, ConstantsAssumption DEF TriggerJob, InsertRow
    <3>3. phase' \in [Runs -> Phase] /\ runJob' \in [Runs -> Jobs \union {NoJob}]
          /\ StartedHasJob'
      BY <2>4 DEF TriggerJob, Spawn
    <3>. QED  BY <3>1, <3>2, <3>3
  <2>5. ASSUME NEW j \in Jobs, NEW n \in Nets \union {NoNet},
               NEW s \in BOOLEAN, CreateJob(j, n, s)
        PROVE  TypeOK'
    BY <2>5, ConstantsAssumption DEF CreateJob, InsertRow, histVars
  <2>6. ASSUME NEW j \in Jobs, NEW r \in Runs, StartJob(j, r) PROVE TypeOK'
    BY <2>6, ConstantsAssumption DEF StartJob, Spawn, histVars
  <2>7. ASSUME NEW j \in Jobs, AbortJob(j) \/ ResetJob(j) \/ DeleteJob(j)
        PROVE  TypeOK'
    <3>1. /\ quiet' \in BOOLEAN /\ orphans' \in SUBSET Jobs
          /\ UNCHANGED <<schema, netVars, phase, runJob, restarts, faults>>
      BY <2>7 DEF AbortJob, ResetJob, DeleteJob, Overtake
    <3>2. status' \in [Jobs -> RowStatus \union {"absent", "deleted"}]
      BY <2>7 DEF AbortJob, ResetJob, DeleteJob, SetStatus
    <3>3. progress' \in [Jobs -> 0..ProgressDone]
      BY <2>7, ConstantsAssumption DEF AbortJob, ResetJob, DeleteJob, SetProgress
    <3>4. net' \in [Jobs -> Nets \union {NoNet}]
      BY <2>7 DEF AbortJob, ResetJob, DeleteJob
    <3>. QED  BY <3>1, <3>2, <3>3, <3>4
  <2>8. ASSUME NEW r \in Runs,
               \/ Admit(r) \/ Reject(r) \/ AdmitUncounted(r)
               \/ LoadJob(r) \/ LoadFails(r) \/ PipelineFails(r)
        PROVE  TypeOK'
    <3>1. /\ UNCHANGED <<status, progress, net, schema, netVars, runJob,
                         orphans, restarts>>
          /\ quiet' \in BOOLEAN
      BY <2>8 DEF Admit, Reject, AdmitUncounted, LoadJob, LoadFails,
                  PipelineFails, rowVars, histVars
    <3>2. faults' \in 0..MaxFaults
      BY <2>8, ConstantsAssumption
         DEF Admit, Reject, AdmitUncounted, LoadJob, LoadFails, PipelineFails
    <3>3. /\ phase[r] # "unused"
          /\ phase' = [phase EXCEPT ![r] = phase'[r]]
          /\ phase'[r] \in Phase \ {"unused"}
      BY <2>8 DEF Admit, Reject, AdmitUncounted, LoadJob, LoadFails,
                  PipelineFails, Goto
    <3>. QED  BY <3>1, <3>2, <3>3
  <2>9. ASSUME NEW r \in Runs, MarkRunning(r) PROVE TypeOK'
    BY <2>9, ConstantsAssumption
       DEF MarkRunning, SetStatus, SetProgress, Goto, histVars
  <2>10. ASSUME NEW r \in Runs, ReportChunk(r) PROVE TypeOK'
    <3>1. runJob[r] \in Jobs
      BY <2>10 DEF ReportChunk
    <3>2. ChunkProgress(progress[runJob[r]]) \in 0..ProgressDone
      BY <3>1, ConstantsAssumption DEF ChunkProgress
    <3>. QED
      BY <2>10, <3>2 DEF ReportChunk, SetProgress, histVars
  <2>11. ASSUME NEW r \in Runs, Complete(r) \/ RecordFailure(r) PROVE TypeOK'
    BY <2>11, ConstantsAssumption
       DEF Complete, RecordFailure, SetStatus, SetProgress, Goto
  <2>12. ASSUME NEW r \in Runs, LoseWrite(r) PROVE TypeOK'
    BY <2>12, ConstantsAssumption DEF LoseWrite, Goto, rowVars
  <2>13. CASE Restart
    BY <2>13, ConstantsAssumption, StatementsTyped
    DEF Restart, RunningRows, Active, rowVars
  <2>14. CASE UNCHANGED vars
    BY <2>14 DEF vars, rowVars, histVars
  <2>15. ASSUME NEW ns \in SUBSET Nets, NEW js \in SUBSET Jobs,
                DeleteSchema(ns, js)
         PROVE  TypeOK'
    BY <2>15, StatementsTyped DEF DeleteSchema, histVars
  <2>16. CASE WaitStep
    BY <2>16 DEF WaitStep, rowVars, histVars
  <2>. QED
    BY <2>1, <2>2, <2>3, <2>4, <2>5, <2>6, <2>7, <2>8, <2>9, <2>10, <2>11,
       <2>12, <2>13, <2>14, <2>15, <2>16
    DEF Next, NetworkStep, SchemaStep, JobStep, RunStep, EngineStep
<1>. QED
  BY <1>1, <1>2, PTL DEF Spec

-----------------------------------------------------------------------------
(* Fewer goroutines than rows that read 'running', if each has a row of    *)
(* its own: what makes a limit on rows a limit on engines.                 *)
LEMMA EnginesBoundedByRows ==
  ASSUME TypeOK, QuietRunning, QuietExclusive, quiet
  PROVE  /\ IsFiniteSet(Active)
         /\ Cardinality(Active) \in Nat
         /\ Cardinality(RunningRows) \in Nat
         /\ Cardinality(Active) <= Cardinality(RunningRows)
<1>1. IsFiniteSet(Active) /\ IsFiniteSet(RunningRows)
  BY ConstantsAssumption, FS_Subset DEF Active, RunningRows
<1>2. Cardinality(Active) \in Nat /\ Cardinality(RunningRows) \in Nat
  BY <1>1, FS_CardinalityType
<1> DEFINE rowOf == [r \in Active |-> runJob[r]]
<1>3. rowOf \in [Active -> RunningRows]
  BY DEF TypeOK, StartedHasJob, QuietRunning, Active, RunningRows
<1>4. ~(\E r, s \in Active : r # s /\ rowOf[r] = rowOf[s])
  BY DEF QuietExclusive
<1>5. ~(Cardinality(RunningRows) < Cardinality(Active))
  <2> SUFFICES ASSUME Cardinality(RunningRows) < Cardinality(Active)
               PROVE  FALSE
    OBVIOUS
  <2> HIDE DEF rowOf
  <2>. QED  BY <1>1, <1>3, <1>4, FS_PigeonHole
<1>. QED  BY <1>1, <1>2, <1>5

(* Fewer executing engines keep the limit. *)
LEMMA FewerExecuting ==
  ASSUME TypeOK, QuietLimit, quiet, Executing' \subseteq Executing
  PROVE  Executing' = {} \/ Cardinality(Executing') < MaxJobs
<1>1. IsFiniteSet(Executing)
  BY ConstantsAssumption, FS_Subset DEF Executing
<1>2. IsFiniteSet(Executing') /\ Cardinality(Executing') <= Cardinality(Executing)
  BY <1>1, FS_Subset
<1>3. Cardinality(Executing) \in Nat /\ Cardinality(Executing') \in Nat
  BY <1>1, <1>2, FS_CardinalityType
<1>4. CASE Executing = {}
  BY <1>4
<1>5. CASE Cardinality(Executing) < MaxJobs
  BY <1>2, <1>3, <1>5, ConstantsAssumption
<1>. QED  BY <1>4, <1>5 DEF QuietLimit

(***************************************************************************)
(* The conjuncts of IndInv besides the types, and the steps that disturb   *)
(* them, one shape of step at a time.                                      *)
(***************************************************************************)
Agreement == /\ RunningHasEngine /\ QuietRunning /\ QuietExclusive
             /\ QuietLimit /\ QuietProgress

(* A handler that at most inserts a row: networks, CreateJob.              *)
LEMMA InsertKeepsAgreement ==
  ASSUME IndInv, UNCHANGED <<phase, runJob, quiet, orphans>>,
         \/ UNCHANGED <<status, progress>>
         \/ \E j \in Jobs : /\ status[j] = "absent"
                            /\ status' = [status EXCEPT ![j] = "pending"]
                            /\ progress' = [progress EXCEPT ![j] = 0]
  PROVE  Agreement'
<1> USE DEF IndInv, TypeOK, StartedHasJob
<1>1. Active' = Active /\ Executing' = Executing
  BY DEF Active, Executing
<1>2. \A j \in Jobs : EnginesOf(j)' = EnginesOf(j)
  BY <1>1 DEF EnginesOf
<1>3. \A j \in Jobs : status[j] = "running" <=> status'[j] = "running"
  OBVIOUS
<1>4. RunningHasEngine'
  BY <1>2, <1>3 DEF RunningHasEngine
<1>5. QuietRunning'
  BY <1>1, <1>3 DEF QuietRunning, Active
<1>6. QuietExclusive'
  BY <1>1 DEF QuietExclusive
<1>7. QuietLimit'
  BY <1>1 DEF QuietLimit
<1>8. QuietProgress'
  BY ConstantsAssumption DEF QuietProgress, Exists, RowStatus
<1>. QED  BY <1>4, <1>5, <1>6, <1>7, <1>8 DEF Agreement

(* A goroutine that only moves on, without touching its row.               *)
LEMMA MoveKeepsAgreement ==
  ASSUME IndInv, NEW r \in Active, NEW p \in {"admitted", "loaded", "working", "failing"},
         Goto(r, p), UNCHANGED <<status, progress, runJob, orphans>>,
         quiet' => quiet,
         quiet' => \/ Executing' \subseteq Executing
                   \/ \E limit \in Limits : ~AtLimit(limit)
  PROVE  Agreement'
<1> USE DEF IndInv, TypeOK, StartedHasJob
<1>1. Active' = Active
  BY DEF Active, Goto
<1>2. \A j \in Jobs : EnginesOf(j)' = EnginesOf(j)
  BY <1>1 DEF EnginesOf
<1>3. RunningHasEngine'
  BY <1>2 DEF RunningHasEngine
<1>4. QuietRunning'
  BY <1>1 DEF QuietRunning, Active
<1>5. QuietExclusive'
  BY <1>1 DEF QuietExclusive
<1>6. QuietLimit'
  <2> SUFFICES ASSUME quiet' PROVE Executing' = {} \/ Cardinality(Executing') < MaxJobs
    BY DEF QuietLimit
  <2>1. CASE Executing' \subseteq Executing
    BY <2>1, FewerExecuting
  <2>2. ASSUME NEW limit \in Limits, ~AtLimit(limit)
        PROVE  Cardinality(Executing') < MaxJobs
    <3>1. Executing' \subseteq Active
      BY <1>1 DEF Executing, Active
    <3>2. /\ IsFiniteSet(Active) /\ Cardinality(Active) \in Nat
          /\ Cardinality(RunningRows) \in Nat
          /\ Cardinality(Active) <= Cardinality(RunningRows)
      BY EnginesBoundedByRows
    <3>3. /\ IsFiniteSet(Executing')
          /\ Cardinality(Executing') <= Cardinality(Active)
      BY <3>1, <3>2, FS_Subset
    <3>4. Cardinality(Executing') \in Nat
      BY <3>3, FS_CardinalityType
    <3>. QED  BY <2>2, <3>2, <3>3, <3>4, ConstantsAssumption DEF AtLimit
  <2>. QED  BY <2>1, <2>2
<1>7. QuietProgress'
  BY DEF QuietProgress, Exists
<1>. QED  BY <1>3, <1>4, <1>5, <1>6, <1>7 DEF Agreement

(* A start takes a row that nobody runs: the guard of StartJob and, under  *)
(* quiet, the agreement between rows and goroutines exclude a second one.  *)
LEMMA StartKeepsAgreement ==
  ASSUME IndInv, NEW j \in Jobs, NEW q \in Runs, StartJob(j, q)
  PROVE  Agreement'
<1> USE DEF IndInv, TypeOK, StartedHasJob, StartJob, Spawn, Startable, histVars
<1>1. Active' = Active \union {q} /\ q \notin Active
  BY DEF Active
<1>2. Executing' = Executing
  BY DEF Executing
<1>3. RunningHasEngine'
  BY <1>1 DEF RunningHasEngine, EnginesOf, Active
<1>4. QuietRunning'
  BY <1>1 DEF QuietRunning, Active
<1>5. QuietExclusive'
  <2> SUFFICES ASSUME quiet, NEW r \in Active', NEW s \in Active',
                      runJob'[r] = runJob'[s]
               PROVE  r = s
    BY DEF QuietExclusive
  <2>1. \A t \in Active : runJob[t] # j /\ runJob'[t] = runJob[t]
    BY DEF QuietRunning, Active
  <2>2. runJob'[q] = j
    OBVIOUS
  <2>. QED  BY <1>1, <2>1, <2>2 DEF QuietExclusive
<1>6. QuietLimit'
  BY <1>2 DEF QuietLimit
<1>7. QuietProgress'
  BY ConstantsAssumption DEF QuietProgress, Exists, RowStatus
<1>. QED  BY <1>3, <1>4, <1>5, <1>6, <1>7 DEF Agreement

(* A cron run ends the quiet; its row is not yet 'running'.                *)
LEMMA TriggerKeepsAgreement ==
  ASSUME IndInv, NEW n \in Nets, NEW j \in Jobs, NEW q \in Runs,
         TriggerJob(n, j, q)
  PROVE  Agreement'
<1> USE DEF IndInv, TypeOK, StartedHasJob, TriggerJob, InsertRow, Spawn
<1>1. RunningHasEngine'
  <2> SUFFICES ASSUME NEW k \in Jobs, status'[k] = "running"
               PROVE  EnginesOf(k)' # {} \/ k \in orphans'
    BY DEF RunningHasEngine
  <2>1. status[k] = "running"
    OBVIOUS
  <2>2. CASE k \in orphans
    BY <2>2
  <2>3. CASE EnginesOf(k) # {}
    <3>1. PICK r \in EnginesOf(k) : TRUE
      BY <2>3
    <3>2. r \in EnginesOf(k)'
      BY <3>1 DEF EnginesOf, Active
    <3>. QED  BY <3>2
  <2>. QED  BY <2>1, <2>2, <2>3 DEF RunningHasEngine
<1>2. ~quiet'
  OBVIOUS
<1>. QED
  BY <1>1, <1>2
  DEF Agreement, QuietRunning, QuietExclusive, QuietLimit, QuietProgress

(* Abort, reset and delete: quiet only survives where no goroutine works.  *)
LEMMA OvertakeKeepsAgreement ==
  ASSUME IndInv, NEW j \in Jobs, AbortJob(j) \/ ResetJob(j) \/ DeleteJob(j)
  PROVE  Agreement'
<1> USE DEF IndInv, TypeOK, StartedHasJob
<1>1. /\ UNCHANGED <<phase, runJob>>
      /\ quiet' = (quiet /\ EnginesOf(j) = {})
      /\ orphans' = orphans \ {j}
      /\ \E s \in {"aborted", "pending", "deleted"} :
           status' = [status EXCEPT ![j] = s]
  BY DEF AbortJob, ResetJob, DeleteJob, Overtake, SetStatus, Exists, RowStatus
<1>2. Active' = Active /\ Executing' = Executing
  BY <1>1 DEF Active, Executing
<1>3. \A k \in Jobs : EnginesOf(k)' = EnginesOf(k)
  BY <1>1, <1>2 DEF EnginesOf
<1>4. RunningHasEngine'
  BY <1>1, <1>3 DEF RunningHasEngine
<1>5. QuietRunning'
  <2> SUFFICES ASSUME quiet', NEW r \in Active'
               PROVE  status'[runJob'[r]] = "running"
    BY DEF QuietRunning
  <2>1. runJob[r] \in Jobs /\ runJob[r] # j
    BY <1>1, <1>2 DEF EnginesOf, Active
  <2>. QED  BY <1>1, <1>2, <2>1 DEF QuietRunning
<1>6. QuietExclusive'
  BY <1>1, <1>2 DEF QuietExclusive
<1>7. QuietLimit'
  BY <1>1, <1>2 DEF QuietLimit
<1>8. QuietProgress'
  BY <1>1, ConstantsAssumption
  DEF QuietProgress, AbortJob, ResetJob, DeleteJob, SetStatus, SetProgress,
      Exists, RowStatus
<1>. QED  BY <1>4, <1>5, <1>6, <1>7, <1>8 DEF Agreement

(* The engine's first write.                                               *)
LEMMA MarkKeepsAgreement ==
  ASSUME IndInv, NEW r \in Runs, MarkRunning(r)
  PROVE  Agreement'
<1> USE DEF IndInv, TypeOK, StartedHasJob, MarkRunning, Goto, histVars
<1>1. runJob[r] \in Jobs /\ r \in Active /\ r \in Executing
  BY DEF Active, Executing
<1>2. Active' = Active /\ Executing' = Executing
  BY DEF Active, Executing
<1>3. \A k \in Jobs : EnginesOf(k)' = EnginesOf(k)
  BY <1>2 DEF EnginesOf
<1>4. RunningHasEngine'
  <2>1. r \in EnginesOf(runJob[r])
    BY <1>1 DEF EnginesOf
  <2>. QED  BY <1>1, <1>3, <2>1 DEF RunningHasEngine, SetStatus
<1>5. QuietRunning'
  BY <1>1, <1>2 DEF QuietRunning, SetStatus, Active
<1>6. QuietExclusive'
  BY <1>2 DEF QuietExclusive
<1>7. QuietLimit'
  BY <1>2 DEF QuietLimit
<1>8. QuietProgress'
  BY <1>1, ConstantsAssumption
  DEF QuietProgress, QuietRunning, SetStatus, SetProgress, Exists, RowStatus
<1>. QED  BY <1>4, <1>5, <1>6, <1>7, <1>8 DEF Agreement

(* A chunk's progress stays below the full bar.                            *)
LEMMA ReportKeepsAgreement ==
  ASSUME IndInv, NEW r \in Runs, ReportChunk(r)
  PROVE  Agreement'
<1> USE DEF IndInv, TypeOK, StartedHasJob, ReportChunk, histVars
<1>1. runJob[r] \in Jobs /\ r \in Active
  BY DEF Active
<1>2. Active' = Active /\ Executing' = Executing
  BY DEF Active, Executing
<1>3. \A k \in Jobs : EnginesOf(k)' = EnginesOf(k)
  BY <1>2 DEF EnginesOf
<1>4. RunningHasEngine'
  BY <1>3 DEF RunningHasEngine
<1>5. QuietRunning' /\ QuietExclusive' /\ QuietLimit'
  BY <1>2 DEF QuietRunning, QuietExclusive, QuietLimit, Active
<1>6. QuietProgress'
  <2>1. ChunkProgress(progress[runJob[r]]) \in 0..ProgressCap
    BY <1>1, ConstantsAssumption DEF ChunkProgress
  <2>. QED
    BY <1>1, <2>1, ConstantsAssumption
    DEF QuietProgress, QuietRunning, SetProgress, Exists, RowStatus
<1>. QED  BY <1>4, <1>5, <1>6 DEF Agreement

(* The end of a run: its verdict is written, or the write is lost and the  *)
(* row joins the orphans.  Under quiet no other goroutine has that row.    *)
LEMMA EndKeepsAgreement ==
  ASSUME IndInv, NEW r \in Runs,
         \/ Complete(r) \/ RecordFailure(r)
         \/ LoseWrite(r) /\ phase[r] # "loaded"
  PROVE  Agreement'
<1> USE DEF IndInv, TypeOK, StartedHasJob
<1> DEFINE j == runJob[r]
<1>1. /\ j \in Jobs /\ r \in Active
      /\ phase' = [phase EXCEPT ![r] = "done"]
      /\ UNCHANGED <<runJob, quiet>>
  BY DEF Complete, RecordFailure, LoseWrite, Goto, Active
<1>2. Active' = Active \ {r} /\ Executing' \subseteq Executing
  BY <1>1 DEF Active, Executing
<1>3. \/ /\ status' \in {[status EXCEPT ![j] = s] : s \in {"completed", "failed"}}
         /\ Exists(j) /\ orphans' = orphans \ {j}
      \/ /\ status' = status /\ ~Exists(j) /\ orphans' = orphans \ {j}
      \/ /\ status' = status
         /\ orphans' = IF status[j] = "running" THEN orphans \union {j}
                                                ELSE orphans
  BY DEF Complete, RecordFailure, LoseWrite, SetStatus, rowVars
<1>4. RunningHasEngine'
  <2> SUFFICES ASSUME NEW k \in Jobs, status'[k] = "running"
               PROVE  EnginesOf(k)' # {} \/ k \in orphans'
    BY DEF RunningHasEngine
  <2>1. CASE k = j
    BY <1>1, <1>3, <2>1 DEF Exists, RowStatus
  <2>2. CASE k # j
    <3>1. status[k] = "running" /\ (k \in orphans => k \in orphans')
      BY <1>1, <1>3, <2>2
    <3>2. EnginesOf(k) \subseteq EnginesOf(k)'
      BY <1>1, <1>2, <2>2 DEF EnginesOf
    <3>. QED  BY <3>1, <3>2 DEF RunningHasEngine
  <2>. QED  BY <2>1, <2>2
<1>5. QuietRunning'
  <2> SUFFICES ASSUME quiet, NEW q \in Active, q # r
               PROVE  status'[runJob[q]] = "running"
    BY <1>1, <1>2 DEF QuietRunning
  <2>1. runJob[q] \in Jobs /\ runJob[q] # j
    BY <1>1 DEF QuietExclusive, Active
  <2>2. status[runJob[q]] = "running"
    BY DEF QuietRunning
  <2>. QED  BY <1>1, <1>3, <2>1, <2>2
<1>6. QuietExclusive'
  BY <1>1, <1>2 DEF QuietExclusive
<1>7. QuietLimit'
  BY <1>1, <1>2, FewerExecuting DEF QuietLimit
<1>8. QuietProgress'
  BY <1>1, ConstantsAssumption
  DEF QuietProgress, QuietRunning, Complete, RecordFailure, LoseWrite,
      SetStatus, SetProgress, Exists, RowStatus, rowVars
<1>. QED  BY <1>4, <1>5, <1>6, <1>7, <1>8 DEF Agreement

(* A restart leaves no goroutine and makes every 'running' row an orphan.  *)
LEMMA RestartKeepsAgreement ==
  ASSUME IndInv, Restart
  PROVE  Agreement'
<1> USE DEF IndInv, TypeOK, Restart, rowVars
<1>1. Active' = {} /\ Executing' = {}
  BY DEF Active, Executing, Phase
<1>2. RunningHasEngine'
  BY DEF RunningHasEngine, RunningRows
<1>3. QuietProgress'
  BY DEF QuietProgress, Exists
<1>. QED
  BY <1>1, <1>2, <1>3 DEF Agreement, QuietRunning, QuietExclusive, QuietLimit

(* The inductive invariant holds of every behaviour.                       *)
THEOREM IndInvHolds == Spec => []IndInv
<1>1. Init => IndInv
  <2> SUFFICES ASSUME Init PROVE IndInv
    OBVIOUS
  <2>1. TypeOK
    BY ConstantsAssumption, StatementsTyped
    DEF Init, TypeOK, StartedHasJob, RowStatus, Phase
  <2>2. Active = {} /\ Executing = {}
    BY DEF Init, Active, Executing
  <2>. QED
    BY <2>1, <2>2, ConstantsAssumption
    DEF Init, IndInv, RunningHasEngine, QuietRunning, QuietExclusive,
        QuietLimit, QuietProgress, Exists, RowStatus
<1>2. IndInv /\ TypeOK' /\ [Next]_vars => IndInv'
  <2> SUFFICES ASSUME IndInv, TypeOK', [Next]_vars PROVE Agreement'
    BY DEF IndInv, Agreement
  <2>1. ASSUME NEW n \in Nets, NEW s \in BOOLEAN,
               \/ CreateNetwork(n, s) \/ UpdateNetwork(n, s) \/ MirrorJob(n)
               \/ ReadNetwork(n) \/ TriggerFails(n)
        PROVE  Agreement'
    BY <2>1, InsertKeepsAgreement
    DEF CreateNetwork, UpdateNetwork, MirrorJob, ReadNetwork, TriggerFails,
        InsertRow, rowVars, histVars
  <2>2. ASSUME NEW n \in Nets, DeleteNetwork(n) PROVE Agreement'
    BY <2>2, InsertKeepsAgreement DEF DeleteNetwork, histVars
  <2>3. ASSUME NEW n \in Nets, NEW j \in Jobs, NEW r \in Runs,
               TriggerJob(n, j, r)
        PROVE  Agreement'
    BY <2>3, TriggerKeepsAgreement
  <2>4. ASSUME NEW j \in Jobs, NEW n \in Nets \union {NoNet},
               NEW s \in BOOLEAN, CreateJob(j, n, s)
        PROVE  Agreement'
    BY <2>4, InsertKeepsAgreement DEF CreateJob, InsertRow, histVars
  <2>5. ASSUME NEW j \in Jobs, NEW r \in Runs, StartJob(j, r) PROVE Agreement'
    BY <2>5, StartKeepsAgreement
  <2>6. ASSUME NEW j \in Jobs, AbortJob(j) \/ ResetJob(j) \/ DeleteJob(j)
        PROVE  Agreement'
    BY <2>6, OvertakeKeepsAgreement
  <2>7. ASSUME NEW r \in Runs,
               \/ Admit(r) \/ Reject(r) \/ AdmitUncounted(r)
               \/ LoadJob(r) \/ LoadFails(r) \/ PipelineFails(r)
               \/ LoseWrite(r) /\ phase[r] = "loaded"
        PROVE  Agreement'
    <3> USE DEF Admit, Reject, AdmitUncounted, LoadJob, LoadFails,
                PipelineFails, LoseWrite, rowVars, histVars
    <3>1. /\ r \in Active
          /\ UNCHANGED <<status, progress, runJob, orphans>>
          /\ quiet' => quiet
      BY <2>7 DEF Active
    <3>2. PICK p \in {"admitted", "loaded", "working", "failing"} : Goto(r, p)
      BY <2>7
    <3>3. quiet' => \/ Executing' \subseteq Executing
                    \/ \E limit \in Limits : ~AtLimit(limit)
      <4>1. CASE Admit(r)
        BY <4>1 DEF Admit
      <4>2. CASE AdmitUncounted(r)
        BY <4>2 DEF AdmitUncounted
      <4>3. CASE Reject(r) \/ LoadFails(r) \/ PipelineFails(r)
        <5>1. Goto(r, "failing")
          BY <4>3
        <5>. QED  BY <5>1 DEF Goto, Executing, IndInv, TypeOK
      <4>4. CASE LoadJob(r) \/ (LoseWrite(r) /\ phase[r] = "loaded")
        <5>1. r \in Executing
          BY <4>4 DEF Executing
        <5>. QED  BY <3>2, <5>1 DEF Goto, Executing, IndInv, TypeOK
      <4>. QED  BY <2>7, <4>1, <4>2, <4>3, <4>4
    <3>. QED  BY <3>1, <3>2, <3>3, MoveKeepsAgreement
  <2>8. ASSUME NEW r \in Runs, MarkRunning(r) PROVE Agreement'
    BY <2>8, MarkKeepsAgreement
  <2>9. ASSUME NEW r \in Runs, ReportChunk(r) PROVE Agreement'
    BY <2>9, ReportKeepsAgreement
  <2>10. ASSUME NEW r \in Runs,
                \/ Complete(r) \/ RecordFailure(r)
                \/ LoseWrite(r) /\ phase[r] # "loaded"
         PROVE  Agreement'
    BY <2>10, EndKeepsAgreement
  <2>11. CASE Restart
    BY <2>11, RestartKeepsAgreement
  <2>12. CASE UNCHANGED vars
    BY <2>12, InsertKeepsAgreement DEF vars, rowVars, histVars
  <2>13. ASSUME NEW ns \in SUBSET Nets, NEW js \in SUBSET Jobs,
                DeleteSchema(ns, js)
         PROVE  Agreement'
    BY <2>13, InsertKeepsAgreement DEF DeleteSchema, histVars
  <2>14. CASE WaitStep
    BY <2>14, InsertKeepsAgreement DEF WaitStep, rowVars, histVars
  <2>. QED
    BY <2>1, <2>2, <2>3, <2>4, <2>5, <2>6, <2>7, <2>8, <2>9, <2>10, <2>11,
       <2>12, <2>13, <2>14
    DEF Next, NetworkStep, SchemaStep, JobStep, RunStep, EngineStep
<1>. QED
  BY <1>1, <1>2, TypeCorrect, PTL DEF Spec

(* Every row that reads 'running' has a goroutine or is a known orphan,    *)
(* however handlers, engines, crashes and lost writes interleave.          *)
THEOREM RunningRowsHaveEngines == Spec => []RunningHasEngine
<1>1. IndInv => RunningHasEngine
  BY DEF IndInv
<1>. QED  BY <1>1, IndInvHolds, PTL

(* Without an overtaking request, a cron run or a lost count, StartJob's   *)
(* guard gives each job at most one engine (jobs.go:204).                  *)
THEOREM OneEngineWhenQuiet == Spec => []QuietExclusive
<1>1. IndInv => QuietExclusive
  BY DEF IndInv
<1>. QED  BY <1>1, IndInvHolds, PTL

(* Under the same condition fewer than cons_max_jobs engines execute, for  *)
(* every limit and every number of jobs (engine.go:70-77).                 *)
THEOREM LimitWhenQuiet == Spec => []QuietLimit
<1>1. IndInv => QuietLimit
  BY DEF IndInv
<1>. QED  BY <1>1, IndInvHolds, PTL

(* Under the same condition the full progress bar means 'completed' and    *)
(* nothing else (engine.go:423, engine.go:460-467).                        *)
THEOREM ProgressWhenQuiet == Spec => []QuietProgress
<1>1. IndInv => QuietProgress
  BY DEF IndInv
<1>. QED  BY <1>1, IndInvHolds, PTL

-----------------------------------------------------------------------------
(* How the status of a job changes as long as no engine is overtaken: the  *)
(* transitions that the dashboard's buttons and the engine make.           *)
Moves ==
  {<<"absent", "pending">>,
   <<"pending", "running">>, <<"failed", "running">>, <<"completed", "running">>,
   <<"running", "aborted">>, <<"running", "failed">>, <<"running", "completed">>}

StatusMachine ==
  \A j \in Jobs :
    \/ status'[j] = status[j]
    \/ Exists(j) /\ status'[j] \in {"pending", "deleted"}
    \/ <<status[j], status'[j]>> \in Moves

(* An engine then ends only a job that reads 'running', whichever handlers *)
(* come between its statements: in particular nothing but a reset or a     *)
(* deletion takes a job out of 'aborted' (jobs.go:204-268, engine.go:180,  *)
(* engine.go:460).                                                         *)
THEOREM StatusOrderWhenQuiet == Spec => [][quiet => StatusMachine]_vars
<1>1. ASSUME IndInv, quiet, Next PROVE StatusMachine
  <2> USE DEF TypeOK, Exists, RowStatus
  <2>0. TypeOK /\ \A r \in Active : status[runJob[r]] = "running" /\ runJob[r] \in Jobs
    BY <1>1 DEF IndInv, Agreement, QuietRunning, Active, StartedHasJob
  <2>1. ASSUME NEW j \in Jobs, NEW n, NEW s, InsertRow(j, n, s) PROVE StatusMachine
    BY <2>0, <2>1 DEF InsertRow, StatusMachine, Moves
  <2>2. ASSUME status' = status PROVE StatusMachine
    BY <2>2 DEF StatusMachine
  <2>3. CASE NetworkStep
    BY <2>1, <2>2, <2>3
    DEF NetworkStep, CreateNetwork, UpdateNetwork, MirrorJob, DeleteNetwork,
        ReadNetwork, TriggerFails, TriggerJob, rowVars
  <2>4. CASE SchemaStep
    BY <2>2, <2>4 DEF SchemaStep, DeleteSchema
  <2>5. ASSUME NEW j \in Jobs, NEW n \in Nets \union {NoNet}, NEW s \in BOOLEAN,
               CreateJob(j, n, s)
        PROVE  StatusMachine
    BY <2>1, <2>5 DEF CreateJob
  <2>6. ASSUME NEW j \in Jobs, NEW r \in Runs, StartJob(j, r) PROVE StatusMachine
    BY <2>0, <2>6 DEF StartJob, Startable, StatusMachine, Moves
  <2>7. ASSUME NEW j \in Jobs, AbortJob(j) \/ ResetJob(j) \/ DeleteJob(j)
        PROVE  StatusMachine
    BY <2>0, <2>7 DEF AbortJob, ResetJob, DeleteJob, SetStatus, StatusMachine, Moves
  <2>8. ASSUME NEW r \in Runs, MarkRunning(r) \/ Complete(r) \/ RecordFailure(r)
        PROVE  StatusMachine
    <3>1. r \in Active
      BY <2>8 DEF MarkRunning, Complete, RecordFailure, Active
    <3>2. PICK j \in Jobs : j = runJob[r] /\ status[j] = "running"
      BY <2>0, <3>1
    <3>3. PICK s \in {"running", "completed", "failed"} : status' = [status EXCEPT ![j] = s]
      BY <2>8, <3>2 DEF MarkRunning, Complete, RecordFailure, SetStatus
    <3>. QED  BY <2>0, <3>2, <3>3 DEF StatusMachine, Moves
  <2>9. ASSUME NEW r \in Runs,
               \/ Admit(r) \/ Reject(r) \/ LoadJob(r) \/ LoadFails(r) \/ PipelineFails(r)
               \/ ReportChunk(r) \/ AdmitUncounted(r) \/ LoseWrite(r)
        PROVE  status' = status
    BY <2>9 DEF Admit, Reject, LoadJob, LoadFails, PipelineFails, ReportChunk,
                AdmitUncounted, LoseWrite, rowVars
  <2>10. CASE Restart
    BY <2>2, <2>10 DEF Restart, rowVars
  <2>11. CASE WaitStep
    BY <2>2, <2>11 DEF WaitStep, rowVars
  <2>. QED
    BY <1>1, <2>2, <2>3, <2>4, <2>5, <2>6, <2>7, <2>8, <2>9, <2>10, <2>11
    DEF Next, JobStep, RunStep, EngineStep
<1>2. ASSUME IndInv, [Next]_vars PROVE [quiet => StatusMachine]_vars
  BY <1>1, <1>2
<1>. QED  BY <1>2, IndInvHolds, PTL DEF Spec
=============================================================================
