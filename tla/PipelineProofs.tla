--------------------------- MODULE PipelineProofs ---------------------------
(* Proofs about Pipeline for any number of chunks and workers and any      *)
(* capacity of the channel.                                                *)
EXTENDS Pipeline, TLAPS

(* A rule starts with an empty channel and idle workers.                   *)
LEMMA InitInv == Init => IndInv
<1> SUFFICES ASSUME Init PROVE IndInv
  OBVIOUS
<1> USE PipelineAssumption DEF Init
<1>1. TypeOK
  <2>1. loaded \in SUBSET (1..N) /\ dropped \in SUBSET (1..N)
    OBVIOUS
  <2>2. /\ worker \in [Workers -> {"receiving", "loading", "returned"}]
        /\ hand \in [Workers -> 0..N]
    OBVIOUS
  <2>3. /\ extracted \in 0..N /\ sent \in 0..N /\ taken \in 0..N
        /\ seen \in Nat /\ mark \in Nat
        /\ taken <= sent /\ sent <= extracted /\ sent - taken <= Cap
    OBVIOUS
  <2>. QED  BY <2>1, <2>2, <2>3 DEF TypeOK
<1>2. ChunkAccounting
  BY DEF ChunkAccounting, Delivered
<1>3. Bookkeeping
  BY DEF Bookkeeping, AllReturned
<1>. QED  BY <1>1, <1>2, <1>3 DEF IndInv

(* The largest value seen is the value of a chunk that was extracted.      *)
LEMMA SeenInv ==
  ASSUME IndInv, Extract \/ ExtractCut
  PROVE  seen' \in Nat /\ (seen' = 0 \/ \E c \in 1..extracted' : Value[c] = seen')
<1> USE PipelineAssumption DEF IndInv, TypeOK
<1>1. /\ extracted + 1 \in 1..N /\ extracted' = extracted + 1
      /\ 1..extracted \subseteq 1..extracted' /\ extracted + 1 \in 1..extracted'
  BY DEF Extract, ExtractCut
<1>2. Value[extracted + 1] \in Nat
  BY <1>1
<1>3. seen' \in {seen, Value[extracted + 1]}
  BY DEF Extract, ExtractCut, Larger
<1>4. seen = 0 \/ \E c \in 1..extracted : Value[c] = seen
  BY DEF Bookkeeping
<1>. QED  BY <1>1, <1>2, <1>3, <1>4

(* The producer's steps, cancelled or not.                                 *)
LEMMA ProducerInv == IndInv /\ ProducerStep => IndInv'
<1> SUFFICES ASSUME IndInv, ProducerStep PROVE IndInv'
  OBVIOUS
<1> USE PipelineAssumption DEF source, channel, target, pool, Delivered, IndInv
<1>1. CASE Extract
  <2>0. seen' \in Nat /\ (seen' = 0 \/ \E c \in 1..extracted' : Value[c] = seen')
    BY <1>1, SeenInv
  <2> USE <1>1 DEF Extract
  <2>1. TypeOK'
    BY <2>0 DEF TypeOK, Bookkeeping
  <2>2. ChunkAccounting'
    BY DEF TypeOK, ChunkAccounting
  <2>3. Bookkeeping'
    BY <2>0 DEF TypeOK, Bookkeeping, AllReturned
  <2>. QED  BY <2>1, <2>2, <2>3
<1>2. CASE ExtractCut
  <2>0. seen' \in Nat /\ (seen' = 0 \/ \E c \in 1..extracted' : Value[c] = seen')
    BY <1>2, SeenInv
  <2> USE <1>2 DEF ExtractCut
  <2>1. TypeOK'
    BY <2>0 DEF TypeOK, Bookkeeping
  <2>2. ChunkAccounting'
    BY DEF TypeOK, ChunkAccounting
  <2>3. Bookkeeping'
    BY <2>0 DEF TypeOK, Bookkeeping, AllReturned
  <2>. QED  BY <2>1, <2>2, <2>3
<1>3. CASE ExtractEnds \/ ExtractStops
  <2> USE <1>3 DEF ExtractEnds, ExtractStops
  <2>1. TypeOK'
    BY DEF TypeOK, Bookkeeping
  <2>2. ChunkAccounting'
    <3>1. /\ hand' = hand /\ taken' = taken /\ Delivered' = Delivered /\ failed' = failed
          /\ worker' = worker /\ sent' = sent /\ producer' = "returned"
      OBVIOUS
    <3>. QED
      <4> HIDE DEF Delivered
      <4>. QED  BY <3>1, Zenon DEF ChunkAccounting
  <2>3. Bookkeeping'
    BY DEF TypeOK, Bookkeeping, AllReturned
  <2>. QED  BY <2>1, <2>2, <2>3
<1>4. CASE ExtractFails
  <2> USE <1>4 DEF ExtractFails
  <2>1. TypeOK'
    BY DEF TypeOK, Bookkeeping
  <2>2. ChunkAccounting'
    BY DEF TypeOK, ChunkAccounting
  <2>3. Bookkeeping'
    BY DEF TypeOK, Bookkeeping, AllReturned
  <2>. QED  BY <2>1, <2>2, <2>3
<1>5. CASE Send
  <2> USE <1>5 DEF Send
  <2>1. TypeOK'
    BY DEF TypeOK, Bookkeeping
  <2>2. ChunkAccounting'
    BY DEF TypeOK, ChunkAccounting
  <2>3. Bookkeeping'
    BY DEF TypeOK, Bookkeeping, AllReturned
  <2>. QED  BY <2>1, <2>2, <2>3
<1>6. CASE SendCancelled
  <2> USE <1>6 DEF SendCancelled
  <2>1. TypeOK'
    BY DEF TypeOK, Bookkeeping
  <2>2. ChunkAccounting'
    BY DEF TypeOK, ChunkAccounting
  <2>3. Bookkeeping'
    BY DEF TypeOK, Bookkeeping, AllReturned
  <2>. QED  BY <2>1, <2>2, <2>3
<1>. QED  BY <1>1, <1>2, <1>3, <1>4, <1>5, <1>6 DEF ProducerStep

(* A worker takes the oldest chunk, loads it or fails, and leaves.         *)
LEMMA WorkerInv ==
  ASSUME IndInv, NEW w \in Workers, WorkerStep(w) PROVE IndInv'
<1> USE PipelineAssumption DEF source, channel, target, pool, Delivered, IndInv
<1>1. CASE Receive(w)
  <2> USE <1>1 DEF Receive
  <2>1. TypeOK'
    BY DEF TypeOK
  <2>2. ChunkAccounting'
    BY DEF TypeOK, ChunkAccounting, Bookkeeping
  <2>3. Bookkeeping'
    BY DEF TypeOK, Bookkeeping, AllReturned
  <2>. QED  BY <2>1, <2>2, <2>3
<1>2. CASE LoadSucceeds(w) \/ LoadDropped(w)
  <2>1. /\ worker[w] = "loading" /\ hand[w] \in 1..N
        /\ hand' = [hand EXCEPT ![w] = 0]
        /\ worker' = [worker EXCEPT ![w] = "receiving"]
        /\ UNCHANGED <<producer, source, channel, failed, verdict, mark>>
    BY <1>2 DEF LoadSucceeds, LoadDropped, TypeOK, ChunkAccounting, Bookkeeping
  <2>2. Delivered' = Delivered \union {hand[w]}
    BY <1>2 DEF LoadSucceeds, LoadDropped
  <2>3. TypeOK'
    <3>1. loaded' \in SUBSET (1..N) /\ dropped' \in SUBSET (1..N)
      BY <1>2, <2>1 DEF LoadSucceeds, LoadDropped, TypeOK
    <3>2. worker' \in [Workers -> {"receiving", "loading", "returned"}]
      BY <2>1 DEF TypeOK
    <3>3. hand' \in [Workers -> 0..N]
      BY <2>1 DEF TypeOK
    <3>. QED  BY <2>1, <3>1, <3>2, <3>3 DEF TypeOK
  <2>4. ChunkAccounting'
    <3> HIDE DEF Delivered
    <3>. QED  BY <2>1, <2>2 DEF TypeOK, ChunkAccounting, Bookkeeping
  <2>5. Bookkeeping'
    BY <2>1 DEF TypeOK, Bookkeeping, AllReturned
  <2>. QED  BY <2>3, <2>4, <2>5
<1>3. CASE LoadFails(w)
  <2> USE <1>3 DEF LoadFails
  <2>1. TypeOK'
    <3>1. hand[w] \in 1..N
      BY DEF TypeOK, ChunkAccounting, Bookkeeping
    <3>. QED  BY <3>1 DEF TypeOK
  <2>2. ChunkAccounting'
    BY DEF TypeOK, ChunkAccounting, Bookkeeping
  <2>3. Bookkeeping'
    BY DEF TypeOK, Bookkeeping, AllReturned
  <2>. QED  BY <2>1, <2>2, <2>3
<1>4. CASE RangeEnds(w)
  <2> USE <1>4 DEF RangeEnds
  <2>1. TypeOK'
    BY DEF TypeOK
  <2>2. ChunkAccounting'
    BY DEF TypeOK, ChunkAccounting
  <2>3. Bookkeeping'
    BY DEF TypeOK, Bookkeeping, AllReturned
  <2>. QED  BY <2>1, <2>2, <2>3
<1>. QED  BY <1>1, <1>2, <1>3, <1>4 DEF WorkerStep

(* Wait and the end of the rule touch no goroutine.                        *)
LEMMA EngineInv == IndInv /\ EngineStep => IndInv'
<1> SUFFICES ASSUME IndInv, EngineStep PROVE IndInv'
  OBVIOUS
<1> USE PipelineAssumption
    DEF EngineStep, Wait, FinishRule, source, channel, target, pool, Delivered, IndInv
<1>1. TypeOK'
  BY DEF TypeOK
<1>2. ChunkAccounting'
  BY DEF ChunkAccounting
<1>3. Bookkeeping'
  BY DEF TypeOK, Bookkeeping, AllReturned
<1>. QED  BY <1>1, <1>2, <1>3

(* Every step, stuttering included.                                        *)
LEMMA StepInv == IndInv /\ [Next]_vars => IndInv'
<1> SUFFICES ASSUME IndInv, [Next]_vars PROVE IndInv'
  OBVIOUS
<1>1. CASE UNCHANGED vars
  BY <1>1 DEF vars, IndInv, TypeOK, ChunkAccounting, Bookkeeping, AllReturned, Delivered
<1>. QED
  BY <1>1, ProducerInv, WorkerInv, EngineInv DEF Next, Terminated

(* The channel keeps its bound, every chunk is where it should be, and the *)
(* goroutines' states fit together, in every interleaving of the producer, *)
(* the workers and Wait (engine.go:374-438).                               *)
THEOREM AccountingHolds == Spec => []IndInv
BY InitInv, StepInv, PTL DEF Spec

(* Types, and the bounds of the channel and its counters.                  *)
THEOREM TypeCorrect == Spec => []TypeOK
BY AccountingHolds, PTL DEF IndInv

(* Every chunk that left the channel was answered for or is in one hand.   *)
THEOREM ChunksAccounted == Spec => []ChunkAccounting
BY AccountingHolds, PTL DEF IndInv

(* At Wait's success nothing is in the channel or in a hand.               *)
LEMMA HealthyEnd ==
  ASSUME IndInv, SomeWorker, AllReturned, ~failed
  PROVE  Delivered = 1..extracted
<1> USE DEF IndInv
<1>1. PICK w \in Workers : worker[w] = "returned"
  BY DEF SomeWorker, AllReturned
<1>2. taken = extracted
  BY <1>1 DEF AllReturned, ChunkAccounting, Bookkeeping
<1>3. \A c \in 1..taken : c \in Delivered
  <2> SUFFICES ASSUME NEW c \in 1..taken, c \notin Delivered PROVE FALSE
    OBVIOUS
  <2>1. PICK v \in Workers : hand[v] = c
    BY DEF ChunkAccounting
  <2>. QED  BY <2>1 DEF AllReturned, Bookkeeping, TypeOK
<1>. QED  BY <1>2, <1>3 DEF ChunkAccounting

(* What Wait established stays true after it: nobody is left to change it. *)
LEMMA SuccessLoadsAll ==
  ASSUME IndInv, SomeWorker, verdict \in {"transferred", "completed"}
  PROVE  Delivered = 1..extracted
BY HealthyEnd DEF IndInv, Bookkeeping

(* With at least one worker, a rule that completed has loaded all that its *)
(* source handed over, or was told so by the driver (engine.go:434-442).   *)
THEOREM CompletedLoads ==
  ASSUME SomeWorker PROVE Spec => []CompletedLoadsHanded
<1>1. IndInv => CompletedLoadsHanded
  BY SuccessLoadsAll DEF CompletedLoadsHanded, Delivered
<1>. QED  BY <1>1, AccountingHolds, PTL

(* With at least one worker the high-water mark is the value of a chunk    *)
(* that was delivered, and passes none that was handed over and was not,   *)
(* whatever fails and in whichever order the values come                   *)
(* (engine.go:386-398, 434-456).                                           *)
THEOREM MarkNeverAhead ==
  ASSUME SomeWorker PROVE Spec => []MarkBehindLoads
<1>1. IndInv => MarkBehindLoads
  <2> SUFFICES ASSUME IndInv, mark # 0
               PROVE  /\ \E c \in Delivered : Value[c] = mark
                      /\ \A c \in 1..extracted : c \in Delivered
    BY DEF MarkBehindLoads
  <2>1. mark = seen /\ verdict = "completed"
    BY DEF IndInv, Bookkeeping
  <2>2. PICK c \in 1..extracted : Value[c] = mark
    BY <2>1 DEF IndInv, Bookkeeping
  <2>3. Delivered = 1..extracted
    BY <2>1, SuccessLoadsAll
  <2>. QED  BY <2>2, <2>3
<1>. QED  BY <1>1, AccountingHolds, PTL

-----------------------------------------------------------------------------
(* Each step of the pipeline is a step of Transfer or none.                *)
LEMMA StepKeepsPromise ==
  ASSUME IndInv, IndInv', SomeWorker, [Next]_vars
  PROVE  [Promise!Next]_(Promise!vars)
<1> USE DEF Promise!Next, Promise!vars, PromisedVerdict, source, channel, target,
            pool, Delivered
<1>0. extracted \in Nat /\ N \in Nat /\ 1..extracted \subseteq 1..N
  BY PipelineAssumption DEF IndInv, TypeOK
<1>1. CASE Extract \/ ExtractCut
  <2>1. /\ extracted + 1 \in 1..N
        /\ 1..extracted' = (1..extracted) \union {extracted + 1}
        /\ UNCHANGED <<target, verdict>>
    BY <1>0, <1>1 DEF Extract, ExtractCut
  <2>2. verdict = "running"
    BY <1>1 DEF Extract, ExtractCut, IndInv, Bookkeeping, AllReturned
  <2>3. Promise!Hand(extracted + 1)
    BY <2>1, <2>2 DEF Promise!Hand
  <2>. QED  BY <2>1, <2>3
<1>2. CASE \/ ExtractEnds \/ ExtractStops \/ ExtractFails
           \/ Send \/ SendCancelled
  BY <1>2 DEF ExtractEnds, ExtractStops, ExtractFails, Send, SendCancelled
<1>3. ASSUME NEW w \in Workers, WorkerStep(w)
      PROVE  [Promise!Next]_(Promise!vars)
  <2>1. CASE Receive(w) \/ RangeEnds(w)
    BY <2>1 DEF Receive, RangeEnds
  <2>2. CASE LoadSucceeds(w) \/ LoadDropped(w) \/ LoadFails(w)
    <3>1. worker[w] = "loading" /\ UNCHANGED <<extracted, verdict>>
      BY <2>2 DEF LoadSucceeds, LoadDropped, LoadFails
    <3>2. verdict = "running"
      BY <3>1 DEF IndInv, Bookkeeping, AllReturned
    <3>3. /\ hand[w] \in (1..extracted) \ Delivered
          /\ hand[w] \in 1..N
      BY <1>0, <3>1 DEF IndInv, TypeOK, ChunkAccounting, Bookkeeping
    <3>4. Delivered' = Delivered \/ Delivered' = Delivered \union {hand[w]}
      BY <2>2 DEF LoadSucceeds, LoadDropped, LoadFails
    <3>5. CASE Delivered' = Delivered
      BY <3>1, <3>5
    <3>6. CASE Delivered' = Delivered \union {hand[w]}
      BY <3>1, <3>2, <3>3, <3>6 DEF Promise!Load
    <3>. QED  BY <3>4, <3>5, <3>6
  <2>. QED  BY <1>3, <2>1, <2>2 DEF WorkerStep
<1>4. CASE Wait
  <2>1. CASE failed
    BY <1>4, <2>1 DEF Wait, Promise!Fail
  <2>2. CASE ~failed
    BY <1>4, <2>2, HealthyEnd DEF Wait, Promise!Succeed
  <2>. QED  BY <2>1, <2>2
<1>5. CASE FinishRule
  BY <1>5 DEF FinishRule
<1>6. CASE UNCHANGED vars
  BY <1>6 DEF vars
<1>. QED
  BY <1>1, <1>2, <1>3, <1>4, <1>5, <1>6
  DEF Next, ProducerStep, EngineStep, Terminated

(* The errgroup with its channel and its pool implements Transfer: nothing *)
(* but what was handed over, all of it or an error, and nothing after the  *)
(* verdict (engine.go:374-438).                                            *)
THEOREM PipelineKeepsPromise ==
  ASSUME SomeWorker PROVE Spec => KeepsPromise
<1>1. Init => Promise!Init
  BY DEF Init, Promise!Init, PromisedVerdict, Delivered
<1>2. IndInv /\ IndInv' /\ [Next]_vars => [Promise!Next]_(Promise!vars)
  BY StepKeepsPromise
<1>. QED
  BY <1>1, <1>2, AccountingHolds, PTL DEF Spec, Promise!Spec, KeepsPromise

-----------------------------------------------------------------------------
(* Termination is a liveness property and stays with TLC; what it rests on *)
(* is not: somebody can always go on, and nobody goes on for ever.         *)

(* The guards of the goroutines: a chunk to extract, room in the channel   *)
(* or a cancelled context, a chunk to load or to take, a closed channel,   *)
(* a group that is done.                                                   *)
SomebodyCanGo ==
  \/ producer = "extracting"
  \/ producer = "sending" /\ (sent - taken < Cap \/ failed)
  \/ \E w \in Workers :
       \/ worker[w] = "loading"
       \/ worker[w] = "receiving" /\ (taken < sent \/ producer = "returned")
  \/ verdict = "running" /\ AllReturned
  \/ verdict = "transferred"

(* A full channel always has a worker that empties it, or a context that   *)
(* was cancelled; a worker always has a producer that feeds it or closes   *)
(* the channel: the goroutines never wait for one another in a circle,     *)
(* whichever of them has failed (engine.go:379-438).                       *)
THEOREM NeverStuck ==
  ASSUME SomeWorker
  PROVE  Spec => [](verdict \in {"completed", "failed"} \/ SomebodyCanGo)
<1>1. IndInv => verdict \in {"completed", "failed"} \/ SomebodyCanGo
  <2> SUFFICES ASSUME IndInv, verdict = "running", ~SomebodyCanGo PROVE FALSE
    BY DEF SomebodyCanGo, IndInv, TypeOK
  <2> USE PipelineAssumption DEF IndInv
  <2>1. /\ \A w \in Workers : worker[w] \in {"receiving", "returned"}
        /\ producer \in {"sending", "returned"}
    BY DEF TypeOK, SomebodyCanGo
  <2>2. CASE producer = "returned"
    <3>1. AllReturned
      BY <2>1, <2>2 DEF SomebodyCanGo, AllReturned
    <3>. QED  BY <3>1 DEF SomebodyCanGo
  <2>3. CASE producer = "sending"
    <3>1. ~failed /\ taken < sent
      BY <2>3 DEF SomebodyCanGo, TypeOK
    <3>2. PICK w \in Workers : TRUE
      BY DEF SomeWorker
    <3>3. worker[w] = "receiving"
      BY <2>1, <2>3, <3>1 DEF ChunkAccounting
    <3>. QED  BY <3>1, <3>3 DEF SomebodyCanGo
  <2>. QED  BY <2>1, <2>2, <2>3
<1>. QED  BY <1>1, AccountingHolds, PTL

(* What a rule has behind it never gets less, and every step adds to it.   *)
(* There are at most N chunks to extract, send, take and load, and each    *)
(* goroutine returns once.                                                 *)
NothingUndone ==
  /\ extracted =< extracted' /\ sent =< sent' /\ taken =< taken'
  /\ loaded \subseteq loaded' /\ dropped \subseteq dropped'
  /\ \A w \in Workers : worker[w] = "returned" => worker'[w] = "returned"
  /\ producer = "returned" => producer' = "returned"
  /\ verdict # "running" => verdict' # "running"
  /\ verdict \in {"completed", "failed"} => verdict' = verdict
SomethingDone ==
  \/ extracted < extracted' \/ sent < sent' \/ taken < taken'
  \/ Delivered # Delivered'
  \/ \E w \in Workers : worker[w] # "returned" /\ worker'[w] = "returned"
  \/ producer # "returned" /\ producer' = "returned"
  \/ verdict = "running" /\ verdict' # "running"
  \/ verdict = "transferred" /\ verdict' = "completed"

(* The pipeline has no loop without progress, hence no endless run: no     *)
(* chunk is sent, taken or loaded again (engine.go:379-456).               *)
THEOREM OnlyForward == Spec => [][NothingUndone /\ SomethingDone]_vars
<1>1. IndInv /\ [Next]_vars => [NothingUndone /\ SomethingDone]_vars
  <2> SUFFICES ASSUME IndInv, Next, ~UNCHANGED vars PROVE NothingUndone /\ SomethingDone
    OBVIOUS
  <2> USE DEF IndInv, NothingUndone, SomethingDone, source, channel, target, pool, Delivered
  <2>0. extracted \in Nat /\ sent \in Nat /\ taken \in Nat
    BY PipelineAssumption DEF TypeOK
  <2>1. CASE Extract \/ ExtractCut \/ ExtractEnds \/ ExtractStops \/ ExtractFails
    BY <2>0, <2>1 DEF Extract, ExtractCut, ExtractEnds, ExtractStops, ExtractFails
  <2>2. CASE Send \/ SendCancelled
    BY <2>0, <2>2 DEF Send, SendCancelled
  <2>3. ASSUME NEW w \in Workers, Receive(w) PROVE NothingUndone /\ SomethingDone
    BY <2>0, <2>3 DEF Receive, TypeOK
  <2>4. ASSUME NEW w \in Workers, LoadSucceeds(w) \/ LoadDropped(w)
        PROVE  NothingUndone /\ SomethingDone
    <3>1. hand[w] \notin Delivered /\ hand[w] \in Delivered'
      BY <2>4 DEF LoadSucceeds, LoadDropped, ChunkAccounting, Bookkeeping
    <3>. QED  BY <2>0, <2>4, <3>1 DEF LoadSucceeds, LoadDropped, TypeOK
  <2>5. ASSUME NEW w \in Workers, LoadFails(w) \/ RangeEnds(w) PROVE NothingUndone /\ SomethingDone
    BY <2>0, <2>5 DEF LoadFails, RangeEnds, TypeOK
  <2>6. CASE Wait \/ FinishRule
    BY <2>0, <2>6 DEF Wait, FinishRule
  <2>. QED
    BY <2>1, <2>2, <2>3, <2>4, <2>5, <2>6
    DEF Next, ProducerStep, WorkerStep, EngineStep, Terminated
<1>. QED  BY <1>1, AccountingHolds, PTL DEF Spec
=============================================================================
