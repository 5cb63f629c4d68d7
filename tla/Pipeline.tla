------------------------------ MODULE Pipeline ------------------------------
(***************************************************************************)
(* One rule of a local job: the errgroup of engine.go:366-456.  A producer *)
(* goroutine runs the source driver's StreamExtract and sends each chunk   *)
(* into a bounded channel; a pool of workers ranges over the channel and   *)
(* loads; the first error cancels the group's context; Wait collects them  *)
(* all; then the high-water mark is written.                               *)
(*                                                                         *)
(* Chunks are numbered in the order of extraction.  A channel is first in, *)
(* first out with one sender, so the chunks inside it are always           *)
(* taken+1 .. sent and two counters stand for it.  The order of extraction *)
(* is not the order of the incremental column: the query has no ORDER BY.  *)
(***************************************************************************)
EXTENDS Integers

CONSTANTS
  N,         \* chunks the source holds
  Value,     \* the largest value of the incremental column in each, 0 for none
  Cap,       \* capacity of chunkChan                       (16 in the code)
  Workers    \* the goroutines that cons_worker_threads asks for

ASSUME PipelineAssumption ==
  N \in Nat /\ Cap \in Nat \ {0} /\ Value \in [1..N -> Nat]

(* The settings page offers 1 to 16 threads; the engine checks nothing.    *)
SomeWorker == Workers # {}

VARIABLES
  producer,   \* "extracting", "sending" or "returned" (channel closed)
  extracted,  \* chunks the driver has handed to its callback
  cut,        \* the last of them lacks rows: the stream broke inside it
  seen,       \* maxIncValue: the largest value among them
  sent, taken,
  worker,     \* [Workers -> {"receiving", "loading", "returned"}]
  hand,       \* chunk a worker is loading, 0 for none
  loaded,     \* chunks that reached the target
  dropped,    \* chunks the driver took for loaded although they did not
  failed,     \* the group has an error, hence its context is cancelled
  verdict,    \* "running", "transferred", "completed", "failed"
  mark        \* last_sync_value, 0 for none

vars == <<producer, extracted, cut, seen, sent, taken, worker, hand, loaded,
          dropped, failed, verdict, mark>>

source  == <<extracted, cut, seen>>
channel == <<sent, taken>>
target  == <<loaded, dropped>>
pool    == <<worker, hand, target>>

(* What StreamLoad has answered for, or done before it failed.             *)
Delivered == loaded \union dropped

-----------------------------------------------------------------------------
(* The producer. *)

Larger(v, w) == IF v < w THEN w ELSE v

Extract ==
  /\ producer = "extracting"
  /\ extracted < N /\ ~cut
  /\ extracted' = extracted + 1
  /\ seen' = Larger(seen, Value[extracted + 1])
  /\ producer' = "sending"
  /\ UNCHANGED <<cut, channel, pool, failed, verdict, mark>>

(* The source breaks inside a chunk: the drivers hand over the rows they   *)
(* have, the one with the largest value or not, return the handler's nil   *)
(* and never look at rows.Err().                                           *)
ExtractCut ==
  /\ producer = "extracting"
  /\ extracted < N /\ ~cut
  /\ extracted' = extracted + 1
  /\ cut' = TRUE
  /\ seen' \in {seen, Larger(seen, Value[extracted + 1])}
  /\ producer' = "sending"
  /\ UNCHANGED <<channel, pool, failed, verdict, mark>>

ExtractEnds ==
  /\ producer = "extracting"
  /\ extracted = N \/ cut
  /\ producer' = "returned"
  /\ UNCHANGED <<source, channel, pool, failed, verdict, mark>>

(* The CSV driver takes any read error for the end of the file.            *)
ExtractStops ==
  /\ producer = "extracting"
  /\ extracted < N /\ ~cut
  /\ producer' = "returned"
  /\ UNCHANGED <<source, channel, pool, failed, verdict, mark>>

(* Connecting, querying or scanning fails, or the context was cancelled.   *)
ExtractFails ==
  /\ producer = "extracting"
  /\ ~cut
  /\ producer' = "returned"
  /\ failed' = TRUE
  /\ UNCHANGED <<source, channel, pool, verdict, mark>>

SendUnbounded ==
  /\ producer = "sending"
  /\ sent' = sent + 1
  /\ producer' = "extracting"
  /\ UNCHANGED <<source, taken, pool, failed, verdict, mark>>
Send ==
  /\ producer = "sending"
  /\ sent - taken < Cap
  /\ sent' = sent + 1
  /\ producer' = "extracting"
  /\ UNCHANGED <<source, taken, pool, failed, verdict, mark>>

SendUncancellable == FALSE
SendCancelled ==
  /\ producer = "sending"
  /\ failed
  /\ producer' = "returned"
  /\ UNCHANGED <<source, channel, pool, failed, verdict, mark>>

-----------------------------------------------------------------------------
(* A worker. *)

ReceiveWithoutTaking(w) ==
  /\ worker[w] = "receiving"
  /\ taken < sent
  /\ worker' = [worker EXCEPT ![w] = "loading"]
  /\ hand' = [hand EXCEPT ![w] = taken + 1]
  /\ UNCHANGED <<producer, source, channel, target, failed, verdict, mark>>
Receive(w) ==
  /\ worker[w] = "receiving"
  /\ taken < sent
  /\ taken' = taken + 1
  /\ hand' = [hand EXCEPT ![w] = taken + 1]
  /\ worker' = [worker EXCEPT ![w] = "loading"]
  /\ UNCHANGED <<producer, source, sent, target, failed, verdict, mark>>

LoadSucceeds(w) ==
  /\ worker[w] = "loading"
  /\ loaded' = loaded \union {hand[w]}
  /\ hand' = [hand EXCEPT ![w] = 0]
  /\ worker' = [worker EXCEPT ![w] = "receiving"]
  /\ UNCHANGED <<producer, source, channel, dropped, failed, verdict, mark>>

(* The driver reports success for a chunk that is not in the target: no    *)
(* table is named, or the file could not be flushed.                       *)
LoadDropped(w) ==
  /\ worker[w] = "loading"
  /\ dropped' = dropped \union {hand[w]}
  /\ hand' = [hand EXCEPT ![w] = 0]
  /\ worker' = [worker EXCEPT ![w] = "receiving"]
  /\ UNCHANGED <<producer, source, channel, loaded, failed, verdict, mark>>

(* The driver reports an error; the chunk may have been committed.         *)
LoadFails(w) ==
  /\ worker[w] = "loading"
  /\ loaded' \in {loaded, loaded \union {hand[w]}}
  /\ hand' = [hand EXCEPT ![w] = 0]
  /\ worker' = [worker EXCEPT ![w] = "returned"]
  /\ failed' = TRUE
  /\ UNCHANGED <<producer, source, channel, dropped, verdict, mark>>

(* The channel is closed and drained. *)
RangeEnds(w) ==
  /\ worker[w] = "receiving"
  /\ producer = "returned" /\ taken = sent
  /\ worker' = [worker EXCEPT ![w] = "returned"]
  /\ UNCHANGED <<producer, source, channel, hand, target, failed, verdict, mark>>

-----------------------------------------------------------------------------
(* The engine: g.Wait() and what follows it. *)

AllReturned == producer = "returned" /\ \A w \in Workers : worker[w] = "returned"

WaitIgnoringErrors ==
  /\ verdict = "running"
  /\ AllReturned
  /\ verdict' = "transferred"
  /\ UNCHANGED <<producer, source, channel, pool, failed, mark>>
Wait ==
  /\ verdict = "running"
  /\ AllReturned
  /\ verdict' = IF failed THEN "failed" ELSE "transferred"
  /\ UNCHANGED <<producer, source, channel, pool, failed, mark>>

(* The UPDATE of last_sync_value with the largest value seen; its error is *)
(* dropped, and a rule that is not INCREMENTAL has none.                   *)
FinishRuleAnyway ==
  /\ verdict = "transferred" \/ (verdict = "failed" /\ mark = 0)
  /\ mark' \in {mark} \union ({seen} \ {0})
  /\ verdict' = IF verdict = "failed" THEN "failed" ELSE "completed"
  /\ UNCHANGED <<producer, source, channel, pool, failed>>
FinishRule ==
  /\ verdict = "transferred"
  /\ mark' \in {mark} \union ({seen} \ {0})
  /\ verdict' = "completed"
  /\ UNCHANGED <<producer, source, channel, pool, failed>>

(* Nothing is left to do. *)
Terminated == verdict \in {"completed", "failed"} /\ UNCHANGED vars

-----------------------------------------------------------------------------
Init ==
  /\ producer = "extracting"
  /\ extracted = 0 /\ cut = FALSE /\ seen = 0
  /\ sent = 0 /\ taken = 0
  /\ worker = [w \in Workers |-> "receiving"]
  /\ hand = [w \in Workers |-> 0]
  /\ loaded = {} /\ dropped = {}
  /\ failed = FALSE
  /\ verdict = "running"
  /\ mark = 0

ProducerStep ==
  \/ Extract \/ ExtractCut
  \/ ExtractEnds \/ ExtractStops \/ ExtractFails
  \/ Send \/ SendCancelled
WorkerStep(w) ==
  \/ Receive(w) \/ RangeEnds(w)
  \/ LoadSucceeds(w) \/ LoadDropped(w) \/ LoadFails(w)
EngineStep == Wait \/ FinishRule

Next ==
  ProducerStep \/ (\E w \in Workers : WorkerStep(w)) \/ EngineStep \/ Terminated

Spec == Init /\ [][Next]_vars

(* Every goroutine is scheduled and every driver call returns.             *)
FairSpec ==
  /\ Spec
  /\ WF_vars(ProducerStep) /\ WF_vars(EngineStep)
  /\ \A w \in Workers : WF_vars(WorkerStep(w))

-----------------------------------------------------------------------------
TypeOK ==
  /\ producer \in {"extracting", "sending", "returned"}
  /\ extracted \in 0..N /\ sent \in 0..N /\ taken \in 0..N
  /\ seen \in Nat /\ mark \in Nat
  /\ taken <= sent /\ sent <= extracted /\ sent - taken <= Cap
  /\ cut \in BOOLEAN /\ failed \in BOOLEAN
  /\ worker \in [Workers -> {"receiving", "loading", "returned"}]
  /\ hand \in [Workers -> 0..N]
  /\ loaded \in SUBSET (1..N) /\ dropped \in SUBSET (1..N)
  /\ verdict \in {"running", "transferred", "completed", "failed"}

(* No chunk is lost or doubled on the way: each one that left the channel  *)
(* was answered for by the target driver or is in the hand of exactly one  *)
(* worker, unless a load failed, and a worker of a healthy group gives up  *)
(* only when the channel is closed and drained (engine.go:379-432).        *)
ChunkAccounting ==
  /\ \A w \in Workers : hand[w] # 0 => hand[w] \in (1..taken) \ Delivered
  /\ \A v, w \in Workers : hand[v] # 0 /\ hand[v] = hand[w] => v = w
  /\ Delivered \subseteq 1..taken
  /\ ~failed => /\ \A c \in 1..taken : c \in Delivered \/ \E w \in Workers : hand[w] = c
                /\ \A w \in Workers : worker[w] = "returned" =>
                     producer = "returned" /\ taken = sent

(* What ties the parts of a goroutine's state together. *)
Bookkeeping ==
  /\ \A w \in Workers : worker[w] = "loading" <=> hand[w] # 0
  /\ producer = "extracting" => sent = extracted
  /\ producer = "sending" => extracted = sent + 1
  /\ producer = "returned" /\ ~failed => sent = extracted
  /\ verdict # "running" => AllReturned
  /\ verdict \in {"transferred", "completed"} => ~failed
  /\ seen = 0 \/ \E c \in 1..extracted : Value[c] = seen
  /\ mark = 0 \/ (mark = seen /\ verdict = "completed")

IndInv == TypeOK /\ ChunkAccounting /\ Bookkeeping

(* engine.go:441 "Successfully completed stream transfer": what the source *)
(* handed over is loaded, if the driver did not drop it.  With             *)
(* cons_worker_threads = 0 it is not.                                      *)
CompletedLoadsHanded ==
  verdict = "completed" =>
    Delivered = 1..extracted /\ (dropped = {} => loaded = 1..extracted)

(* The high-water mark comes from a chunk whose load was acknowledged, and *)
(* passes no chunk that the source handed over and nobody has loaded: a    *)
(* group that failed anywhere leaves no mark (engine.go:434-456).  Of the  *)
(* rows that the source did not hand over it says nothing, see             *)
(* NextRunSkipsNothing.                                                    *)
MarkBehindLoads ==
  mark # 0 =>
    /\ \E c \in Delivered : Value[c] = mark
    /\ \A c \in 1..extracted : Value[c] <= mark => c \in Delivered

(* Wait returns and the rule ends, whichever goroutines fail and in which  *)
(* order: nobody waits for a reader or a writer that has gone.             *)
Termination == <>(verdict \in {"completed", "failed"})

(* The rule keeps the promise of Transfer, as far as the target driver     *)
(* tells the truth: only what the source handed over is delivered, success *)
(* means all of it, and nothing is after Wait (engine.go:374-438).         *)
PromisedVerdict ==
  IF verdict = "transferred" \/ verdict = "completed" THEN "ok" ELSE verdict
Promise == INSTANCE Transfer WITH
  Chunks  <- 1..N,
  handed  <- 1..extracted,
  loaded  <- Delivered,
  verdict <- PromisedVerdict
KeepsPromise == Promise!Spec

(***************************************************************************)
(* What the program says and does not do.                                  *)
(***************************************************************************)

(* engine.go:441 "Successfully completed stream transfer", engine.go:469   *)
(* "completed successfully": a completed rule has loaded its whole source. *)
CompletedIsComplete ==
  verdict = "completed" => loaded = 1..N /\ ~cut

(* engine.go:451 "F. Update High-Water Mark for Incremental": the next run *)
(* filters by it (engine.go:286-293), so below it nothing may be missing.  *)
NextRunSkipsNothing ==
  \A c \in 1..N : 0 < Value[c] /\ Value[c] <= mark => c \in loaded
=============================================================================
