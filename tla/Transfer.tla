------------------------------ MODULE Transfer ------------------------------
(***************************************************************************)
(* What one rule of a job promises, whoever carries it out: the source     *)
(* hands over chunks, nothing else reaches the target, success is reported *)
(* only when every chunk handed over has been loaded, and nothing is       *)
(* loaded any more once there is a verdict.  A remote source does not      *)
(* learn of a failure and goes on handing over.                            *)
(***************************************************************************)
CONSTANT Chunks

VARIABLES
  handed,    \* chunks the source has handed over
  loaded,    \* chunks in the target
  verdict    \* "running", "ok" or "failed"

vars == <<handed, loaded, verdict>>

Init ==
  /\ handed = {}
  /\ loaded = {}
  /\ verdict = "running"

Hand(c) ==
  /\ verdict # "ok"
  /\ handed' = handed \union {c}
  /\ UNCHANGED <<loaded, verdict>>

Load(c) ==
  /\ verdict = "running"
  /\ c \in handed \ loaded
  /\ loaded' = loaded \union {c}
  /\ UNCHANGED <<handed, verdict>>

Succeed ==
  /\ verdict = "running"
  /\ loaded = handed
  /\ verdict' = "ok"
  /\ UNCHANGED <<handed, loaded>>

(* A load that reports an error may have been committed.                   *)
Fail ==
  /\ verdict = "running"
  /\ verdict' = "failed"
  /\ loaded' \in {loaded} \union {loaded \union {c} : c \in handed}
  /\ UNCHANGED handed

Next == (\E c \in Chunks : Hand(c) \/ Load(c)) \/ Succeed \/ Fail

Spec == Init /\ [][Next]_vars
=============================================================================
