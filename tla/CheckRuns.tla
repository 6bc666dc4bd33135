------------------------------ MODULE CheckRuns ------------------------------
(***************************************************************************)
(* What check_dispatch_service promises about the check runs of a request, *)
(* without sessions, threads, retries and crashes: runs are numbered in    *)
(* order, a run is answered from content no older than the content it was  *)
(* asked for, a failed run may be tried again, a completed one is final.   *)
(***************************************************************************)
EXTENDS Integers

CONSTANT Runs       \* numbers of the check runs

VARIABLES
  content,   \* version of the request's content
  row,       \* status of each run, "absent" before it is enqueued
  asked,     \* content version when the run was enqueued
  covered    \* content version its results were computed from

runVars == <<content, row, asked, covered>>

Init ==
  /\ content = 0
  /\ row = [r \in Runs |-> "absent"]
  /\ asked = [r \in Runs |-> 0]
  /\ covered = [r \in Runs |-> 0]

Amend ==
  /\ content' = content + 1
  /\ UNCHANGED <<row, asked, covered>>

\* Runs are enqueued in the order of their numbers, without gaps.
Enqueue(r) ==
  /\ \A q \in Runs : row[q] # "absent" <=> q < r
  /\ row' = [row EXCEPT ![r] = "queued"]
  /\ asked' = [asked EXCEPT ![r] = content]
  /\ UNCHANGED <<content, covered>>

Unfinished(r) == row[r] \in {"queued", "failed"}

Complete(r) ==
  /\ Unfinished(r)
  /\ row' = [row EXCEPT ![r] = "completed"]
  /\ \E seen \in asked[r]..content : covered' = [covered EXCEPT ![r] = seen]
  /\ UNCHANGED <<content, asked>>

Fail(r) ==
  /\ Unfinished(r)
  /\ row' = [row EXCEPT ![r] = "failed"]
  /\ UNCHANGED <<content, asked, covered>>

Next == Amend \/ \E r \in Runs : Enqueue(r) \/ Complete(r) \/ Fail(r)

Spec == Init /\ [][Next]_runVars
=============================================================================
