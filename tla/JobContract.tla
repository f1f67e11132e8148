----------------------------- MODULE JobContract -----------------------------
(***************************************************************************)
(* What a release job promises, whoever drives it and whatever fails: its  *)
(* order is asked for at most once, never after it ended, and a job that   *)
(* ended stays ended.  The one thing it does not promise is that it goes   *)
(* on to say how it ended: a failure while its last event is written turns *)
(* it into a failed one.                                                   *)
(***************************************************************************)
CONSTANT Jobs

VARIABLES
    status,  \* status[j]: as in ReleaseJobStatus; "none" before the job exists
    asked    \* jobs whose order was asked for: the release endpoint was called

Ended == {"succeeded", "failed", "cancelled"}
Statuses == {"none", "queued", "running"} \cup Ended

Init ==
    /\ status = [j \in Jobs |-> "none"]
    /\ asked = {}

\* The status of j goes from one value to another.
Turn(j, from, to) ==
    /\ status[j] = from
    /\ status' = [status EXCEPT ![j] = to]
    /\ UNCHANGED asked

Submit(j) == Turn(j, "none", "queued")

Withdraw(j) == Turn(j, "queued", "cancelled")

Begin(j) == Turn(j, "queued", "running")

Stop(j) == j \notin asked /\ Turn(j, "running", "cancelled")

Ask(j) ==
    /\ status[j] = "running" /\ j \notin asked
    /\ asked' = asked \cup {j}
    /\ UNCHANGED status

Succeed(j) == j \in asked /\ Turn(j, "running", "succeeded")

\* Jobs fail by themselves or, several of them, with the process.
Fail(lost) ==
    /\ \A j \in lost : status[j] \in {"running", "succeeded", "cancelled"}
    /\ status' = [j \in Jobs |-> IF j \in lost THEN "failed" ELSE status[j]]
    /\ UNCHANGED asked

Next ==
    \/ \E j \in Jobs : \/ Submit(j) \/ Withdraw(j) \/ Begin(j) \/ Stop(j)
                       \/ Ask(j) \/ Succeed(j)
    \/ \E lost \in SUBSET Jobs : Fail(lost)

Spec == Init /\ [][Next]_<<status, asked>>

=============================================================================
