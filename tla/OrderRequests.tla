---------------------------- MODULE OrderRequests ----------------------------
(***************************************************************************)
(* What the two ways to an order share, the showcase order of a release    *)
(* (Authority) and the demo order of a run (DemoExecution): both are       *)
(* requests that a thread of the pool serves.                              *)
(***************************************************************************)

CONSTANTS
    Threads,  \* threads of the pool, at most one request each
    None      \* an optional field that is not set, a file that is not there

=============================================================================
