----------------------------- MODULE MCAuthority -----------------------------
(* The author of the release has a service token, the manager logs in; the  *)
(* default token is configured in two environments.                         *)
EXTENDS Authority, TLC

CONSTANTS author, manager, token

Normal == [role |-> author :> "release_manager" @@ manager :> "release_manager"
                    @@ token :> None,
           allowed |-> {}, production |-> TRUE, dev |-> FALSE,
           release_freeze |-> FALSE, execution_freeze |-> FALSE]

\* The manager has become a reviewer; the default token is in use.
Demoted == [Normal EXCEPT !.allowed = {manager},
                          !.role = author :> "author" @@ manager :> None
                                   @@ token :> "admin"]

\* A frozen service on a developer's machine: whoever logs in is a release
\* manager.
Local == [role |-> author :> None @@ manager :> None @@ token :> "admin",
          allowed |-> {}, production |-> FALSE, dev |-> TRUE,
          release_freeze |-> TRUE, execution_freeze |-> TRUE]

ThreeConfigs == {Normal, Demoted, Local}

ThreadSymmetry == Permutations(Threads)
=============================================================================
