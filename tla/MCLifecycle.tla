---------------------------- MODULE MCLifecycle -----------------------------
(***************************************************************************)
(* Few processes, rulesets and crashes.                                    *)
(***************************************************************************)
EXTENDS Lifecycle, TLC

NoAnswer == [raised |-> "nothing", status |-> 0, body |-> Nothing, fits |-> TRUE,
             etag |-> Nothing, retryAfter |-> "absent"]

(* A status that is mapped, an exception that is caught, one that is not.   *)
SomeFailure ==
  {[NoAnswer EXCEPT !.status = 503], [NoAnswer EXCEPT !.raised = "HTTPException"]}

(* Every status the mapping tells apart, and every exception.               *)
EveryFailure ==
  {[NoAnswer EXCEPT !.status = code] : code \in {204, 302, 401, 403, 404, 429, 500, 503}}
  \cup {[NoAnswer EXCEPT !.raised = e] : e \in T!Caught \cup T!Uncaught}
Processes == Permutations(Process)
=============================================================================
