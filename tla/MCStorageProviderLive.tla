----------------------- MODULE MCStorageProviderLive -----------------------
(***************************************************************************)
(* The same instance with a bound on the number of calls of each thread.   *)
(***************************************************************************)
EXTENDS MCStorageProvider

CONSTANT Budget     \* how often a thread may call

VARIABLE budget     \* budget[t]: how often t may still call

MCInit == Init /\ budget = [t \in Thread |-> Budget]

MCNext ==
    \E t \in Thread :
        \/ /\ Call(t)
           /\ budget[t] > 0
           /\ budget' = [budget EXCEPT ![t] = @ - 1]
        \/ Step(t) /\ UNCHANGED budget

(* Every thread is scheduled; it may call again or never.                  *)
MCSpec ==
    /\ MCInit
    /\ [][MCNext]_<<vars, budget>>
    /\ \A t \in Thread : WF_<<vars, budget>>(Step(t) /\ UNCHANGED budget)

(* Every call returns: no order of locks and no exception leaves a thread  *)
(* waiting for ever (std::shared_mutex promises no fairness, so the number *)
(* of calls that compete with it is bounded).                              *)
EveryCallReturns == \A t \in Thread : (pc[t] # "idle") ~> (pc[t] = "idle")

=============================================================================
