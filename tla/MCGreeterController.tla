------------------------- MODULE MCGreeterController -------------------------
(***************************************************************************)
(* Bounds of the runs of GreeterController, and the symmetries they use.   *)
(***************************************************************************)
EXTENDS GreeterController, TLC

Quiet == [k \in Kinds |-> 0]

\* users: what is stored changes while the controller looks at its caches
EditBudget == [Quiet EXCEPT !["edit"] = 1, !["evict"] = 1, !["relist"] = 1]

RecreateBudget == [Quiet EXCEPT !["delete"] = 1, !["evict"] = 1, !["relist"] = 1]

\* machines: requests, watches and the process fail
CrashBudget ==
    [Quiet EXCEPT !["delete"] = 1, !["fault"] = 1,
                  !["crash"] = 1, !["signal"] = 1]

\* users or machines, never both in a behaviour
SafeBudgets == {EditBudget, RecreateBudget, CrashBudget}

\* machines that fail under a pod that is evicted or under a Greeter that is
\* edited, a Greeter that is deleted, and a process that is told to stop
LiveBudgets ==
    {[Quiet EXCEPT !["evict"] = 1, !["foreign"] = 1, !["fault"] = 1],
     [Quiet EXCEPT !["edit"] = 1, !["fault"] = 1, !["crash"] = 1],
     [Quiet EXCEPT !["delete"] = 1],
     [Quiet EXCEPT !["signal"] = 1, !["edit"] = 1]}

EvictBudgets == {[Quiet EXCEPT !["evict"] = 1]}

SignalBudgets == {[Quiet EXCEPT !["signal"] = 1]}

WorkerSymmetry == Permutations(Workers) \cup Permutations(Verdicts)
==============================================================================
