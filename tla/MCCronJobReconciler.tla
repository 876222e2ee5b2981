------------------------- MODULE MCCronJobReconciler -------------------------
(***************************************************************************)
(* Specs of CronJobs and bounds of the runs of CronJobReconciler.          *)
(***************************************************************************)
EXTENDS CronJobReconciler

Plain == [valid |-> TRUE, suspend |-> FALSE, policy |-> "Allow", deadline |-> Unset,
          failed |-> Unset, succeeded |-> Unset]

Undisturbed == [k \in Kinds |-> 0]

NoFaults == {Undisturbed}

OneSlot == {2}

\* the clock is read at 1, 3 and 5: the first time comes when it is read, the second
\* has passed
TwoSlots == {3, 4}

\* replacing with a history, forbidding, and a CronJob with a deadline
SafeSpecs ==
    {[Plain EXCEPT !.policy = "Replace", !.failed = 2, !.succeeded = 1],
     [Plain EXCEPT !.policy = "Forbid"],
     [Plain EXCEPT !.deadline = 1]}

FaultBudgets == {[Undisturbed EXCEPT !["fault"] = 1]}

\* forbidding with a deadline and a history, a schedule that does not parse, and
\* a CronJob that is suspended
LiveSpecs ==
    {[Plain EXCEPT !.policy = "Forbid", !.deadline = 1, !.succeeded = 1],
     [Plain EXCEPT !.valid = FALSE],
     [Plain EXCEPT !.suspend = TRUE, !.failed = 0]}

\* machines that fail after an edit, or users who delete
LiveBudgets ==
    {[Undisturbed EXCEPT !["edit"] = 1, !["fault"] = 1, !["crash"] = 1, !["evict"] = 1],
     [Undisturbed EXCEPT !["delete"] = 1]}

ForbidSpecs == {[Plain EXCEPT !.policy = "Forbid"]}

ZeroSpecs == {[Plain EXCEPT !.succeeded = 0]}
==============================================================================
