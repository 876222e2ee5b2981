----------------------------- MODULE TypedClients -----------------------------
(***************************************************************************)
(* The generated clients: for every method of every resource interface,    *)
(* the HTTP request that the typed client sends and the action that the    *)
(* fake client hands to its object tracker; and the clientset that builds  *)
(* them from one rest.Config.                                              *)
(***************************************************************************)
EXTENDS Integers

\* One request: its verb, whether it goes to the collection of a namespace,
\* whether it names an object, and the resource or a subresource of it.
\* MERGE stands for a patch of the caller's type, APPLY for an apply patch.
Call(verb, scoped, named, sub) ==
    [verb |-> verb, scoped |-> scoped, named |-> named, sub |-> sub]

\* Mutant: SubResource("status") is missing.
WholeWrites(scoped) ==
    [Create           |-> Call("POST", scoped, FALSE, "object"),
     Update           |-> Call("PUT", scoped, TRUE, "object"),
     UpdateStatus     |-> Call("PUT", scoped, TRUE, "object"),
     Delete           |-> Call("DELETE", scoped, TRUE, "object"),
     DeleteCollection |-> Call("DELETE", scoped, FALSE, "object"),
     Patch            |-> Call("MERGE", scoped, TRUE, "object"),
     Apply            |-> Call("APPLY", scoped, TRUE, "object"),
     ApplyStatus      |-> Call("APPLY", scoped, TRUE, "status")]

Reads(scoped) ==
    [Get   |-> Call("GET", scoped, TRUE, "object"),
     List  |-> Call("GET", scoped, FALSE, "object"),
     Watch |-> Call("WATCH", scoped, FALSE, "object")]

Writes(scoped) ==
    [Create           |-> Call("POST", scoped, FALSE, "object"),
     Update           |-> Call("PUT", scoped, TRUE, "object"),
     UpdateStatus     |-> Call("PUT", scoped, TRUE, "status"),
     Delete           |-> Call("DELETE", scoped, TRUE, "object"),
     DeleteCollection |-> Call("DELETE", scoped, FALSE, "object"),
     Patch            |-> Call("MERGE", scoped, TRUE, "object"),
     Apply            |-> Call("APPLY", scoped, TRUE, "object"),
     ApplyStatus      |-> Call("APPLY", scoped, TRUE, "status")]

GreetersReads == Reads(TRUE)
GreetersWrites == Writes(TRUE)

ClusterResourcesV1alpha1Reads == Reads(FALSE)
ClusterResourcesV1alpha1Writes == Writes(FALSE)

NamespacedResourcesV1alpha1Reads == Reads(TRUE)
NamespacedResourcesV1alpha1Writes == Writes(TRUE)

ClusterResourcesV1alpha2Reads == Reads(FALSE)
ClusterResourcesV1alpha2Writes == Writes(FALSE)

NamespacedResourcesV1alpha2Reads == Reads(TRUE)
NamespacedResourcesV1alpha2Writes == Writes(TRUE)

\* The client of controller-runtime that the CronJob reconciler uses
CronJobsReads == Reads(TRUE)
CronJobsWrites == Writes(TRUE)

TypedReads ==
    [greeters |-> GreetersReads,
     cluster1 |-> ClusterResourcesV1alpha1Reads, namespaced1 |-> NamespacedResourcesV1alpha1Reads,
     cluster2 |-> ClusterResourcesV1alpha2Reads, namespaced2 |-> NamespacedResourcesV1alpha2Reads,
     cronjobs |-> CronJobsReads]

TypedWrites ==
    [greeters |-> GreetersWrites,
     cluster1 |-> ClusterResourcesV1alpha1Writes, namespaced1 |-> NamespacedResourcesV1alpha1Writes,
     cluster2 |-> ClusterResourcesV1alpha2Writes, namespaced2 |-> NamespacedResourcesV1alpha2Writes,
     cronjobs |-> CronJobsWrites]

------------------------------------------------------------------------------
(* Fake clients: the same methods as actions on an object tracker. *)

FakeReads(scoped) ==
    [Get   |-> Call("get", scoped, TRUE, "object"),
     List  |-> Call("list", scoped, FALSE, "object"),
     Watch |-> Call("watch", scoped, FALSE, "object")]

FakeWrites(scoped) ==
    [Create           |-> Call("create", scoped, FALSE, "object"),
     Update           |-> Call("update", scoped, TRUE, "object"),
     UpdateStatus     |-> Call("update", scoped, TRUE, "status"),
     Delete           |-> Call("delete", scoped, TRUE, "object"),
     DeleteCollection |-> Call("delete-collection", scoped, FALSE, "object"),
     Patch            |-> Call("patch", scoped, TRUE, "object"),
     Apply            |-> Call("patch-apply", scoped, TRUE, "object"),
     ApplyStatus      |-> Call("patch-apply", scoped, TRUE, "status")]

FakeGreetersReads == FakeReads(TRUE)
FakeGreetersWrites == FakeWrites(TRUE)

FakeClusterResourcesV1alpha1Reads == FakeReads(FALSE)
FakeClusterResourcesV1alpha1Writes == FakeWrites(FALSE)

FakeNamespacedResourcesV1alpha1Reads == FakeReads(TRUE)
FakeNamespacedResourcesV1alpha1Writes == FakeWrites(TRUE)

FakeClusterResourcesV1alpha2Reads == FakeReads(FALSE)
FakeClusterResourcesV1alpha2Writes == FakeWrites(FALSE)

FakeNamespacedResourcesV1alpha2Reads == FakeReads(TRUE)
FakeNamespacedResourcesV1alpha2Writes == FakeWrites(TRUE)

FakedReads ==
    [greeters |-> FakeGreetersReads,
     cluster1 |-> FakeClusterResourcesV1alpha1Reads,
     namespaced1 |-> FakeNamespacedResourcesV1alpha1Reads,
     cluster2 |-> FakeClusterResourcesV1alpha2Reads,
     namespaced2 |-> FakeNamespacedResourcesV1alpha2Reads]

FakedWrites ==
    [greeters |-> FakeGreetersWrites,
     cluster1 |-> FakeClusterResourcesV1alpha1Writes,
     namespaced1 |-> FakeNamespacedResourcesV1alpha1Writes,
     cluster2 |-> FakeClusterResourcesV1alpha2Writes,
     namespaced2 |-> FakeNamespacedResourcesV1alpha2Writes]
==============================================================================
