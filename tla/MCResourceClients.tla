-------------------------- MODULE MCResourceClients --------------------------
(* Instances of ResourceClients for TLC. *)
EXTENDS ResourceClients, TLC

CONSTANTS c1, c2

Unlimited == [limiter |-> FALSE, qps |-> -1, burst |-> 0]

\* crd-greeter.yaml, and the markers of the CronJob type
WithStatusResource == [scoped |-> TRUE, status |-> TRUE, admits |-> TRUE]

\* crd-namespacedresources.yaml and crd-clusterresources.yaml define kinds of other
\* names (NamespacedResources, ClusterResources), and require a field that the Go
\* types do not have.
Deployed(scoped) == [scoped |-> scoped, status |-> FALSE, admits |-> FALSE]

\* The same with the kinds of the Go types, and without that requirement
Corrected(scoped) == [Deployed(scoped) EXCEPT !.admits = TRUE]

Both(r1, r2) == (c1 :> r1) @@ (c2 :> r2)

System(backend, crd, clients, methods) ==
    [backend |-> backend, crd |-> crd, clients |-> clients, informer |-> clients[c2],
     selector |-> {}, config |-> Unlimited, methods |-> methods, maxWrites |-> 3]

Greeters == [System("server", WithStatusResource, Both("greeters", "greeters"),
                    {"Create", "Update", "UpdateStatus", "Delete"})
             EXCEPT !.maxWrites = 4]

Appliers == [System("server", WithStatusResource, Both("greeters", "greeters"),
                    {"Update", "UpdateStatus", "Apply", "ApplyStatus"})
             EXCEPT !.selector = {CHOOSE l \in Applied : TRUE}]

Builders == System("server", WithStatusResource, Both("greeters", "greeters"),
                   {"Create", "ForKind"})

\* Two versions of one kind, and an informer of labelled objects
Versions == [System("server", Corrected(TRUE), Both("namespaced1", "namespaced2"),
                    {"Create", "Update", "UpdateStatus", "Patch", "DeleteCollection"})
             EXCEPT !.selector = {Edited}, !.maxWrites = 4]

ClusterVersions == System("server", Corrected(FALSE), Both("cluster1", "cluster2"),
                          {"Create", "Update", "Delete"})

Refusing == System("server", Deployed(TRUE), Both("namespaced1", "namespaced2"),
                   {"Create", "Update", "Apply"})

CronJobs == System("server", WithStatusResource, Both("cronjobs", "cronjobs"),
                   {"Create", "Update", "UpdateStatus", "Delete"})

\* Programs under test, with the fake clientset
Faked(crd, clients) ==
    System("tracker", crd, clients, {"Create", "Update", "UpdateStatus", "Delete", "Patch",
                                     "DeleteCollection", "Apply"})

Fakes == {Faked(WithStatusResource, Both("greeters", "greeters")),
          Faked(Corrected(TRUE), Both("namespaced1", "namespaced2")),
          Faked(Corrected(FALSE), Both("cluster1", "cluster2"))}

\* One clientset with a limit, its groups all at work.  The one that asks for a
\* rate without a burst is refused.
Limited == {[System("server", Corrected(TRUE), Both("namespaced1", "namespaced2"),
                    {"Create", "Discover"})
             EXCEPT !.config = [limiter |-> FALSE, qps |-> q, burst |-> b]]
            : <<q, b>> \in {<<0, 1>>, <<0, 2>>, <<1, 0>>, <<1, 1>>, <<1, 2>>}}

MCSetups == {Greeters, Appliers, Builders, Versions, ClusterVersions, Refusing, CronJobs}
            \cup Fakes \cup Limited
==============================================================================
