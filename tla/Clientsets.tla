------------------------------ MODULE Clientsets ------------------------------
(***************************************************************************)
(* How versioned.NewForConfigAndClient turns one rest.Config into the      *)
(* clients of the API groups, and which of them share a rate limiter.      *)
(***************************************************************************)
EXTENDS Integers

\* The group client that hands out the client of a resource
GreeterV1alpha1 == {"greeters"}
SampleV1alpha1 == {"cluster1", "namespaced1"}
SampleV1alpha2 == {"cluster2", "namespaced2"}

GroupOf(r) ==
    CASE r \in GreeterV1alpha1 -> "greeter"
      [] r \in SampleV1alpha1 -> "v1alpha1"
      [] r \in SampleV1alpha2 -> "v1alpha2"
      [] OTHER -> "other"

Groups == {"greeter", "v1alpha1", "v1alpha2", "discovery", "other"}

Buckets == Groups \cup {"shared"}

\* limiter: the caller gives a RateLimiter (burst is then that of the limiter).
Configs == [limiter : BOOLEAN, qps : {-1, 0, 1}, burst : Int]

\* "burst is required to be greater than 0 when RateLimiter is not set ..."
Refused(config) == ~ config.limiter /\ config.qps > 0 /\ config.burst <= 0

\* Mutant: the new limiter is not stored in the copy of the config.
GivenOnly(config) == IF config.limiter THEN {"shared"} ELSE {}

\* The limiter that the config carries when the group clients are built from it
ConfigLimiter(config) == IF config.limiter \/ config.qps > 0 THEN {"shared"} ELSE {}

\* rest.RESTClientForConfigAndClient: without a limiter in the config a group
\* client makes its own, unless QPS is negative.
Limiters(config, group) ==
    IF ConfigLimiter(config) # {} THEN ConfigLimiter(config)
    ELSE IF config.qps < 0 THEN {} ELSE {group}
==============================================================================
