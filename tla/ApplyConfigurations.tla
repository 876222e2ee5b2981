------------------------- MODULE ApplyConfigurations -------------------------
(***************************************************************************)
(* The builders of server-side apply (directories applyconfiguration).  A  *)
(* pointer of a configuration is the set of what it points to: empty when  *)
(* nil.  kind stands for Kind and APIVersion, named by the resource that   *)
(* has them; meta says that the embedded *ObjectMetaApplyConfiguration,    *)
(* which holds name and labels, is allocated; type tells the builders of   *)
(* whole objects from those of a spec or a status.                         *)
(***************************************************************************)

\* A configuration without fields: &GreeterApplyConfiguration{}
New(type) ==
    [type |-> type, kind |-> {}, meta |-> FALSE, name |-> {}, labels |-> {},
     spec |-> {}, status |-> {}]

\* Resources whose types have builders, and the types of each
Configured == {"greeters", "cluster1", "cluster2", "namespaced1", "namespaced2"}

ConfiguredTypes == {"object", "spec", "status"}

\* The pointer that ForKind returns for the type of a resource: nil when there are no
\* builders for it.
ForKind(r, type) ==
    IF r \in Configured /\ type \in ConfiguredTypes THEN {New(type)} ELSE {}

\* ensureObjectMetaApplyConfigurationExists
Ensured(b) == [b EXCEPT !.meta = TRUE]

WithKind(b, kind) == [b EXCEPT !.kind = {kind}]

WithName(b, name) == [Ensured(b) EXCEPT !.name = {name}]

\* Mutant: the map is made anew by every call.
WithLabelsAnew(b, entries) == [Ensured(b) EXCEPT !.labels = entries]

\* "the entries provided by each call will be put on the Labels field"
WithLabels(b, entries) == [Ensured(b) EXCEPT !.labels = @ \cup entries]

WithSpec(b, spec) == [b EXCEPT !.spec = {spec}]

WithStatus(b, status) == [b EXCEPT !.status = {status}]

\* The constructors
Greeter(name) == WithKind(WithName(New("object"), name), "greeters")

ClusterResource1(name) == WithKind(WithName(New("object"), name), "cluster1")
ClusterResource2(name) == WithKind(WithName(New("object"), name), "cluster2")

NamespacedResource1(name) == WithKind(WithName(New("object"), name), "namespaced1")
NamespacedResource2(name) == WithKind(WithName(New("object"), name), "namespaced2")

Constructor(r, name) ==
    CASE r = "greeters" -> Greeter(name)
      [] r = "cluster1" -> ClusterResource1(name)
      [] r = "cluster2" -> ClusterResource2(name)
      [] r = "namespaced1" -> NamespacedResource1(name)
      [] r = "namespaced2" -> NamespacedResource2(name)

\* What Apply and ApplyStatus do with a configuration before they send anything:
\* "name := c.Name" reads through the embedded pointer.
Panics(b) == ~ b.meta

Unnamed(b) == b.meta /\ b.name = {}
==============================================================================
