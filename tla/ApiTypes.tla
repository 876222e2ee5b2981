------------------------------- MODULE ApiTypes -------------------------------
(***************************************************************************)
(* The Go types of the resources of this repository (types*.go) and their  *)
(* generated deep copies (zz_generated.deepcopy.go).  Of a type the module *)
(* keeps the parts of an object that it carries through JSON, the fields   *)
(* in which a plain assignment shares memory (maps, slices, pointers), and *)
(* the fields that DeepCopyInto makes anew.                                *)
(***************************************************************************)

Resources == {"greeters", "cluster1", "cluster2", "namespaced1", "namespaced2", "cronjobs"}

\* Parts of a stored object
Parts == {"labels", "spec", "status"}

\* The part that a field with a reference belongs to
PartOf ==
    [ObjectMeta |-> "labels",
     StartingDeadlineSeconds |-> "spec", Suspend |-> "spec", JobTemplate |-> "spec",
     SuccessfulJobsHistoryLimit |-> "spec", FailedJobsHistoryLimit |-> "spec",
     Active |-> "status", LastScheduleTime |-> "status"]

------------------------------------------------------------------------------
(* Types. *)

GreeterType == [carries |-> Parts, references |-> {"ObjectMeta"}]

ClusterResourceV1alpha1 == [carries |-> Parts, references |-> {"ObjectMeta"}]
NamespacedResourceV1alpha1 == [carries |-> Parts, references |-> {"ObjectMeta"}]

ClusterResourceV1alpha2 == [carries |-> Parts, references |-> {"ObjectMeta"}]
NamespacedResourceV1alpha2 == [carries |-> Parts, references |-> {"ObjectMeta"}]

CronJobSpecReferences ==
    {"StartingDeadlineSeconds", "Suspend", "JobTemplate",
     "SuccessfulJobsHistoryLimit", "FailedJobsHistoryLimit"}

CronJobStatusReferences == {"Active", "LastScheduleTime"}

CronJobType ==
    [carries |-> Parts,
     references |-> {"ObjectMeta"} \cup CronJobSpecReferences \cup CronJobStatusReferences]

Types ==
    [greeters |-> GreeterType,
     cluster1 |-> ClusterResourceV1alpha1, namespaced1 |-> NamespacedResourceV1alpha1,
     cluster2 |-> ClusterResourceV1alpha2, namespaced2 |-> NamespacedResourceV1alpha2,
     cronjobs |-> CronJobType]

------------------------------------------------------------------------------
(* Deep copies. *)

GreeterCopy == {"ObjectMeta"}

ClusterResourceV1alpha1Copy == {"ObjectMeta"}
NamespacedResourceV1alpha1Copy == {"ObjectMeta"}

ClusterResourceV1alpha2Copy == {"ObjectMeta"}
NamespacedResourceV1alpha2Copy == {"ObjectMeta"}

CronJobSpecCopy ==
    {"StartingDeadlineSeconds", "Suspend", "JobTemplate",
     "SuccessfulJobsHistoryLimit", "FailedJobsHistoryLimit"}

ActiveOnly == {"Active"}  \* Mutant: the pointer to the time is copied, not the time.

CronJobStatusCopy == {"Active", "LastScheduleTime"}

CronJobCopy == {"ObjectMeta"} \cup CronJobSpecCopy \cup CronJobStatusCopy

Copies ==
    [greeters |-> GreeterCopy,
     cluster1 |-> ClusterResourceV1alpha1Copy, namespaced1 |-> NamespacedResourceV1alpha1Copy,
     cluster2 |-> ClusterResourceV1alpha2Copy, namespaced2 |-> NamespacedResourceV1alpha2Copy,
     cronjobs |-> CronJobCopy]

\* Parts that an object and its deep copy share.
Shared(r) == {PartOf[f] : f \in Types[r].references \ Copies[r]}
==============================================================================
