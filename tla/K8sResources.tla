---------------------------- MODULE K8sResources ----------------------------
(***************************************************************************)
(* src/go/pt-k8s-debug-collector/dumper: what the collector decides before *)
(* and while it collects, without state of its own: which resources to     *)
(* export and from which API group, which custom resources the cluster     *)
(* has, which pods belong to them, what is taken out of an object, and     *)
(* where in the archive everything goes.                                   *)
(*                                                                         *)
(* An API resource list is [group, version, operator, resources], its      *)
(* operator being the <op> of a group <op>.percona.com or ""; a resource   *)
(* is [name, sub, namespaced], sub saying whether its name has a slash.    *)
(***************************************************************************)
EXTENDS Integers, Sequences, FiniteSets

CONSTANT YamlOf   \* resource name -> the name with .yaml after it

(* discoverResources                                                        *)

Ignored == {"componentstatuses", "endpoints", "bindings", "tokenreviews"}

FilterResource(r) == ~r.sub /\ r.name \notin Ignored

\* The lists, by position, that have a resource of that name.
ListsWith(lists, name) ==
  {i \in DOMAIN lists : \E r \in lists[i].resources : r.name = name /\ FilterResource(r)}

\* chosenGroups: the first list with the name, unless a later one is of the
\* events.k8s.io group.
ChosenGroup(lists, name) ==
  LET with   == ListsWith(lists, name)
      events == {i \in with : lists[i].group = "events.k8s.io"}
  IN CHOOSE i \in with :
       IF events = {} THEN \A j \in with : i <= j
                      ELSE i \in events /\ \A j \in events : i <= j

\* Mutant: a resource is taken from every group that has it.
DiscoverResourcesMutant(lists) ==
  {[name |-> x[2].name, namespaced |-> x[2].namespaced, group |-> lists[x[1]].group] :
     x \in {y \in UNION {{i} \X lists[i].resources : i \in DOMAIN lists} :
               FilterResource(y[2])}}

\* The resources to export, one for each name.
DiscoverResources(lists) ==
  {[name |-> x[2].name, namespaced |-> x[2].namespaced, group |-> lists[x[1]].group] :
     x \in {y \in UNION {{i} \X lists[i].resources : i \in DOMAIN lists} :
               FilterResource(y[2]) /\ y[1] = ChosenGroup(lists, y[2].name)}}
-----------------------------------------------------------------------------
(* Custom resources.                                                        *)

\* autoCustomResource, from the lists that could be read.
AutoCustomResource(lists) ==
  LET found == {lists[i].operator : i \in {j \in DOMAIN lists :
                  lists[j].operator # "" /\ \E r \in lists[j].resources : ~r.sub}}
  IN IF found = {} THEN {"none"} ELSE found

\* resourceType: the name of a type, however it is given.
ResourceType(s) == IF s = "pgo" THEN "pg" ELSE s

\* The files addPxc, addPg1 and addPg2 register; the other types have none.
FilesContainer(type) ==
  CASE type = "pxc" -> "logs" [] type \in {"pg", "pgv2"} -> "database" [] OTHER -> ""

\* matchesCR, a pod's labels being [component, name, database, pgv2].
MatchesCR(type, labels) ==
  LET cr == CASE type = "psmdb" -> "mongod" [] type = "ps" -> "mysql" [] OTHER -> type
  IN \/ labels.component = cr \/ labels.name = cr
     \/ cr \in {"pg", "pgo"} /\ labels.database
     \/ cr = "pgv2" /\ labels.pgv2

\* The port of the database a summary is taken through; 0: it is run in the pod.
RemotePort(type) ==
  CASE type \in {"pxc", "ps"} -> 3306 [] type = "psmdb" -> 27017 [] OTHER -> 0
-----------------------------------------------------------------------------
(* redactPgbouncerVolumeRefs.  An object has a pod specification of its     *)
(* own, one of its template, and one of its job's template (a CronJob's).   *)
(* A specification has volumes, [name, secrets] with the secrets it refers  *)
(* to, mounts, [container, volume], and env, the secrets that environment   *)
(* variables are taken from.                                                *)

PgbouncerSecrets == {"pgbouncer", "pgbouncer-users"}

HasPgbouncerSecretRef(vol) == vol.secrets \cap PgbouncerSecrets # {}

\* Mutant: only the first kind of containers is looked at.
RedactPodSpecMutant(spec) ==
  LET gone == {v.name : v \in {w \in spec.volumes : HasPgbouncerSecretRef(w)}}
  IN [volumes |-> {v \in spec.volumes : ~HasPgbouncerSecretRef(v)},
      mounts  |-> {m \in spec.mounts : m.container # "main" \/ m.volume \notin gone},
      env     |-> spec.env]

RedactPodSpec(spec) ==
  LET gone == {v.name : v \in {w \in spec.volumes : HasPgbouncerSecretRef(w)}}
  IN [volumes |-> {v \in spec.volumes : ~HasPgbouncerSecretRef(v)},
      mounts  |-> {m \in spec.mounts : m.volume \notin gone},
      env     |-> spec.env]

RedactPgbouncerVolumeRefs(obj) ==
  [own |-> RedactPodSpec(obj.own), template |-> RedactPodSpec(obj.template),
   job |-> obj.job]

\* A mount names a volume of the same specification.
Mountable(spec) == \A m \in spec.mounts : \E v \in spec.volumes : v.name = m.volume
-----------------------------------------------------------------------------
(* The paths of the archive, below its location.  A name has no slash, but   *)
(* it may have dots.                                                        *)

DumperLogPath == <<"errors.txt">>
PodResourcePath(ns, resource) == <<IF ns = "" THEN "cluster-scope" ELSE ns, YamlOf[resource]>>
NamespaceIndividualFilesPath(ns, secret) == <<ns, secret>>
PodLogPath(ns, pod, container) == <<ns, pod, container, "log">>
PodSummaryPath(ns, pod) == <<ns, pod, "summary", "txt">>
PodIndividualFilesPath(ns, pod, file) == <<ns, pod, "var", "lib", file>>
=============================================================================
