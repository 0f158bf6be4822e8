--------------------------- MODULE MCK8sCollector ---------------------------
(* An instance of K8sCollector for TLC: three databases of two kinds and a  *)
(* pod that does not run, in two namespaces.                                *)
EXTENDS K8sCollector

Res(n, s, ns) == [name |-> n, sub |-> s, namespaced |-> ns]

List(g, o, R) == [group |-> g, operator |-> o, resources |-> R]

MCLists ==
  <<List("", "", {Res("pods", FALSE, TRUE), Res("secrets", FALSE, TRUE),
                  Res("pods/log", TRUE, TRUE), Res("bindings", FALSE, TRUE),
                  Res("events", FALSE, TRUE), Res("nodes", FALSE, FALSE)}),
    List("events.k8s.io", "", {Res("events", FALSE, TRUE)}),
    List("pxc.percona.com", "pxc", {Res("clusters", FALSE, TRUE)}),
    List("psmdb.percona.com", "psmdb", {Res("replicas", FALSE, TRUE)})>>

NoSpec == [volumes |-> {}, mounts |-> {}, env |-> {}]

PgbouncerSpec ==
  [volumes |-> {[name |-> "v1", secrets |-> {"pgbouncer"}], [name |-> "v2", secrets |-> {"tls"}]},
   mounts  |-> {[container |-> "main", volume |-> "v2"], [container |-> "init", volume |-> "v1"]},
   env     |-> {"pgbouncer"}]

Obj(own, template, jobTemplate) ==
  [own |-> own, template |-> template, job |-> jobTemplate]

MCObjects ==
  [n \in {"pods", "secrets", "events", "nodes", "clusters", "replicas"} |->
     CASE n = "pods" -> {Obj(PgbouncerSpec, NoSpec, PgbouncerSpec),
                         Obj(NoSpec, PgbouncerSpec, NoSpec)}
       [] n \in {"nodes", "clusters", "replicas"} -> {}
       [] OTHER -> {Obj(NoSpec, NoSpec, NoSpec)}]

MCYamlOf == [n \in {"pods", "secrets", "events", "nodes", "clusters", "replicas", "pods/log",
                    "bindings"} |->
               CASE n = "pods" -> "pods.yaml" [] n = "events" -> "events.yaml"
                 [] n = "nodes" -> "nodes.yaml" [] OTHER -> n]

\* A secret has the name of a resource's file.
MCSecrets == [ns \in {"n1", "n2"} |-> IF ns = "n1" THEN {"pods.yaml"} ELSE {}]

Labels(c) == [component |-> c, name |-> "", database |-> FALSE, pgv2 |-> FALSE]

MCPodOf ==
  [p \in {"p1", "p2", "p3", "p4"} |->
     CASE p = "p1" -> [ns |-> "n1", labels |-> Labels("pxc"), init |-> <<>>,
                       containers |-> <<"logs">>, running |-> TRUE]
       [] p = "p2" -> [ns |-> "n2", labels |-> Labels("pxc"), init |-> <<"logs">>,
                       containers |-> <<"db">>, running |-> TRUE]
       [] p = "p3" -> [ns |-> "n1", labels |-> Labels("mongod"), init |-> <<>>,
                       containers |-> <<"db">>, running |-> TRUE]
       [] p = "p4" -> [ns |-> "n2", labels |-> Labels("pxc"), init |-> <<>>,
                       containers |-> <<>>, running |-> FALSE]]

MCFiles == <<"grastate">>
=============================================================================
