--------------------------- MODULE MCMongoSummary ---------------------------
(* MongoSummary on small deployments.                                       *)
EXTENDS MongoSummary, TLC

\* A mongos, a config server, a shard of two members and a lone mongod.
Five == {"a", "b", "c", "m", "s"}
ByName == ("a" :> 1 @@ "b" :> 2 @@ "c" :> 3 @@ "m" :> 4 @@ "s" :> 5)
ClusterRoles == ("a" :> "shardsvr" @@ "b" :> "shardsvr" @@ "c" :> "configsvr"
                 @@ "m" :> "mongos" @@ "s" :> "mongod")
ClusterSets == ("a" :> "rs0" @@ "b" :> "rs0" @@ "c" :> "cfg" @@ "m" :> "" @@ "s" :> "")

\* Every command line that is refused, and those that connect.
Line(x, p, f, w, h, v, t, n, o, l) ==
  [host |-> x, positional |-> p, flags |-> f, password |-> w, help |-> h, version |-> v, tls |-> t,
   samples |-> n, format |-> o, log |-> l]

Lines ==
  {Line("m", p, f, w, h, v, t, 2, "json", Warn) :
     p \in {"none", "good", "bad"}, f \in SUBSET {"uri", "host"},
     w \in {"none", "unreadable"}, h \in BOOLEAN, v \in BOOLEAN,
     t \in {"missing", "invalid"}}
  \cup {Line(x, "good", {}, "read", FALSE, FALSE, "good", n, o, l) :
             x \in {"a", "m", "s"}, n \in {0, 2}, o \in {"text", "json"},
             l \in {Warn, Info}}

\* Two databases: one collection sharded, two not.
ThreeColls == {[db |-> "d1", name |-> "x", sharded |-> TRUE, size |-> 2],
               [db |-> "d1", name |-> "y", sharded |-> FALSE, size |-> 1],
               [db |-> "d2", name |-> "z", sharded |-> FALSE, size |-> 3]}
=============================================================================
