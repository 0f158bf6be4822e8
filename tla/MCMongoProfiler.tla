-------------------------- MODULE MCMongoProfiler --------------------------
(* MongoProfiler on small instances.                                        *)
EXTENDS MongoProfiler

\* Documents 1 and 2 are of one query, the third of another.
TwoGroups == [d \in Docs |-> IF d < 3 THEN "find" ELSE "insert"]
=============================================================================
