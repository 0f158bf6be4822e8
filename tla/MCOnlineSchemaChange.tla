----------------------- MODULE MCOnlineSchemaChange -----------------------
(* OnlineSchemaChange on small instances.                                   *)
EXTENDS OnlineSchemaChange, TLC

\* The options the runs give the tool: see LegalOptions.
O(s, dn, dt, do) == [swap |-> s, dropNew |-> dn, dropTriggers |-> dt, dropOld |-> do]
DefaultOptions  == {O("rename", TRUE, TRUE, TRUE)}
RenameOptions   == {O("rename", TRUE, TRUE, TRUE), O("rename", FALSE, FALSE, FALSE)}
ResumeOptions == RenameOptions \cup {O("drop_swap", FALSE, TRUE, FALSE)}
\* Every legal combination but --nodrop-triggers --drop-new-table.
AllSafe == {o \in LegalOptions : o.dropNew => o.dropTriggers}

\* Nothing depends on which value a row holds, only on whether two are equal.
Symmetry == Permutations(Vals)
=============================================================================
