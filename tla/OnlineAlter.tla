---------------------------- MODULE OnlineAlter ----------------------------
(***************************************************************************)
(* What pt-online-schema-change promises the application: it keeps reading *)
(* and writing one table.  At one instant the table takes its new          *)
(* definition, and no row is gained, lost or changed by that, however long *)
(* the copy behind it ran and however often it was interrupted.  The       *)
(* drop_swap method adds an outage between the old table and the new one.  *)
(***************************************************************************)
CONSTANTS Keys,    \* values of the unique key the rows are chunked by
          Vals,    \* what a row may hold besides its key
          Absent   \* "no row with this key"

VARIABLES rows,    \* the rows the application owns
          shape    \* "old", "gone" (drop_swap's outage) or "new"

Rows == [Keys -> Vals \cup {Absent}]

\* A row moves from key k to key l (or stays, k = l) and takes the value v.
Moved(r, k, l, v) == [r EXCEPT ![k] = Absent, ![l] = v]

Init == rows \in Rows /\ shape = "old"

Insert(k, v) == /\ rows[k] = Absent
                /\ rows' = [rows EXCEPT ![k] = v]

Update(k, l, v) == /\ rows[k] # Absent
                   /\ l = k \/ rows[l] = Absent
                   /\ rows' = Moved(rows, k, l, v)

Delete(k) == /\ rows[k] # Absent
             /\ rows' = [rows EXCEPT ![k] = Absent]

\* One statement of the application; impossible while the table is gone.
Write == /\ shape # "gone"
         /\ \/ \E k \in Keys, v \in Vals : Insert(k, v)
            \/ \E k, l \in Keys, v \in Vals : Update(k, l, v)
            \/ \E k \in Keys : Delete(k)
         /\ UNCHANGED shape

\* RENAME TABLE t TO _t_old, _t_new TO t.
Swap == shape = "old" /\ shape' = "new" /\ UNCHANGED rows

\* drop_swap: DROP TABLE t, then RENAME TABLE _t_new TO t.
Vanish == shape = "old" /\ shape' = "gone" /\ UNCHANGED rows
Return == shape = "gone" /\ shape' = "new" /\ UNCHANGED rows

Next == Write \/ Swap \/ Vanish \/ Return

Spec == Init /\ [][Next]_<<rows, shape>>
=============================================================================
