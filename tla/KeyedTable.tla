----------------------------- MODULE KeyedTable -----------------------------
(***************************************************************************)
(* What append_rows promises about one Delta table: while the table is     *)
(* append-only a batch is inserted at once, a key is inserted once, and    *)
(* nothing is altered or removed; while retention has the property lifted  *)
(* rows are removed and none is inserted.                                  *)
(***************************************************************************)
VARIABLES table,       \* a set of rows with a field key
          appendOnly   \* its delta.appendOnly property

KeysOf(rows) == {r.key : r \in rows}

Init == table = {} /\ appendOnly = TRUE

Insert ==
    /\ appendOnly
    /\ table \subseteq table'
    /\ KeysOf(table' \ table) \cap KeysOf(table) = {}
    /\ \A r, s \in table' \ table : r.key = s.key => r = s
    /\ UNCHANGED appendOnly

Remove ==
    /\ ~appendOnly
    /\ table' \subseteq table
    /\ UNCHANGED appendOnly

Switch ==
    /\ appendOnly' = ~appendOnly
    /\ UNCHANGED table

Next == Insert \/ Remove \/ Switch

Spec == Init /\ [][Next]_<<table, appendOnly>>
=============================================================================
