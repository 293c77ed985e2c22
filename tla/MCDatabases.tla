---------------------------- MODULE MCDatabases ----------------------------
(***************************************************************************)
(* Databases with one terminal in the event store, and two downloads of    *)
(* cells at once.                                                          *)
(***************************************************************************)
EXTENDS Databases

CONSTANTS d1, d2

\* GPS reports, and those whose time is read in another time zone.
MCClocks == {"utc", "local"}

\* Rows of several editions of the table: a full file, one without rows, one whose second
\* row is malformed, and one with another cell.
MCRow == [cell : {"a", "b"}, edition : 0..3]
At(n, c) == [cell |-> c, edition |-> n]
MCBodies == {<<At(1, "a"), At(1, "b")>>, <<>>, <<At(2, "a"), BadRow>>, <<At(3, "b")>>}

\* One cell, another one, and both with a signal of 0; the first also with a cell or an
\* mcc of more than 64 bits.
MCHint(s, u) == [cells |-> s, unbound |-> u]
MCHints ==
  {MCHint({[cell |-> "a", signal |-> 50]}, u) : u \in {"nothing", "cell", "mcc"}}
  \cup {MCHint({[cell |-> "b", signal |-> 70]}, "nothing"),
        MCHint({[cell |-> "a", signal |-> 0], [cell |-> "b", signal |-> 50]}, "nothing")}

\* No table yet, or that of an earlier download.
MCFirstCells == {NoTable, {At(0, "a")}}

=============================================================================
