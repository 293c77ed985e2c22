------------------------------- MODULE CellDb -------------------------------
(***************************************************************************)
(* The opencellid database: ocid_dload.main (src/loctrkd/ocid_dload.py)    *)
(* replaces its table cells, opencellid.lookup (src/loctrkd/opencellid.py) *)
(* of the running rectifier joins it with the temporary table seen of its  *)
(* own connection.                                                         *)
(*                                                                         *)
(* What Python's sqlite3 does is part of the model: create table takes     *)
(* effect at once, the first insert or delete opens a transaction, commit  *)
(* ends it, and a select inside a transaction keeps the snapshot of the    *)
(* first one.  A row of cells is a cell and the edition of the file it is  *)
(* from; a row of seen is the cell, its signal and who reported it.        *)
(***************************************************************************)
EXTENDS Naturals, Sequences

CONSTANTS
  Terminals,
  Hints,       \* what a terminal may report: the cells, [cell, signal] records, and
               \* what of it sqlite3 cannot bind: nothing, a cell behind these, or the
               \* mcc or mnc
  Bodies,      \* files the server may send: sequences of rows, or of BadRow
  Dloads,      \* processes of ocid_dload (the timer's, and one run by hand)
  FirstCells,  \* the tables the file may have at first, or NoTable
  MaxRuns,     \* bound: runs of ocid_dload
  BadRow, NoTable, NoSnap, NoAnswer, NoDload

VARIABLES
  cells,      \* the table, as committed
  writer,     \* the ocid_dload whose transaction is open
  work,       \* the table as that transaction sees it
  body,       \* per ocid_dload: what it has still to read, NoTable when not running
  file,       \* history: all that it is sent
  runs,
  seen,       \* the temporary table
  conn,       \* the rectifier's connection: in a transaction, and its snapshot of cells
  answer,     \* history: what the last lookup returned, and for whom
  failed      \* history: whose lookups raised before the delete since the last one that
              \* got to it

vars == <<cells, writer, work, body, file, runs, seen, conn, answer, failed>>
dloadVars == <<writer, work, body, file, runs>>
lookupVars == <<seen, conn, answer, failed>>

Idle == [open |-> FALSE, snap |-> NoSnap]

Init ==
  /\ cells \in FirstCells
  /\ writer = NoDload /\ work = {}
  /\ body = [d \in Dloads |-> NoTable] /\ file = body
  /\ runs = 0
  /\ seen = {} /\ conn = Idle /\ answer = NoAnswer /\ failed = {}

-----------------------------------------------------------------------------
(* ocid_dload.main                                                         *)

Running(d) == body[d] # NoTable

\* The response is not 200, or there is no token: nothing happens.  Otherwise the
\* table is created, at once, if there is none.  A connection that is closed early
\* looks to unzipped.read like the end of the data.
Request(d) ==
  /\ ~Running(d) /\ runs < MaxRuns
  /\ runs' = runs + 1
  /\ \/ UNCHANGED <<cells, body, file>>
     \/ /\ \E b \in Bodies : \E n \in 0..Len(b) :
             /\ body' = [body EXCEPT ![d] = SubSeq(b, 1, n)]
             /\ file' = [file EXCEPT ![d] = SubSeq(b, 1, n)]
        /\ cells = NoTable => writer = NoDload
        /\ cells' = IF cells = NoTable THEN {} ELSE cells
  /\ UNCHANGED <<writer, work, lookupVars>>

\* Leaving the with statement, or dying: what is not committed is rolled back.
Leave(d) ==
  /\ body' = [body EXCEPT ![d] = NoTable]
  /\ file' = [file EXCEPT ![d] = NoTable]
  /\ writer' = IF writer = d THEN NoDload ELSE writer
  /\ work' = IF writer = d THEN {} ELSE work

\* delete from cells opens the transaction.
DeleteAll(d) ==
  /\ Running(d) /\ writer = NoDload
  /\ writer' = d /\ work' = {}
  /\ UNCHANGED <<cells, body, file, runs, lookupVars>>

\* Another one holds the lock for longer than sqlite waits.
Locked(d) ==
  /\ Running(d) /\ writer \notin {d, NoDload}
  /\ Leave(d)
  /\ UNCHANGED <<cells, runs, lookupVars>>

\* A row of another width.
Malformed(d) == Head(body[d]) = BadRow

Insert(d) ==
  /\ work' = work \cup {Head(body[d])}
  /\ body' = [body EXCEPT ![d] = Tail(@)]
  /\ UNCHANGED <<cells, writer, file>>

\* Mutant: the rows before a malformed one are committed.
InsertRowKept(d) ==
  /\ writer = d /\ body[d] # <<>>
  /\ IF Malformed(d) THEN Leave(d) /\ cells' = work ELSE Insert(d)
  /\ UNCHANGED <<runs, lookupVars>>

\* One turn of the loop over the rows; a malformed one raises.
InsertRow(d) ==
  /\ writer = d /\ body[d] # <<>>
  /\ IF Malformed(d) THEN Leave(d) /\ UNCHANGED cells ELSE Insert(d)
  /\ UNCHANGED <<runs, lookupVars>>

\* The end of the data: without a row roll back, else commit.
Finish(d) ==
  /\ writer = d /\ body[d] = <<>>
  /\ cells' = IF work = {} THEN cells ELSE work
  /\ Leave(d)
  /\ UNCHANGED <<runs, lookupVars>>

\* The download is interrupted, or the process is killed.
Interrupted(d) ==
  /\ Running(d)
  /\ Leave(d)
  /\ UNCHANGED <<cells, runs, lookupVars>>

Dload(d) ==
  \/ Request(d) \/ DeleteAll(d) \/ Locked(d) \/ InsertRow(d) \/ Finish(d)
  \/ Interrupted(d)

-----------------------------------------------------------------------------
(* opencellid                                                              *)

\* select ... from cells, seen where area and cell are equal
Join(table, rows) ==
  {[row |-> x[1], hint |-> x[2]] : x \in {y \in table \X rows : y[1].cell = y[2].cell}}

Reported(t, h) == {[cell |-> x.cell, signal |-> x.signal, by |-> t] : x \in h.cells}

\* Mutant: the transaction that the insert opens stays open.
NoCommit(c) == [c EXCEPT !.open = TRUE]

\* The insert opens a transaction, or joins the open one; commit ends it.
InsertAndCommit(c) == Idle

\* Mutant: seen is emptied when something was found.
SeenUnlessFound(rows, data) == IF data = {} THEN rows ELSE {}

\* delete from seen, before the data are looked at.
SeenAfter(rows, data) == {}

\* The cells that lookup for terminal t finds in seen.
RowsOf(t, h) == seen \cup Reported(t, h)

\* executemany raises OverflowError at a cell of more than 64 bits (beesure takes any
\* number): those before it are in seen, and the transaction is open.  Like all that
\* lookup raises, it is logged by the rectifier, which goes on.
InsertFails(t, h) ==
  /\ h.unbound = "cell"
  /\ seen' = RowsOf(t, h) /\ conn' = [conn EXCEPT !.open = TRUE]
  /\ answer' = NoAnswer /\ failed' = failed \cup {t}
  /\ UNCHANGED <<cells, dloadVars>>

\* The table that the select finds: that of its transaction, if one is open.
Selected(c) == IF c.snap = NoSnap THEN cells ELSE c.snap

\* The select raises when there is no table or mcc or mnc are too large, after the
\* commit and before seen is emptied.
SelectFails(t, h) ==
  LET c == InsertAndCommit(conn) IN
  /\ h.unbound # "cell" /\ (h.unbound = "mcc" \/ Selected(c) = NoTable)
  /\ seen' = RowsOf(t, h) /\ conn' = c
  /\ answer' = NoAnswer /\ failed' = failed \cup {t}
  /\ UNCHANGED <<cells, dloadVars>>

\* lookup gets to its delete, which opens a transaction again.  It raises then when no
\* row joins and when a signal is 0 (1 / sig).
Lookup(t, h) ==
  LET c     == InsertAndCommit(conn)
      table == Selected(c)
      data  == Join(table, RowsOf(t, h))
  IN
  /\ h.unbound = "nothing" /\ table # NoTable
  /\ seen' = SeenAfter(RowsOf(t, h), data)
  /\ conn' = [open |-> TRUE, snap |-> IF c.open THEN table ELSE NoSnap]
  /\ answer' = IF data = {} \/ \E x \in data : x.hint.signal = 0
               THEN NoAnswer
               ELSE [to |-> t, data |-> data]
  /\ failed' = {}
  /\ UNCHANGED <<cells, dloadVars>>

\* The rectifier is started again: init makes a new connection and a new seen.
InitLookup ==
  /\ seen' = {} /\ conn' = Idle /\ answer' = NoAnswer /\ failed' = {}
  /\ UNCHANGED <<cells, dloadVars>>

Next ==
  \/ \E d \in Dloads : Dload(d)
  \/ \E t \in Terminals, h \in Hints : InsertFails(t, h) \/ SelectFails(t, h) \/ Lookup(t, h)
  \/ InitLookup

Spec == Init /\ [][Next]_vars

-----------------------------------------------------------------------------
Rows(b) == {b[i] : i \in DOMAIN b}

\* Readers of cells never see a table half replaced: the table changes only to all the
\* rows that one ocid_dload is sent, at least one and none malformed, or from no table
\* to an empty one.  Wherever ocid_dload fails or is killed, and whatever another one
\* does meanwhile, it stays as it was.
ReplacedAtOnce ==
  [][cells' # cells =>
       \/ cells = NoTable /\ cells' = {}
       \/ \E d \in Dloads : /\ Running(d) /\ BadRow \notin Rows(file[d])
                             /\ cells' = Rows(file[d]) /\ cells' # {}]_vars

\* A lookup uses the table of the last download that was committed, however long
\* the rectifier has had its connection open.
AnswerFromLatestCells ==
  [][answer' # answer /\ answer' # NoAnswer => \A x \in answer'.data : x.row \in cells]_vars

\* The position answered to a terminal is "derived from this data" (README.md:26),
\* the cells that terminal reported, and not from those of another one.
AnswerFromOwnCells ==
  answer # NoAnswer => \A x \in answer.data : x.hint.by = answer.to

\* Cells that another terminal reported get into an answer only if its lookup raised
\* between the insert and the delete, and no lookup has got to the delete since: one
\* that finds nothing, or divides by a signal of 0, leaves nothing behind.
StrayCellsOfFailed ==
  [][answer' # answer /\ answer' # NoAnswer =>
       \A x \in answer'.data : x.hint.by \in failed \cup {answer'.to}]_vars

=============================================================================
