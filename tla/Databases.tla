----------------------------- MODULE Databases -----------------------------
(***************************************************************************)
(* The two databases of the server.  A behaviour is about one of, named by *)
(* part: "initdb", the daemons that open the event store at once, InitDb;  *)
(* "storage", storage at work on it, with the schema in place, and         *)
(* browsers that fetch from it, Storage; "cells", the opencellid database, *)
(* CellDb.                                                                 *)
(***************************************************************************)
EXTENDS InitDb, Integers, Sequences

CONSTANTS
  StoredImeis, None, Clocks, stowevents, Tz, Numbacks, MaxBcasts, MaxRepts,   \* of Storage
  Row,                                              \* the well-formed rows of cells
  Terminals, Hints, Bodies, Dloads, FirstCells, MaxRuns,                      \* of CellDb
  BadRow, NoTable, NoSnap, NoAnswer, NoDload

VARIABLES
  part,
  zraw, zrep, bcasts, repts, times, ready, spc, events, reports, pmods, fetched,  \* Storage
  cells, writer, work, body, file, runs, seen, conn, answer, failed                      \* CellDb

opening == vars
working == <<zraw, zrep, bcasts, repts, times, ready, spc, events, reports, pmods, fetched>>
looking == <<cells, writer, work, body, file, runs, seen, conn, answer, failed>>
all == <<part, opening, working, looking>>

ST == INSTANCE Storage WITH Imeis <- StoredImeis, pc <- spc, pmodmap <- pmods
CD == INSTANCE CellDb

\* The server's time zone and the lengths of backlogs are numbers.
ASSUME StorageAssumption == Tz \in Int /\ MaxRepts \in Nat /\ Numbacks \subseteq Nat

\* A file is a sequence of rows, some of them malformed, and the markers are neither a
\* table or what is left of a file nor a process.
ASSUME DatabasesAssumption ==
  /\ Bodies \subseteq Seq(Row \cup {BadRow}) /\ BadRow \notin Row
  /\ \A rows \in SUBSET Row : rows # NoTable
  /\ NoTable \notin Seq(Row \cup {BadRow})
  /\ NoDload \notin Dloads

-----------------------------------------------------------------------------
NotOpening ==
  /\ pmodmap = [Absent EXCEPT !.schema = "new"] /\ old_pmodmap = Absent
  /\ tx = NoProc /\ pc = [p \in Procs |-> "serve"] /\ crashes = 0 /\ known = {}
  /\ need_populate_pmodmap = [p \in Procs |-> FALSE]
NotLooking ==
  /\ cells = NoTable /\ writer = NoDload /\ work = {} /\ runs = 0
  /\ body = [d \in Dloads |-> NoTable] /\ file = body
  /\ seen = {} /\ conn = CD!Idle /\ answer = NoAnswer /\ failed = {}

DatabasesInit ==
  /\ ST!Init
  /\ \/ part = "initdb" /\ Init /\ NotLooking
     \/ part = "storage" /\ NotOpening /\ NotLooking
     \/ part = "cells" /\ NotOpening /\ CD!Init

DatabasesNext ==
  \/ part = "initdb" /\ Next /\ UNCHANGED <<part, working, looking>>
  \/ part = "storage" /\ ST!Next /\ UNCHANGED <<part, opening, looking>>
  \/ part = "cells" /\ CD!Next /\ UNCHANGED <<part, opening, working>>

DatabasesSpec == DatabasesInit /\ [][DatabasesNext]_all

\* As FairSpec of InitDb.
Opening(A) == part = "initdb" /\ A /\ UNCHANGED <<part, working, looking>>
FairDatabasesSpec ==
  /\ DatabasesSpec
  /\ \A p \in Procs : WF_all(Opening(Initdb(p))) /\ WF_all(Opening(Restart(p)))

-----------------------------------------------------------------------------
\* Every event of a terminal that has logged in can be told its protocol module, also
\* when storage stops between the two commits.
KnownBeforeRecorded == ST!KnownBeforeRecorded

\* Events and reports are recorded once, in the order of publication, whatever is lost
\* in between; only locations are.
RecordedInOrder == ST!RecordedInOrder

\* A backlog is the locations that the terminal took last, oldest first, and as many as
\* were asked for, if all its reports are dated by one clock.
LastLocations == ST!LastLocations

\* Readers of cells never see a table half replaced: the table changes only to all the
\* rows that one ocid_dload is sent, at least one and none malformed, or from no table
\* to an empty one (ocid_dload.py:107-128).
ReplacedAtOnce == CD!ReplacedAtOnce

\* A lookup uses the table of the last download that was committed, however long
\* the rectifier has had its connection open.
AnswerFromLatestCells == CD!AnswerFromLatestCells

\* The position answered to a terminal is "derived from this data" (README.md:26),
\* the cells that terminal reported, and not from those of another one.
AnswerFromOwnCells == CD!AnswerFromOwnCells

\* Cells that another terminal reported get into an answer only if its lookup raised
\* between the insert and the delete, and no lookup has got to the delete since
\* (opencellid.py:30-47).
StrayCellsOfFailed == CD!StrayCellsOfFailed

=============================================================================
