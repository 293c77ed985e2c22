---------------------------- MODULE InitDbProofs ----------------------------
(***************************************************************************)
(* Proofs about InitDb, for any set of daemons, terminals and crashes.     *)
(***************************************************************************)
EXTENDS InitDb, TLAPS

USE InitDbAssumption

Tables == [schema : {"absent", "old", "new"}, rows : [Imeis -> {"none", "before", "stowed"}]]

Labels == {"count_pmod", "count_tstamp", "rename", "schema", "populate", "drop", "commit",
           "serve", "dead"}

TypeInv ==
  /\ pmodmap \in Tables /\ old_pmodmap \in Tables
  /\ tx \in Procs \cup {NoProc}
  /\ pc \in [Procs -> Labels]
  /\ need_populate_pmodmap \in [Procs -> BOOLEAN]
  /\ crashes \in Nat
  /\ known \subseteq Imeis

\* Who is between the insert and the commit holds the transaction, so that there is
\* at most one.
HolderInv == \A p \in Procs : pc[p] \in {"drop", "commit"} <=> tx = p

\* While it is held, no terminal has a row in both tables: the insert found none, and
\* nobody else writes.
CopyInv == tx # NoProc => ~PopulateFails

\* A table that does not exist has no rows.
AbsentInv ==
  /\ pmodmap.schema = "absent" => pmodmap = Absent
  /\ old_pmodmap.schema = "absent" => old_pmodmap = Absent

\* The inductive invariant of initdb.
IInv == TypeInv /\ HolderInv /\ CopyInv /\ AbsentInv /\ RowsKept

\* The initial states have it: a new, an older and an up to date file.
LEMMA InitIInv == Init => IInv
<1> SUFFICES ASSUME Init PROVE IInv
  OBVIOUS
<1>1. NoRows \in [Imeis -> {"none", "before", "stowed"}] /\ Absent \in Tables
  BY DEF NoRows, Absent, Tables
<1>2. pmodmap \in Tables /\ (pmodmap.schema = "absent" => pmodmap = Absent)
  <2>1. CASE pmodmap = Absent
    BY <2>1, <1>1
  <2>2. ASSUME NEW s \in {"old", "new"}, NEW K \in SUBSET Imeis,
               pmodmap = [schema |-> s,
                          rows |-> [i \in Imeis |-> IF i \in K THEN "before" ELSE "none"]]
        PROVE  pmodmap \in Tables /\ pmodmap.schema # "absent"
    BY <2>2 DEF Tables
  <2> QED
    BY <2>1, <2>2 DEF Init
<1>3. TypeInv
  BY <1>1, <1>2 DEF Init, TypeInv, Labels
<1>4. HolderInv /\ CopyInv
  BY DEF Init, HolderInv, CopyInv
<1>5. AbsentInv /\ RowsKept
  BY <1>2 DEF Init, AbsentInv, RowsKept
<1> QED
  BY <1>3, <1>4, <1>5 DEF IInv

\* Statements that only read, or fail, keep it: they touch no table.
LEMMA ReadIInv ==
  ASSUME IInv, NEW p \in Procs,
         CountPmod(p) \/ CountTstamp(p) \/ FetchpmodFails(p) \/ Restart(p) \/ Drop(p)
  PROVE  IInv'
<1> USE DEF Goto
<1>1. TypeInv'
  BY DEF IInv, TypeInv, Labels, CountPmod, CountTstamp, FetchpmodFails, Restart, Drop
<1>2. UNCHANGED <<pmodmap, old_pmodmap, tx, known>>
  BY DEF CountPmod, CountTstamp, FetchpmodFails, Restart, Drop
<1>3. pc \in [Procs -> Labels] /\ HolderInv
  BY DEF IInv, TypeInv
<1>4. HolderInv'
  BY <1>2, <1>3 DEF HolderInv, CountPmod, CountTstamp, FetchpmodFails, Restart, Drop, Labels
<1>5. (CopyInv /\ AbsentInv /\ RowsKept)'
  BY <1>2 DEF IInv, CopyInv, AbsentInv, RowsKept, PopulateFails
<1> QED
  BY <1>1, <1>4, <1>5 DEF IInv

\* alter table rename moves all rows of a terminal, or none.
LEMMA RenameIInv ==
  ASSUME IInv, NEW p \in Procs, Rename(p)
  PROVE  IInv'
<1> USE DEF Goto
<1>0. Absent \in Tables /\ \A i \in Imeis : Absent.rows[i] = "none"
  BY DEF Absent, NoRows, Tables
<1>1. TypeInv'
  BY <1>0 DEF IInv, TypeInv, Labels, Rename
<1>2. HolderInv'
  BY DEF IInv, TypeInv, HolderInv, Rename, Labels
<1>3. CopyInv'
  BY DEF CopyInv, Rename, Unlocked
<1>4. AbsentInv'
  BY DEF IInv, AbsentInv, Rename
<1>5. RowsKept'
  BY <1>0 DEF IInv, TypeInv, AbsentInv, RowsKept, Rename
<1> QED
  BY <1>1, <1>2, <1>3, <1>4, <1>5 DEF IInv

\* create table, if there is none.
LEMMA SchemaIInv ==
  ASSUME IInv, NEW p \in Procs, Schema(p)
  PROVE  IInv'
<1> USE DEF Goto
<1>0. [Absent EXCEPT !.schema = "new"] = [schema |-> "new", rows |-> NoRows]
  BY DEF Absent
<1>1. NoRows \in [Imeis -> {"none", "before", "stowed"}] /\ Absent \in Tables
  BY DEF Absent, NoRows, Tables
<1>2. \/ pmodmap' = pmodmap
      \/ /\ tx = NoProc /\ pmodmap = Absent
         /\ pmodmap' = [schema |-> "new", rows |-> NoRows]
  BY <1>0 DEF IInv, AbsentInv, Schema, Unlocked
<1>3. pmodmap' \in Tables /\ pmodmap'.rows = pmodmap.rows
  BY <1>1, <1>2 DEF IInv, TypeInv, Tables, Absent
<1>4. TypeInv'
  BY <1>3 DEF IInv, TypeInv, Labels, Schema
<1>5. HolderInv'
  BY DEF IInv, TypeInv, HolderInv, Schema, Labels
<1>6. CopyInv'
  BY <1>3 DEF IInv, CopyInv, Schema, PopulateFails
<1>7. AbsentInv'
  BY <1>2 DEF IInv, AbsentInv, Schema
<1>8. RowsKept'
  BY <1>3 DEF IInv, RowsKept, Schema
<1> QED
  BY <1>4, <1>5, <1>6, <1>7, <1>8 DEF IInv

\* insert ... select takes the transaction, when no row is in both tables.
LEMMA PopulateIInv ==
  ASSUME IInv, NEW p \in Procs, Populate(p)
  PROVE  IInv'
<1> USE DEF Goto
<1>1. TypeInv'
  BY DEF IInv, TypeInv, Labels, Populate
<1>2. HolderInv'
  BY DEF IInv, TypeInv, HolderInv, Populate, Labels, Unlocked
<1>3. CopyInv'
  BY DEF CopyInv, Populate, Unlocked, PopulateFails
<1>4. (AbsentInv /\ RowsKept)'
  BY DEF IInv, AbsentInv, RowsKept, Populate
<1> QED
  BY <1>1, <1>2, <1>3, <1>4 DEF IInv

\* What the commit makes of the two tables: every row is in pmodmap then.
LEMMA CommitRows ==
  ASSUME IInv, NEW p \in Procs, Commit(p)
  PROVE  /\ pmodmap' \in Tables /\ pmodmap'.schema = pmodmap.schema
         /\ \A i \in Imeis :
              pmodmap'.rows[i] = IF old_pmodmap.rows[i] # "none" THEN old_pmodmap.rows[i]
                                 ELSE pmodmap.rows[i]
         /\ tx = p /\ ~PopulateFails
BY DEF IInv, TypeInv, HolderInv, CopyInv, Tables, Commit, Goto

\* The commit keeps the invariant.
LEMMA CommitIInv ==
  ASSUME IInv, NEW p \in Procs, Commit(p)
  PROVE  IInv'
<1> USE DEF Goto
<1>0. Absent \in Tables
  BY DEF Absent, NoRows, Tables
<1>1. TypeInv'
  BY <1>0, CommitRows DEF IInv, TypeInv, Labels, Commit
<1>2. HolderInv'
  BY DEF IInv, TypeInv, HolderInv, Commit, Labels
<1>3. CopyInv'
  BY DEF CopyInv, Commit
<1>4. AbsentInv'
  BY CommitRows DEF AbsentInv, PopulateFails, Commit
<1>5. RowsKept'
  BY CommitRows DEF IInv, TypeInv, RowsKept, Commit
<1> QED
  BY <1>1, <1>2, <1>3, <1>4, <1>5 DEF IInv

\* stowpmod writes when nobody is in a transaction.
LEMMA StowpmodIInv ==
  ASSUME IInv, NEW i \in Imeis, Stowpmod(i)
  PROVE  IInv'
<1> USE DEF Goto
<1>1. CASE pmodmap.schema = "absent"
  <2>1. TypeInv'
    BY <1>1 DEF IInv, TypeInv, Labels, Stowpmod
  <2>2. HolderInv'
    BY <1>1 DEF IInv, TypeInv, HolderInv, Stowpmod, Labels
  <2>3. (CopyInv /\ AbsentInv /\ RowsKept)'
    BY <1>1 DEF IInv, CopyInv, AbsentInv, RowsKept, Stowpmod, Unlocked
  <2> QED
    BY <2>1, <2>2, <2>3 DEF IInv
<1>2. CASE pmodmap.schema # "absent"
  <2>1. /\ pmodmap' \in Tables /\ pmodmap'.schema # "absent"
        /\ \A j \in Imeis : pmodmap'.rows[j] = IF j = i THEN "stowed" ELSE pmodmap.rows[j]
    BY <1>2 DEF IInv, TypeInv, Tables, Stowpmod
  <2>2. UNCHANGED <<old_pmodmap, tx, pc>> /\ tx = NoProc /\ known' = known \cup {i}
    BY <1>2 DEF Stowpmod, Unlocked
  <2>3. TypeInv'
    BY <1>2, <2>1, <2>2 DEF IInv, TypeInv, Stowpmod
  <2>4. (HolderInv /\ CopyInv /\ AbsentInv)'
    BY <2>1, <2>2 DEF IInv, HolderInv, CopyInv, AbsentInv
  <2>5. RowsKept'
    BY <2>1, <2>2 DEF IInv, TypeInv, RowsKept
  <2> QED
    BY <2>3, <2>4, <2>5 DEF IInv
<1> QED
  BY <1>1, <1>2

\* A daemon that dies loses its transaction and nothing else.
LEMMA CrashIInv ==
  ASSUME IInv, NEW p \in Procs, Crash(p)
  PROVE  IInv'
<1> USE DEF Goto
<1>1. TypeInv'
  BY DEF IInv, TypeInv, Labels, Crash, Rollback
<1>2. HolderInv'
  BY DEF IInv, TypeInv, HolderInv, Crash, Rollback, Labels
<1>3. (CopyInv /\ AbsentInv /\ RowsKept)'
  BY DEF IInv, CopyInv, AbsentInv, RowsKept, PopulateFails, Crash, Rollback
<1> QED
  BY <1>1, <1>2, <1>3 DEF IInv

\* Every step keeps the invariant.
LEMMA StepIInv == IInv /\ [Next]_vars => IInv'
<1> SUFFICES ASSUME IInv, [Next]_vars PROVE IInv'
  OBVIOUS
<1>1. ASSUME NEW p \in Procs, Initdb(p) PROVE IInv'
  BY <1>1, ReadIInv, RenameIInv, SchemaIInv, PopulateIInv, CommitIInv DEF Initdb
<1>2. ASSUME NEW p \in Procs, FetchpmodFails(p) \/ Crash(p) \/ Restart(p) PROVE IInv'
  BY <1>2, ReadIInv, CrashIInv
<1>3. CASE UNCHANGED vars
  BY <1>3 DEF vars, IInv, TypeInv, HolderInv, CopyInv, AbsentInv, RowsKept, PopulateFails
<1> QED
  BY <1>1, <1>2, <1>3, StowpmodIInv DEF Next

\* However many daemons migrate the table at once, and wherever each is killed, the
\* row of a terminal is in one of the two tables (evstore.py:37-59).
THEOREM RowsAreKept == Spec => []RowsKept
<1>1. IInv => RowsKept
  BY DEF IInv
<1> QED
  BY <1>1, InitIInv, StepIInv, PTL DEF Spec

\* No step puts a row of the older release in place of one that storage stowed: the
\* copy that would has failed (evstore.py:53-59, 111-119).
THEOREM StowedRowsStay == Spec => StowedRowStays
<1>1. ASSUME IInv, [Next]_vars
      PROVE  [\A i \in Imeis : pmodmap.rows[i] = "stowed" => pmodmap'.rows[i] # "before"]_vars
  <2> DEFINE Stays == \A i \in Imeis : pmodmap.rows[i] = "stowed" => pmodmap'.rows[i] # "before"
  <2>0. \A i \in Imeis : Absent.rows[i] = "none"
    BY DEF Absent, NoRows
  <2>1. ASSUME NEW p \in Procs, Commit(p) PROVE Stays
    BY <1>1, <2>1, CommitRows DEF PopulateFails
  <2>2. ASSUME NEW p \in Procs, Rename(p) PROVE Stays
    BY <2>0, <2>2 DEF Rename
  <2>3. ASSUME NEW p \in Procs, Schema(p) PROVE Stays
    BY <1>1, <2>0, <2>3 DEF Schema, IInv, AbsentInv
  <2>4. ASSUME NEW i \in Imeis, Stowpmod(i) PROVE Stays
    BY <1>1, <2>4 DEF Stowpmod, IInv, TypeInv, Tables
  <2>5. ASSUME NEW p \in Procs,
               CountPmod(p) \/ CountTstamp(p) \/ Populate(p) \/ Drop(p) \/ FetchpmodFails(p)
                 \/ Crash(p) \/ Restart(p)
        PROVE  Stays
    BY <2>5 DEF CountPmod, CountTstamp, Populate, Drop, FetchpmodFails, Crash, Restart
  <2>6. Next => Stays
    BY <2>1, <2>2, <2>3, <2>4, <2>5 DEF Next, Initdb
  <2> QED
    BY <1>1, <2>6
<1> QED
  BY <1>1, InitIInv, StepIInv, PTL DEF Spec, StowedRowStays

=============================================================================
