------------------------------- MODULE InitDb -------------------------------
(***************************************************************************)
(* evstore.initdb (src/loctrkd/evstore.py:37): the two daemons that open   *)
(* the event store, storage and wsgateway, each run it when they start,    *)
(* on one sqlite file.  A pmodmap of an older release, which has no column *)
(* tstamp, is renamed, created anew, filled from the renamed table and the *)
(* renamed table dropped.                                                  *)
(*                                                                         *)
(* One action is one SQL statement.  Python's sqlite3 runs alter and       *)
(* create on their own; the insert opens a transaction, which the drop     *)
(* joins and the commit ends, and which a process that dies rolls back.    *)
(* Of a table the model keeps its schema and, per IMEI, whether its row is *)
(* from before or was stowed by the running storage.                       *)
(***************************************************************************)
EXTENDS Naturals

CONSTANTS
  Procs,       \* the daemons that open the store
  Storage,     \* the one of them that writes to pmodmap
  Imeis,
  MaxCrashes,  \* bound: times a daemon is killed
  NoProc

ASSUME InitDbAssumption ==
  Storage \in Procs /\ NoProc \notin Procs /\ MaxCrashes \in Nat

\* A table: whether it has the column tstamp, and per IMEI its row, of {"none", "before",
\* "stowed"}.
NoRows == [i \in Imeis |-> "none"]
Absent == [schema |-> "absent", rows |-> NoRows]

VARIABLES
  pmodmap, old_pmodmap,   \* the tables, as committed
  tx,                     \* who holds the write transaction
  pc,                     \* the next statement of each daemon
  need_populate_pmodmap,  \* the local variable of initdb
  crashes,
  known                   \* history: the IMEIs that ever had a row

vars == <<pmodmap, old_pmodmap, tx, pc, need_populate_pmodmap, crashes, known>>

\* A new, an older and an up to date file.
Init ==
  /\ \/ pmodmap = Absent
     \/ \E s \in {"old", "new"}, K \in SUBSET Imeis :
          pmodmap = [schema |-> s,
                     rows |-> [i \in Imeis |-> IF i \in K THEN "before" ELSE "none"]]
  /\ old_pmodmap = Absent
  /\ tx = NoProc
  /\ pc = [p \in Procs |-> "count_pmod"]
  /\ need_populate_pmodmap = [p \in Procs |-> FALSE]
  /\ crashes = 0
  /\ known = {i \in Imeis : pmodmap.rows[i] # "none"}

Goto(p, l) == pc' = [pc EXCEPT ![p] = l]

\* A statement that writes waits for the transaction of another to end.
Unlocked == tx = NoProc

-----------------------------------------------------------------------------
(* initdb                                                                  *)

\* select count(pmod): fails, and the outer except takes it, if there is no table.
CountPmod(p) ==
  /\ pc[p] = "count_pmod"
  /\ Goto(p, IF pmodmap.schema = "absent" THEN "schema" ELSE "count_tstamp")
  /\ UNCHANGED <<pmodmap, old_pmodmap, tx, need_populate_pmodmap, crashes, known>>

\* select count(tstamp): fails if there is no such column, or no longer a table.
CountTstamp(p) ==
  LET fails == pmodmap.schema # "new" IN
  /\ pc[p] = "count_tstamp"
  /\ Goto(p, IF fails THEN "rename" ELSE "schema")
  /\ need_populate_pmodmap' = [need_populate_pmodmap EXCEPT ![p] = fails]
  /\ UNCHANGED <<pmodmap, old_pmodmap, tx, crashes, known>>

\* Mutant: a leftover old_pmodmap is replaced.
RenameOver(p) ==
  /\ pc[p] = "rename" /\ Unlocked
  /\ Goto(p, "schema")
  /\ IF pmodmap.schema # "absent"
     THEN old_pmodmap' = pmodmap /\ pmodmap' = Absent
     ELSE UNCHANGED <<pmodmap, old_pmodmap>>
  /\ UNCHANGED <<tx, need_populate_pmodmap, crashes, known>>

\* alter table rename: fails, and the outer except takes it, if another daemon
\* has renamed the table, or if there is an old_pmodmap already.
Rename(p) ==
  /\ pc[p] = "rename" /\ Unlocked
  /\ Goto(p, "schema")
  /\ IF pmodmap.schema # "absent" /\ old_pmodmap.schema = "absent"
     THEN old_pmodmap' = pmodmap /\ pmodmap' = Absent
     ELSE UNCHANGED <<pmodmap, old_pmodmap>>
  /\ UNCHANGED <<tx, need_populate_pmodmap, crashes, known>>

\* The loop over SCHEMA; of its tables only pmodmap matters here.
Schema(p) ==
  /\ pc[p] = "schema"
  /\ Goto(p, IF need_populate_pmodmap[p] THEN "populate" ELSE "serve")
  /\ IF pmodmap.schema = "absent"
     THEN Unlocked /\ pmodmap' = [Absent EXCEPT !.schema = "new"]
     ELSE UNCHANGED pmodmap
  /\ UNCHANGED <<old_pmodmap, tx, need_populate_pmodmap, crashes, known>>

\* Mutant: the copy replaces rows, as stowpmod does.
PopulateReplaces ==
  "absent" \in {old_pmodmap.schema, pmodmap.schema}

\* insert into pmodmap ... select: fails without an old_pmodmap or a pmodmap, and
\* when the column imei would not be unique; nothing catches that.
PopulateFails ==
  \/ "absent" \in {old_pmodmap.schema, pmodmap.schema}
  \/ \E i \in Imeis : old_pmodmap.rows[i] # "none" /\ pmodmap.rows[i] # "none"

\* Mutant: a failed copy is tried again.
PopulateRetries(p) ==
  /\ pc[p] = "populate" /\ Unlocked
  /\ IF PopulateFails
     THEN UNCHANGED <<pc, tx>>
     ELSE Goto(p, "drop") /\ tx' = p
  /\ UNCHANGED <<pmodmap, old_pmodmap, need_populate_pmodmap, crashes, known>>

Populate(p) ==
  /\ pc[p] = "populate" /\ Unlocked
  /\ IF PopulateFails
     THEN Goto(p, "dead") /\ UNCHANGED tx
     ELSE Goto(p, "drop") /\ tx' = p
  /\ UNCHANGED <<pmodmap, old_pmodmap, need_populate_pmodmap, crashes, known>>

\* drop table, within the transaction.
Drop(p) ==
  /\ pc[p] = "drop"
  /\ Goto(p, "commit")
  /\ UNCHANGED <<pmodmap, old_pmodmap, tx, need_populate_pmodmap, crashes, known>>

\* commit: the rows copied and the table dropped become visible together.
Commit(p) ==
  /\ pc[p] = "commit"
  /\ Goto(p, "serve")
  /\ tx' = NoProc
  /\ pmodmap' = [pmodmap EXCEPT !.rows = [i \in Imeis |->
       IF old_pmodmap.rows[i] # "none" THEN old_pmodmap.rows[i] ELSE pmodmap.rows[i]]]
  /\ old_pmodmap' = Absent
  /\ UNCHANGED <<need_populate_pmodmap, crashes, known>>

Initdb(p) ==
  \/ CountPmod(p) \/ CountTstamp(p) \/ Rename(p) \/ Schema(p)
  \/ Populate(p) \/ Drop(p) \/ Commit(p)

-----------------------------------------------------------------------------
(* The daemons at work, dying and started again                            *)

\* stowpmod: insert or replace; nothing catches that there is no table.
Stowpmod(i) ==
  /\ pc[Storage] = "serve" /\ Unlocked
  /\ IF pmodmap.schema = "absent"
     THEN Goto(Storage, "dead") /\ UNCHANGED <<pmodmap, known>>
     ELSE /\ pmodmap' = [pmodmap EXCEPT !.rows[i] = "stowed"]
          /\ known' = known \cup {i}
          /\ UNCHANGED pc
  /\ UNCHANGED <<old_pmodmap, tx, need_populate_pmodmap, crashes>>

\* fetchpmod of wsgateway, when it matters: nothing catches that either.
FetchpmodFails(p) ==
  /\ p # Storage /\ pc[p] = "serve"
  /\ pmodmap.schema = "absent"
  /\ Goto(p, "dead")
  /\ UNCHANGED <<pmodmap, old_pmodmap, tx, need_populate_pmodmap, crashes, known>>

\* sqlite rolls back what a dead process did not commit.
Rollback(p) == tx' = IF tx = p THEN NoProc ELSE tx

Crash(p) ==
  /\ pc[p] # "dead" /\ crashes < MaxCrashes
  /\ crashes' = crashes + 1
  /\ Goto(p, "dead")
  /\ Rollback(p)
  /\ UNCHANGED <<pmodmap, old_pmodmap, need_populate_pmodmap, known>>

\* Restart=on-failure
Restart(p) ==
  /\ pc[p] = "dead"
  /\ Goto(p, "count_pmod")
  /\ need_populate_pmodmap' = [need_populate_pmodmap EXCEPT ![p] = FALSE]
  /\ UNCHANGED <<pmodmap, old_pmodmap, tx, crashes, known>>

Next ==
  \/ \E p \in Procs : Initdb(p) \/ FetchpmodFails(p) \/ Crash(p) \/ Restart(p)
  \/ \E i \in Imeis : Stowpmod(i)

Spec == Init /\ [][Next]_vars

\* A daemon goes on with initdb, and systemd starts it again.
FairSpec == Spec /\ \A p \in Procs : WF_vars(Initdb(p)) /\ WF_vars(Restart(p))

-----------------------------------------------------------------------------
\* However the two migrations interleave and wherever they are killed, the row
\* of a terminal is in one of the two tables.
RowsKept ==
  \A i \in known : pmodmap.rows[i] # "none" \/ old_pmodmap.rows[i] # "none"

\* What storage stowed for a terminal is never replaced by what an older release
\* had for it: a copy that comes late fails instead.
StowedRowStays ==
  [][\A i \in Imeis : pmodmap.rows[i] = "stowed" => pmodmap'.rows[i] # "before"]_vars

\* Both daemons come to serve, whatever their migrations do to each other.
BothServe == <>[](\A p \in Procs : pc[p] = "serve")

=============================================================================
