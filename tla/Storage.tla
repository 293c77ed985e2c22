------------------------------ MODULE Storage ------------------------------
(***************************************************************************)
(* The storage daemon (src/loctrkd/storage.py), the tables that it fills   *)
(* and the gateway reads (src/loctrkd/evstore.py), and the backlog of      *)
(* locations that a browser is sent (backlog, src/loctrkd/wsgateway.py).   *)
(* initdb is modelled in InitDb.                                           *)
(*                                                                         *)
(* A report's devtime is text that the protocol module made of the         *)
(* terminal's clock; fetch sorts by this text.  The model keeps the time   *)
(* that the terminal meant and how the text was made, and sorts by Key.    *)
(***************************************************************************)
EXTENDS Integers, Sequences, FiniteSets, SequencesExt

CONSTANTS
  Imeis, None,
  Clocks,     \* how terminals date reports: of {"utc", "local", "none"}, see Key
  stowevents, \* the configuration's option to record events
  Tz,         \* hours between the server's local time and UTC
  Numbacks,   \* lengths of a backlog asked for
  MaxBcasts, MaxRepts   \* bounds: messages of the collector and of the rectifier

VARIABLES
  zraw, zrep,      \* the SUB sockets
  bcasts, repts,   \* history: how many were published
  times,           \* history: times of reports so far
  ready,           \* sockets of the current poll that still have their turn
  pc,              \* "poll", "raw", "rep": draining a socket; "pmod": between
                   \* stowpmod and stow; "down"
  events, reports, pmodmap,   \* the committed tables
  fetched          \* what backlog returned last, of which terminal and length

vars == <<zraw, zrep, bcasts, repts, times, ready, pc, events, reports, pmodmap, fetched>>

Init ==
  /\ zraw = <<>> /\ zrep = <<>> /\ bcasts = 0 /\ repts = 0 /\ times = {}
  /\ ready = {} /\ pc = "poll" /\ events = <<>> /\ reports = <<>> /\ pmodmap = {}
  /\ fetched = [imei |-> None, numback |-> 0, rows |-> <<>>]

Daemon == <<ready, pc, events, reports, pmodmap, fetched>>

\* The collector broadcasts a message of terminal i, or of one not logged in.
Bcast(i) ==
  /\ bcasts < MaxBcasts /\ bcasts' = bcasts + 1
  /\ zraw' = IF pc = "down" THEN zraw ELSE Append(zraw, [n |-> bcasts + 1, imei |-> i])
  /\ UNCHANGED <<zrep, repts, times, Daemon>>

\* The rectifier publishes a report, of a terminal not logged in too.  Terminals send
\* locations long after the fact, so that their times come in any order.
Rept(i, type, clock, at) ==
  /\ repts < MaxRepts /\ repts' = repts + 1
  /\ zrep' = IF pc = "down" THEN zrep
             ELSE Append(zrep, [n |-> repts + 1, imei |-> i, type |-> type, clock |-> clock, at |-> at])
  /\ UNCHANGED <<zraw, bcasts, Daemon>>

Location(i, clock, at) ==
  /\ at \notin times /\ times' = times \cup {at}
  /\ Rept(i, "location", clock, at)

Status(i) == Rept(i, "status", "none", 0) /\ UNCHANGED times

-----------------------------------------------------------------------------
Sockets == <<zraw, zrep, bcasts, repts, times>>

Tables == <<events, reports, pmodmap>>

\* The loop over events: the raw socket has its turn before that of reports.
Turn(sks) ==
  /\ pc' = IF "raw" \in sks THEN "raw" ELSE IF "rep" \in sks THEN "rep" ELSE "poll"
  /\ ready' = sks \ {pc'}

\* poller.poll: the sockets that have messages.
Poll ==
  /\ pc = "poll" /\ (zraw # <<>> \/ zrep # <<>>)
  /\ Turn({sk \in {"raw", "rep"} : (IF sk = "raw" THEN zraw ELSE zrep) # <<>>})
  /\ UNCHANGED <<Sockets, Tables, fetched>>

\* zmq.Again
Drained ==
  /\ \/ pc = "raw" /\ zraw = <<>>
     \/ pc = "rep" /\ zrep = <<>>
  /\ Turn(ready)
  /\ UNCHANGED <<Sockets, Tables, fetched>>

\* stow, if so configured: the event of the broadcast that is being handled.
stow(z) == events' = IF stowevents THEN Append(events, z) ELSE events

\* Mutant: the event is recorded first.
TakeEventFirst ==
  /\ pc = "raw" /\ zraw # <<>>
  /\ stow(Head(zraw))
  /\ IF Head(zraw).imei # None
       THEN pc' = "pmod" /\ UNCHANGED zraw
       ELSE pc' = "raw" /\ zraw' = Tail(zraw)
  /\ UNCHANGED <<zrep, bcasts, repts, times, ready, reports, pmodmap, fetched>>

\* Receive a broadcast.  stowpmod and stow commit one after the other.
Take ==
  /\ pc = "raw" /\ zraw # <<>>
  /\ IF Head(zraw).imei # None
       THEN /\ pmodmap' = pmodmap \cup {Head(zraw).imei}
            /\ pc' = "pmod" /\ UNCHANGED <<zraw, events>>
       ELSE /\ stow(Head(zraw))
            /\ pc' = "raw" /\ zraw' = Tail(zraw) /\ UNCHANGED pmodmap
  /\ UNCHANGED <<zrep, bcasts, repts, times, ready, reports, fetched>>

Stow ==
  /\ pc = "pmod"
  /\ stow(Head(zraw))
  /\ pc' = "raw" /\ zraw' = Tail(zraw)
  /\ UNCHANGED <<zrep, bcasts, repts, times, ready, reports, pmodmap, fetched>>

stowloc(r) == reports' = Append(reports, r)

\* Mutant: every report is stowed.
TakeReportAny ==
  /\ pc = "rep" /\ zrep # <<>>
  /\ stowloc(Head(zrep))
  /\ zrep' = Tail(zrep)
  /\ UNCHANGED <<zraw, bcasts, repts, times, ready, pc, events, pmodmap, fetched>>

\* Receive a report; stowloc, if it is a location.
TakeReport ==
  /\ pc = "rep" /\ zrep # <<>>
  /\ IF Head(zrep).type = "location" THEN stowloc(Head(zrep)) ELSE UNCHANGED reports
  /\ zrep' = Tail(zrep)
  /\ UNCHANGED <<zraw, bcasts, repts, times, ready, pc, events, pmodmap, fetched>>

\* An exception (a database that stays locked, say) or a signal ends the daemon and
\* what waits in its sockets is lost; systemd starts it again.
Crash ==
  /\ pc # "down" /\ pc' = "down" /\ zraw' = <<>> /\ zrep' = <<>> /\ ready' = {}
  /\ UNCHANGED <<bcasts, repts, times, Tables, fetched>>

Restart ==
  /\ pc = "down" /\ pc' = "poll"
  /\ UNCHANGED <<Sockets, ready, Tables, fetched>>

-----------------------------------------------------------------------------
\* Where the text of devtime sorts.  GPS reports have UTC; for those of WiFi and cells
\* the terminal's time, which is UTC, is taken for the server's local time; a report
\* without date has the text "None", above all digits.
Key(row) ==
  CASE row.clock = "utc" -> row.at
    [] row.clock = "local" -> row.at - Tz
    [] row.clock = "none" -> 1000

Of(i) == {reports[k] : k \in {k \in DOMAIN reports : reports[k].imei = i}}

LastOf(s, n) == IF Len(s) <= n THEN s ELSE SubSeq(s, Len(s) - n + 1, Len(s))

\* order by devtime, of all rows of terminal i.
Ordered(s) == \A j, k \in DOMAIN s : j < k => Key(s[j]) <= Key(s[k])
Sorted(i) ==
  CHOOSE s \in UNION {[1..n -> Of(i)] : n \in 0..Len(reports)} :
    IsInjective(s) /\ ToSet(s) = Of(i) /\ Ordered(s)

\* Mutant: without the final reversed().
fetch_desc(i, n) == Reverse(LastOf(Sorted(i), n))

\* fetch: order by devtime desc limit n, reversed.
fetch(i, n) == LastOf(Sorted(i), n)

\* backlog, for a browser that subscribes.
backlog(i, n) ==
  /\ fetched' = [imei |-> i, numback |-> n, rows |-> fetch(i, n)]
  /\ UNCHANGED <<Sockets, ready, pc, Tables>>

Next ==
  \/ \E i \in Imeis \cup {None} : Bcast(i)
  \/ \E i \in Imeis \cup {None}, c \in Clocks, at \in 1..MaxRepts : Location(i, c, at)
  \/ \E i \in Imeis : Status(i)
  \/ Poll \/ Drained \/ Take \/ Stow \/ TakeReport \/ Crash \/ Restart
  \/ \E i \in Imeis, n \in Numbacks : backlog(i, n)

Spec == Init /\ [][Next]_vars

-----------------------------------------------------------------------------
\* Every event of a terminal that has logged in can be told its protocol module, also
\* when storage stops between the two commits.
KnownBeforeRecorded ==
  \A k \in DOMAIN events : events[k].imei # None => events[k].imei \in pmodmap

\* Events and reports are recorded once, in the order of publication, whatever is lost
\* in between; only locations are.
RecordedInOrder ==
  /\ \A j, k \in DOMAIN events : j < k => events[j].n < events[k].n
  /\ \A j, k \in DOMAIN reports : j < k => reports[j].n < reports[k].n
  /\ \A k \in DOMAIN reports : reports[k].type = "location"

\* "Server sends to the client a backlog of last locations" (README.md:119): the ones
\* that the terminal took last, oldest first, and as many as were asked for.
IsBacklog(f) ==
  LET rows == f.rows IN
  /\ ToSet(rows) \subseteq Of(f.imei)
  /\ \A j, k \in DOMAIN rows : j < k => rows[j].at < rows[k].at
  /\ \A old \in Of(f.imei) \ ToSet(rows) : \A k \in DOMAIN rows : old.at < rows[k].at
  /\ Len(rows) = f.numback \/ ToSet(rows) = Of(f.imei)

\* What the gateway fetches for a browser is that backlog, for a terminal whose reports
\* are all dated by one clock.
OneClock(i) == \E c \in {"utc", "local"} : \A r \in Of(i) : r.clock = c
LastLocations ==
  [][fetched' # fetched /\ OneClock(fetched'.imei) => IsBacklog(fetched')]_vars

=============================================================================
