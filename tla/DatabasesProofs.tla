-------------------------- MODULE DatabasesProofs --------------------------
(***************************************************************************)
(* Proofs about Databases: about storage for any terminals, clocks,        *)
(* options and bounds, and about the opencellid database for any           *)
(* terminals, reports, files, number of downloads at once and bound on     *)
(* them.                                                                   *)
(***************************************************************************)
EXTENDS Databases, SequenceFacts

-----------------------------------------------------------------------------
(* storage                                                                 *)

\* Broadcasts and reports, as the sockets and the tables hold them.
Bcasts == [n : Nat, imei : StoredImeis \cup {None}]
Repts == [n : Nat, imei : StoredImeis \cup {None}, type : {"location", "status"},
          clock : Clocks \cup {"none"}, at : {0} \cup 1..MaxRepts]

StorageTypeInv ==
  /\ zraw \in Seq(Bcasts) /\ events \in Seq(Bcasts)
  /\ zrep \in Seq(Repts) /\ reports \in Seq(Repts)
  /\ bcasts \in Nat /\ repts \in Nat

\* Numbers grow along what is recorded, then along what waits, and up to the last one
\* that was published.
InOrder(rec, q, last) ==
  /\ \A j, k \in DOMAIN rec : j < k => rec[j].n < rec[k].n
  /\ \A j, k \in DOMAIN q : j < k => q[j].n < q[k].n
  /\ \A j \in DOMAIN rec, k \in DOMAIN q : rec[j].n < q[k].n
  /\ \A j \in DOMAIN rec : rec[j].n <= last
  /\ \A k \in DOMAIN q : q[k].n <= last

\* Between the two commits the broadcast is still the first one, and its terminal is
\* known already.
BetweenCommits == spc = "pmod" => zraw # <<>> /\ Head(zraw).imei \in pmods

OnlyLocations == \A k \in DOMAIN reports : reports[k].type = "location"

\* No two locations are of one time, among what is recorded and what waits, and all are of
\* times that were published.
Dated(rec, q, ts) ==
  /\ \A k \in DOMAIN rec : rec[k].at \in ts
  /\ \A k \in DOMAIN q : q[k].type = "location" => q[k].at \in ts
  /\ \A j, k \in DOMAIN rec : rec[j].at = rec[k].at => j = k
  /\ \A j, k \in DOMAIN q : q[j].type = "location" /\ q[k].type = "location"
                             /\ q[j].at = q[k].at => j = k
  /\ \A j \in DOMAIN rec, k \in DOMAIN q : q[k].type = "location" => rec[j].at # q[k].at

\* The inductive invariant of storage.
StorageInv ==
  /\ StorageTypeInv
  /\ InOrder(events, zraw, bcasts) /\ InOrder(reports, zrep, repts)
  /\ OnlyLocations /\ Dated(reports, zrep, times)
  /\ BetweenCommits
  /\ ST!KnownBeforeRecorded

\* Everything that is numbered.
LEMMA Numbered ==
  ASSUME NEW S \in {Bcasts, Repts}, NEW s \in Seq(S)
  PROVE  \A k \in DOMAIN s : s[k] \in S /\ s[k].n \in Nat
<1>1. \A x \in Bcasts : x.n \in Nat
  BY DEF Bcasts
<1>2. \A x \in Repts : x.n \in Nat
  BY DEF Repts
<1>3. \A x \in S : x.n \in Nat
  BY <1>1, <1>2
<1> QED
  BY <1>3

\* What Append does.
LEMMA Appended ==
  ASSUME NEW S, NEW s \in Seq(S), NEW x \in S
  PROVE  /\ Append(s, x) \in Seq(S)
         /\ \A k \in DOMAIN Append(s, x) :
              (k \in DOMAIN s /\ Append(s, x)[k] = s[k]) \/ Append(s, x)[k] = x
OBVIOUS

\* Publication keeps the order, whether the message arrives or is lost.
LEMMA Published ==
  ASSUME NEW S \in {Bcasts, Repts}, NEW rec \in Seq(S), NEW q \in Seq(S), NEW last \in Nat,
         InOrder(rec, q, last), NEW x \in S, x.n = last + 1
  PROVE  InOrder(rec, q, last + 1) /\ InOrder(rec, Append(q, x), last + 1)
<1>1. \A k \in DOMAIN rec : rec[k].n \in Nat
  BY Numbered
<1>2. \A k \in DOMAIN q : q[k].n \in Nat
  BY Numbered
<1>3. InOrder(rec, q, last + 1)
  BY <1>1, <1>2 DEF InOrder
<1> DEFINE r == Append(q, x)
<1>4. /\ DOMAIN q = 1..Len(q) /\ Len(q) \in Nat
      /\ DOMAIN r = 1..(Len(q) + 1)
      /\ r[Len(q) + 1] = x /\ \A k \in DOMAIN q : r[k] = q[k]
  OBVIOUS
<1>5. DOMAIN rec \subseteq Nat
  OBVIOUS
<1> HIDE DEF r
<1>6. \A k \in DOMAIN r : (k \in DOMAIN q /\ r[k] = q[k]) \/ (k = Len(q) + 1 /\ r[k] = x)
  BY <1>4
<1>7. \A j, k \in DOMAIN r : j < k => r[j].n < r[k].n
  <2> SUFFICES ASSUME NEW j \in DOMAIN r, NEW k \in DOMAIN r, j < k PROVE r[j].n < r[k].n
    OBVIOUS
  <2>1. j \in DOMAIN q /\ r[j] = q[j]
    BY <1>4
  <2>2. CASE k \in DOMAIN q
    BY <1>4, <2>1, <2>2 DEF InOrder
  <2>3. CASE k = Len(q) + 1
    BY <1>2, <1>4, <2>1, <2>3 DEF InOrder
  <2> QED
    BY <1>6, <2>2, <2>3
<1>8. \A j \in DOMAIN rec, k \in DOMAIN r : rec[j].n < r[k].n
  BY <1>1, <1>6 DEF InOrder
<1>9. \A k \in DOMAIN r : r[k].n <= last + 1
  BY <1>2, <1>6 DEF InOrder
<1>10. InOrder(rec, r, last + 1)
  BY <1>3, <1>7, <1>8, <1>9 DEF InOrder
<1> QED
  BY <1>3, <1>10 DEF r

\* Taking the first message keeps the order, whether it is recorded or not.
LEMMA Taken ==
  ASSUME NEW S \in {Bcasts, Repts}, NEW rec \in Seq(S), NEW q \in Seq(S), NEW last \in Nat,
         InOrder(rec, q, last), q # <<>>
  PROVE  InOrder(rec, Tail(q), last) /\ InOrder(Append(rec, Head(q)), Tail(q), last)
<1> DEFINE t == Tail(q)
           r == Append(rec, Head(q))
<1>1. /\ DOMAIN q = 1..Len(q) /\ Len(q) \in Nat \ {0}
      /\ DOMAIN t = 1..(Len(q) - 1) /\ \A k \in DOMAIN t : t[k] = q[k + 1]
  OBVIOUS
<1>2. \A k \in DOMAIN t : k + 1 \in DOMAIN q /\ 1 \in DOMAIN q /\ 1 < k + 1 /\ k \in Nat
  BY <1>1
<1>3. Head(q) = q[1] /\ 1 \in DOMAIN q
  BY <1>1
<1>4. /\ DOMAIN rec = 1..Len(rec) /\ Len(rec) \in Nat
      /\ DOMAIN r = 1..(Len(rec) + 1)
      /\ r[Len(rec) + 1] = q[1] /\ \A k \in DOMAIN rec : r[k] = rec[k]
  BY <1>3
<1> HIDE DEF t, r
<1>5. \A k \in DOMAIN r : (k \in DOMAIN rec /\ r[k] = rec[k]) \/ (k = Len(rec) + 1 /\ r[k] = q[1])
  BY <1>4
<1>6. \A j, k \in DOMAIN t : j < k => t[j].n < t[k].n
  BY <1>1, <1>2 DEF InOrder
<1>7. InOrder(rec, t, last)
  BY <1>1, <1>2, <1>6 DEF InOrder
<1>8. \A j, k \in DOMAIN r : j < k => r[j].n < r[k].n
  <2> SUFFICES ASSUME NEW j \in DOMAIN r, NEW k \in DOMAIN r, j < k PROVE r[j].n < r[k].n
    OBVIOUS
  <2>1. j \in DOMAIN rec /\ r[j] = rec[j]
    BY <1>4
  <2> QED
    BY <1>3, <1>5, <2>1 DEF InOrder
<1>9. \A j \in DOMAIN r, k \in DOMAIN t : r[j].n < t[k].n
  BY <1>1, <1>2, <1>5 DEF InOrder
<1>10. \A k \in DOMAIN r : r[k].n <= last
  BY <1>3, <1>5 DEF InOrder
<1>11. InOrder(r, t, last)
  BY <1>6, <1>7, <1>8, <1>9, <1>10 DEF InOrder
<1> QED
  BY <1>7, <1>11 DEF t, r

\* What is lost with the sockets leaves the order alone.
LEMMA Lost ==
  ASSUME NEW rec, NEW q, NEW last, InOrder(rec, q, last)
  PROVE  InOrder(rec, <<>>, last)
BY DEF InOrder

\* Publication of a location of a new time, which may be lost.
LEMMA DatedLocation ==
  ASSUME NEW rec \in Seq(Repts), NEW q \in Seq(Repts), NEW ts, Dated(rec, q, ts),
         NEW x \in Repts, x.at \notin ts
  PROVE  Dated(rec, q, ts \cup {x.at}) /\ Dated(rec, Append(q, x), ts \cup {x.at})
<1>1. Dated(rec, q, ts \cup {x.at})
  BY DEF Dated
<1> DEFINE r == Append(q, x)
<1>2. \A k \in DOMAIN r : (k \in DOMAIN q /\ r[k] = q[k]) \/ (k = Len(q) + 1 /\ r[k] = x)
  OBVIOUS
<1> HIDE DEF r
<1>3. Dated(rec, r, ts \cup {x.at})
  BY <1>2 DEF Dated
<1> QED
  BY <1>1, <1>3 DEF r

\* Publication of anything else.
LEMMA DatedStatus ==
  ASSUME NEW rec \in Seq(Repts), NEW q \in Seq(Repts), NEW ts, Dated(rec, q, ts),
         NEW x \in Repts, x.type # "location"
  PROVE  Dated(rec, Append(q, x), ts)
<1> DEFINE r == Append(q, x)
<1>1. \A k \in DOMAIN r : (k \in DOMAIN q /\ r[k] = q[k]) \/ (k = Len(q) + 1 /\ r[k] = x)
  OBVIOUS
<1> HIDE DEF r
<1>2. Dated(rec, r, ts)
  BY <1>1 DEF Dated
<1> QED
  BY <1>2 DEF r

\* Taking the first report, and recording it if it is a location.
LEMMA DatedTaken ==
  ASSUME NEW rec \in Seq(Repts), NEW q \in Seq(Repts), NEW ts, Dated(rec, q, ts), q # <<>>
  PROVE  /\ Dated(rec, Tail(q), ts)
         /\ Head(q).type = "location" => Dated(Append(rec, Head(q)), Tail(q), ts)
<1> DEFINE t == Tail(q)
           r == Append(rec, Head(q))
<1>1. /\ 1 \in DOMAIN q /\ Head(q) = q[1]
      /\ \A k \in DOMAIN t : k \in Nat /\ k + 1 \in DOMAIN q /\ t[k] = q[k + 1] /\ k + 1 # 1
      /\ \A k \in DOMAIN r : (k \in DOMAIN rec /\ r[k] = rec[k]) \/ (k = Len(rec) + 1 /\ r[k] = Head(q))
  OBVIOUS
<1> HIDE DEF t, r
<1>2. \A j, k \in DOMAIN t : j + 1 = k + 1 => j = k
  BY <1>1
<1>3. Dated(rec, t, ts)
  BY <1>1, <1>2 DEF Dated
<1>4. ASSUME Head(q).type = "location" PROVE Dated(r, t, ts)
  <2>1. \A k \in DOMAIN r : r[k].at \in ts
    BY <1>1, <1>4 DEF Dated
  <2>2. \A j, k \in DOMAIN r : r[j].at = r[k].at => j = k
    BY <1>1, <1>4 DEF Dated
  <2>3. \A j \in DOMAIN r, k \in DOMAIN t : t[k].type = "location" => r[j].at # t[k].at
    BY <1>1, <1>4 DEF Dated
  <2> QED
    BY <1>3, <2>1, <2>2, <2>3 DEF Dated
<1> QED
  BY <1>3, <1>4 DEF t, r

-----------------------------------------------------------------------------
\* The invariant holds at first.
LEMMA StorageInitInv == ST!Init => StorageInv
<1> SUFFICES ASSUME ST!Init PROVE StorageInv
  OBVIOUS
<1>1. <<>> \in Seq(Bcasts) /\ <<>> \in Seq(Repts) /\ DOMAIN <<>> = {}
  OBVIOUS
<1> QED
  BY <1>1 DEF ST!Init, StorageInv, StorageTypeInv, InOrder, Dated, OnlyLocations,
     BetweenCommits, ST!KnownBeforeRecorded

\* A broadcast is put last; the first one stays the first.
LEMMA BcastIInv ==
  ASSUME StorageInv, NEW i \in StoredImeis \cup {None}, ST!Bcast(i)
  PROVE  StorageInv'
<1> DEFINE x == [n |-> bcasts + 1, imei |-> i]
<1>1. x \in Bcasts /\ x.n = bcasts + 1 /\ bcasts' = bcasts + 1
  BY DEF ST!Bcast, StorageInv, StorageTypeInv, Bcasts
<1>2. zraw' = zraw \/ zraw' = Append(zraw, x)
  BY DEF ST!Bcast
<1>3. UNCHANGED <<zrep, repts, times, spc, events, reports, pmods>>
  BY DEF ST!Bcast, ST!Daemon
<1>4. /\ zraw \in Seq(Bcasts) /\ events \in Seq(Bcasts) /\ bcasts \in Nat
      /\ InOrder(events, zraw, bcasts)
  BY DEF StorageInv, StorageTypeInv
<1> HIDE DEF x
<1>5. InOrder(events, zraw', bcasts')
  BY <1>1, <1>2, <1>4, Published
<1>6. StorageTypeInv'
  <2>1. zraw' \in Seq(Bcasts)
    BY <1>1, <1>2, <1>4, Appended
  <2> QED
    BY <1>1, <1>3, <2>1 DEF StorageInv, StorageTypeInv
<1>7. zraw # <<>> => zraw' # <<>> /\ Head(zraw') = Head(zraw)
  BY <1>1, <1>2, <1>4
<1>8. BetweenCommits'
  BY <1>3, <1>7 DEF StorageInv, BetweenCommits
<1> QED
  BY <1>3, <1>5, <1>6, <1>8 DEF StorageInv, OnlyLocations, ST!KnownBeforeRecorded

\* A report is put last.
LEMMA ReptIInv ==
  ASSUME StorageInv, NEW i \in StoredImeis \cup {None}, NEW type \in {"location", "status"},
         NEW clock \in Clocks \cup {"none"}, NEW t \in {0} \cup 1..MaxRepts,
         ST!Rept(i, type, clock, t),
         \/ type = "location" /\ t \notin times /\ times' = times \cup {t}
         \/ type = "status" /\ times' = times
  PROVE  StorageInv'
<1> DEFINE x == [n |-> repts + 1, imei |-> i, type |-> type, clock |-> clock, at |-> t]
<1>1. x \in Repts /\ x.n = repts + 1 /\ repts' = repts + 1
  BY DEF ST!Rept, StorageInv, StorageTypeInv, Repts
<1>2. zrep' = zrep \/ zrep' = Append(zrep, x)
  BY DEF ST!Rept
<1>3. UNCHANGED <<zraw, bcasts, spc, events, reports, pmods>>
  BY DEF ST!Rept, ST!Daemon
<1>4. /\ zrep \in Seq(Repts) /\ reports \in Seq(Repts) /\ repts \in Nat
      /\ InOrder(reports, zrep, repts) /\ Dated(reports, zrep, times)
  BY DEF StorageInv, StorageTypeInv
<1>d. x.type = type /\ x.at = t
  OBVIOUS
<1> HIDE DEF x
<1>5. InOrder(reports, zrep', repts')
  BY <1>1, <1>2, <1>4, Published
<1>7. Dated(reports, zrep', times')
  <2>1. CASE type = "location" /\ t \notin times /\ times' = times \cup {t}
    <3>1. x.at \notin times /\ times' = times \cup {x.at}
      BY <1>d, <2>1
    <3>2. Dated(reports, zrep, times \cup {x.at}) /\ Dated(reports, Append(zrep, x), times \cup {x.at})
      BY <1>1, <1>4, <3>1, DatedLocation
    <3> QED
      BY <1>2, <3>1, <3>2
  <2>2. CASE type = "status" /\ times' = times
    BY <1>1, <1>2, <1>4, <1>d, <2>2, DatedStatus
  <2> QED
    BY <2>1, <2>2
<1>6. StorageTypeInv'
  <2>1. zrep' \in Seq(Repts)
    BY <1>1, <1>2, <1>4, Appended
  <2> QED
    BY <1>1, <1>3, <2>1 DEF StorageInv, StorageTypeInv
<1> QED
  BY <1>3, <1>5, <1>6, <1>7 DEF StorageInv, OnlyLocations, ST!KnownBeforeRecorded, BetweenCommits

\* The poll loop and the fetch for a browser change no table and no socket.
LEMMA QuietIInv ==
  ASSUME StorageInv, ST!Poll \/ ST!Drained \/ ST!Restart \/ UNCHANGED working
               \/ \E i \in StoredImeis, n \in Numbacks : ST!backlog(i, n)
  PROVE  StorageInv'
<1>1. UNCHANGED <<zraw, zrep, bcasts, repts, times, events, reports, pmods>>
  BY DEF ST!Poll, ST!Drained, ST!Restart, ST!backlog, working, ST!Sockets, ST!Tables
<1>2. spc' = "pmod" => spc = "pmod"
  BY DEF ST!Poll, ST!Drained, ST!Restart, ST!backlog, working, ST!Turn
<1> QED
  BY <1>1, <1>2 DEF StorageInv, StorageTypeInv, OnlyLocations, ST!KnownBeforeRecorded, BetweenCommits

\* An event whose terminal, if it is known, has its protocol module: recording it keeps
\* the invariant.
LEMMA StowIInv ==
  ASSUME StorageInv, zraw # <<>>, ST!stow(Head(zraw)), zraw' = Tail(zraw), spc' = "raw",
         Head(zraw).imei # None => Head(zraw).imei \in pmods,
         UNCHANGED <<zrep, bcasts, repts, times, reports, pmods>>
  PROVE  StorageInv'
<1>1. /\ zraw \in Seq(Bcasts) /\ events \in Seq(Bcasts) /\ bcasts \in Nat
      /\ InOrder(events, zraw, bcasts)
  BY DEF StorageInv, StorageTypeInv
<1>2. Head(zraw) \in Bcasts /\ Tail(zraw) \in Seq(Bcasts)
  BY <1>1
<1>3. events' = events \/ events' = Append(events, Head(zraw))
  BY DEF ST!stow
<1>4. InOrder(events', zraw', bcasts')
  BY <1>1, <1>3, Taken
<1>5. StorageTypeInv'
  <2>1. events' \in Seq(Bcasts)
    BY <1>1, <1>2, <1>3, Appended
  <2> QED
    BY <1>2, <2>1 DEF StorageInv, StorageTypeInv
<1>6. ST!KnownBeforeRecorded'
  <2>1. CASE events' = events
    BY <2>1 DEF StorageInv, ST!KnownBeforeRecorded
  <2>2. CASE events' = Append(events, Head(zraw))
    <3>1. \A k \in DOMAIN events' :
             (k \in DOMAIN events /\ events'[k] = events[k]) \/ events'[k] = Head(zraw)
      BY <1>1, <1>2, <2>2, Appended
    <3> QED
      BY <3>1 DEF StorageInv, ST!KnownBeforeRecorded
  <2> QED
    BY <1>3, <2>1, <2>2
<1> QED
  BY <1>4, <1>5, <1>6 DEF StorageInv, OnlyLocations, BetweenCommits

\* Receiving a broadcast: stowpmod comes first, for a terminal that has logged in.
LEMMA TakeIInv ==
  ASSUME StorageInv, ST!Take
  PROVE  StorageInv'
<1>1. CASE Head(zraw).imei # None
  <2>1. /\ pmods' = pmods \cup {Head(zraw).imei} /\ zraw # <<>>
        /\ UNCHANGED <<zraw, zrep, bcasts, repts, times, events, reports>>
    BY <1>1 DEF ST!Take
  <2> QED
    BY <2>1 DEF StorageInv, StorageTypeInv, OnlyLocations, ST!KnownBeforeRecorded, BetweenCommits
<1>2. CASE Head(zraw).imei = None
  BY <1>2, StowIInv DEF ST!Take
<1> QED
  BY <1>1, <1>2

\* Receiving a report.
LEMMA TakeReportIInv ==
  ASSUME StorageInv, ST!TakeReport
  PROVE  StorageInv'
<1>1. /\ zrep \in Seq(Repts) /\ reports \in Seq(Repts) /\ repts \in Nat /\ zrep # <<>>
      /\ InOrder(reports, zrep, repts) /\ Dated(reports, zrep, times)
  BY DEF StorageInv, StorageTypeInv, ST!TakeReport
<1>2. Head(zrep) \in Repts /\ Tail(zrep) \in Seq(Repts)
  BY <1>1
<1>3. \/ reports' = reports
      \/ reports' = Append(reports, Head(zrep)) /\ Head(zrep).type = "location"
  BY DEF ST!TakeReport, ST!stowloc
<1>4. zrep' = Tail(zrep) /\ UNCHANGED <<zraw, bcasts, repts, times, spc, events, pmods>>
  BY DEF ST!TakeReport
<1>5. InOrder(reports', zrep', repts')
  BY <1>1, <1>3, <1>4, Taken
<1>6. StorageTypeInv'
  <2>1. reports' \in Seq(Repts)
    BY <1>1, <1>2, <1>3, Appended
  <2> QED
    BY <1>2, <1>4, <2>1 DEF StorageInv, StorageTypeInv
<1>7. OnlyLocations'
  <2>1. \A k \in DOMAIN reports' :
           (k \in DOMAIN reports /\ reports'[k] = reports[k]) \/ reports'[k].type = "location"
    BY <1>1, <1>2, <1>3, Appended
  <2> QED
    BY <2>1 DEF StorageInv, OnlyLocations
<1>8. Dated(reports', zrep', times')
  BY <1>1, <1>3, <1>4, DatedTaken
<1> QED
  BY <1>4, <1>5, <1>6, <1>7, <1>8 DEF StorageInv, ST!KnownBeforeRecorded, BetweenCommits

\* The end of the daemon.
LEMMA CrashIInv ==
  ASSUME StorageInv, ST!Crash
  PROVE  StorageInv'
<1>1. <<>> \in Seq(Bcasts) /\ <<>> \in Seq(Repts)
  OBVIOUS
<1>2. InOrder(events, <<>>, bcasts) /\ InOrder(reports, <<>>, repts)
  BY Lost DEF StorageInv
<1>3. Dated(reports, <<>>, times)
  BY DEF StorageInv, Dated
<1> QED
  BY <1>1, <1>2, <1>3
     DEF ST!Crash, ST!Tables, StorageInv, StorageTypeInv, OnlyLocations,
     ST!KnownBeforeRecorded, BetweenCommits

\* Every step keeps the invariant.
LEMMA StorageStepInv == StorageInv /\ [ST!Next]_working => StorageInv'
<1> SUFFICES ASSUME StorageInv, [ST!Next]_working PROVE StorageInv'
  OBVIOUS
<1>1. ASSUME NEW i \in StoredImeis \cup {None}, NEW c \in Clocks, NEW t \in 1..MaxRepts,
             ST!Location(i, c, t)
      PROVE  StorageInv'
  BY <1>1, ReptIInv DEF ST!Location
<1>2. ASSUME NEW i \in StoredImeis, ST!Status(i) PROVE StorageInv'
  BY <1>2, ReptIInv DEF ST!Status
<1>3. ASSUME ST!Stow PROVE StorageInv'
  BY <1>3, StowIInv DEF ST!Stow, StorageInv, BetweenCommits
<1> QED
  BY <1>1, <1>2, <1>3, BcastIInv, QuietIInv, TakeIInv, TakeReportIInv, CrashIInv DEF ST!Next

-----------------------------------------------------------------------------
(* fetch                                                                   *)

\* s lists the members of T, n of them, each once, by their numbers in K.
SortedBy(s, n, T, K) ==
  /\ s \in [1..n -> T]
  /\ \A x \in T : \E j \in 1..n : s[j] = x
  /\ \A j, k \in 1..n : s[j] = s[k] => j = k
  /\ \A j, k \in 1..n : j < k => K[s[j]] <= K[s[k]]

\* One more member can be inserted: before the first one that comes after it.
LEMMA Inserted ==
  ASSUME NEW R, NEW K \in [R -> Int], NEW T \in SUBSET R, NEW x \in R, x \notin T,
         NEW n \in Nat, NEW s, SortedBy(s, n, T, K)
  PROVE  \E u : SortedBy(u, n + 1, T \cup {x}, K)
<1> DEFINE After == {p \in 1..(n + 1) : p = n + 1 \/ K[x] < K[s[p]]}
<1>1. After \in SUBSET Nat /\ After # {}
  <2>1. n + 1 \in After
    OBVIOUS
  <2>2. After \in SUBSET Nat
    OBVIOUS
  <2> HIDE DEF After
  <2> QED
    BY <2>1, <2>2
<1>2. PICK q \in After : \A p \in After : q <= p
  <2> HIDE DEF After
  <2> QED
    BY <1>1, LeastElement
<1>3. q \in 1..(n + 1) /\ (q = n + 1 \/ K[x] < K[s[q]])
  OBVIOUS
<1>4. ASSUME NEW p \in 1..n PROVE s[p] \in T /\ s[p] # x /\ K[s[p]] \in Int /\ K[x] \in Int
  BY DEF SortedBy
<1>5. ASSUME NEW p \in 1..n, p < q PROVE K[s[p]] <= K[x]
  <2>1. p \notin After
    BY <1>2, <1>3, <1>5
  <2>2. ~ (K[x] < K[s[p]])
    BY <2>1
  <2> QED
    BY <1>4, <2>2
<1>6. ASSUME NEW p \in 1..n, q <= p PROVE K[x] <= K[s[p]]
  <2>1. q \in 1..n /\ K[x] < K[s[q]]
    BY <1>3, <1>6
  <2>2. K[s[q]] <= K[s[p]]
    BY <1>4, <1>6, <2>1 DEF SortedBy
  <2> QED
    BY <1>4, <2>1, <2>2
<1> HIDE DEF After
<1> DEFINE At(p) == IF p < q THEN p ELSE p - 1
           u == [p \in 1..(n + 1) |-> IF p = q THEN x ELSE s[At(p)]]
<1>7. \A p \in 1..(n + 1) : p # q => At(p) \in 1..n
  BY <1>3
<1>8. /\ \A j, k \in 1..(n + 1) : j # q /\ k # q /\ At(j) = At(k) => j = k
      /\ \A j, k \in 1..(n + 1) : j # q /\ k # q /\ j < k => At(j) < At(k)
      /\ \A j \in 1..(n + 1) : j < q => At(j) < q
      /\ \A j \in 1..(n + 1) : q < j => q <= At(j)
      /\ \A j \in 1..n : \E p \in 1..(n + 1) : p # q /\ At(p) = j
  <2>1. \A j \in 1..n : \E p \in 1..(n + 1) : p # q /\ At(p) = j
    <3> SUFFICES ASSUME NEW j \in 1..n PROVE \E p \in 1..(n + 1) : p # q /\ At(p) = j
      OBVIOUS
    <3>1. CASE j < q
      BY <1>3, <3>1
    <3>2. CASE q <= j
      <4>1. j + 1 \in 1..(n + 1) /\ j + 1 # q /\ At(j + 1) = j
        BY <1>3, <3>2
      <4> QED
        BY <4>1
    <3> QED
      BY <1>3, <3>1, <3>2
  <2> QED
    BY <1>3, <2>1
<1>9. /\ u[q] = x /\ \A p \in 1..(n + 1) : p # q => u[p] = s[At(p)]
      /\ u = [p \in 1..(n + 1) |-> u[p]]
  BY <1>3
<1> HIDE DEF At, u
<1>10. u \in [1..(n + 1) -> T \cup {x}]
  <2>1. \A p \in 1..(n + 1) : u[p] \in T \cup {x}
    BY <1>4, <1>7, <1>9
  <2> QED
    BY <1>9, <2>1
<1>11. \A y \in T \cup {x} : \E p \in 1..(n + 1) : u[p] = y
  <2>1. ASSUME NEW y \in T PROVE \E p \in 1..(n + 1) : u[p] = y
    <3>1. PICK j \in 1..n : s[j] = y
      BY DEF SortedBy
    <3>2. PICK p \in 1..(n + 1) : p # q /\ At(p) = j
      BY <1>8
    <3> QED
      BY <1>9, <3>1, <3>2
  <2> QED
    BY <1>3, <1>9, <2>1
<1>12. ASSUME NEW j \in 1..(n + 1), NEW k \in 1..(n + 1), u[j] = u[k] PROVE j = k
  <2>1. CASE j # q /\ k # q
    <3>1. s[At(j)] = s[At(k)] /\ At(j) \in 1..n /\ At(k) \in 1..n
      BY <1>7, <1>9, <1>12, <2>1
    <3>2. At(j) = At(k)
      BY <3>1 DEF SortedBy
    <3> QED
      BY <1>8, <2>1, <3>2
  <2>2. \A p \in 1..(n + 1) : p # q => u[p] # x
    BY <1>4, <1>7, <1>9
  <2> QED
    BY <1>9, <1>12, <2>1, <2>2
<1>13. ASSUME NEW j \in 1..(n + 1), NEW k \in 1..(n + 1), j < k PROVE K[u[j]] <= K[u[k]]
  <2>1. CASE j # q /\ k # q
    <3>1. At(j) \in 1..n /\ At(k) \in 1..n /\ At(j) < At(k)
      BY <1>7, <1>8, <1>13, <2>1
    <3>2. K[s[At(j)]] <= K[s[At(k)]]
      BY <3>1 DEF SortedBy
    <3> QED
      BY <1>9, <2>1, <3>2
  <2>2. CASE j = q
    <3>1. k # q /\ At(k) \in 1..n /\ q <= At(k)
      BY <1>3, <1>7, <1>8, <1>13, <2>2
    <3>2. K[x] <= K[s[At(k)]]
      BY <1>6, <3>1
    <3> QED
      BY <1>9, <2>2, <3>1, <3>2
  <2>3. CASE k = q
    <3>1. j # q /\ At(j) \in 1..n /\ At(j) < q
      BY <1>3, <1>7, <1>8, <1>13, <2>3
    <3>2. K[s[At(j)]] <= K[x]
      BY <1>5, <3>1
    <3> QED
      BY <1>9, <2>3, <3>1, <3>2
  <2> QED
    BY <2>1, <2>2, <2>3
<1>14. SortedBy(u, n + 1, T \cup {x}, K)
  BY <1>10, <1>11, <1>12, <1>13 DEF SortedBy
<1> QED
  BY <1>14

\* The rows of a terminal, by the time that it meant.
Times == [r \in Repts |-> r.at]

\* The rows of a terminal can be sorted.
LEMMA CanSort ==
  ASSUME StorageInv, NEW i \in StoredImeis
  PROVE  \E n \in 0..Len(reports) : \E s : SortedBy(s, n, ST!Of(i), Times)
<1>1. reports \in Seq(Repts) /\ Len(reports) \in Nat /\ DOMAIN reports = 1..Len(reports)
  BY DEF StorageInv, StorageTypeInv
<1>2. Times \in [Repts -> Int]
  <2>1. \A r \in Repts : r.at \in Int
    BY StorageAssumption DEF Repts
  <2> QED
    BY <2>1 DEF Times
<1> DEFINE Rows(m) == {reports[k] : k \in {k \in 1..m : reports[k].imei = i}}
           Sortable(m) == \E n \in 0..m : \E s : SortedBy(s, n, Rows(m), Times)
           E == {m \in Nat : m <= Len(reports) => Sortable(m)}
<1>3. 0 \in E
  <2>1. Rows(0) = {}
    OBVIOUS
  <2>2. SortedBy(<<>>, 0, {}, Times)
    BY DEF SortedBy
  <2>3. Sortable(0)
    <3> HIDE DEF Rows
    <3>1. 0 \in 0..0 /\ SortedBy(<<>>, 0, Rows(0), Times)
      BY <2>1, <2>2
    <3>2. \E s : SortedBy(s, 0, Rows(0), Times)
      BY <3>1
    <3> QED
      BY <3>1, <3>2
  <2> HIDE DEF Sortable
  <2> QED
    BY <2>3
<1>4. ASSUME NEW m \in Nat, m \in E PROVE m + 1 \in E
  <2> SUFFICES ASSUME m + 1 <= Len(reports) PROVE Sortable(m + 1)
    <3> HIDE DEF Sortable
    <3> QED
      OBVIOUS
  <2> DEFINE x == reports[m + 1]
  <2>0. Sortable(m)
    <3> HIDE DEF Sortable
    <3> QED
      BY <1>1, <1>4
  <2>n. PICK n \in 0..m : \E s : SortedBy(s, n, Rows(m), Times)
    BY <2>0
  <2>1. PICK s : SortedBy(s, n, Rows(m), Times)
    BY <2>n
  <2>2. m + 1 \in 1..Len(reports) /\ x \in Repts /\ n \in Nat
    BY <1>1
  <2>3. \A k \in 1..m : reports[k] \in Repts
    BY <1>1
  <2>4. Rows(m) \in SUBSET Repts
    BY <2>3
  <2>5. 1..(m + 1) = (1..m) \cup {m + 1}
    OBVIOUS
  <2>6. CASE x.imei = i /\ x \notin Rows(m)
    <3>1. Rows(m + 1) = Rows(m) \cup {x}
      BY <2>5, <2>6
    <3> HIDE DEF Rows, x
    <3>2. \E u : SortedBy(u, n + 1, Rows(m) \cup {x}, Times)
      BY <1>2, <2>1, <2>2, <2>4, <2>6, Inserted
    <3>3. n + 1 \in 0..(m + 1)
      OBVIOUS
    <3> QED
      BY <3>1, <3>2, <3>3
  <2>7. CASE ~ (x.imei = i /\ x \notin Rows(m))
    <3>1. Rows(m + 1) = Rows(m)
      BY <2>5, <2>7
    <3>2. n \in 0..(m + 1)
      OBVIOUS
    <3> HIDE DEF Rows, x
    <3> QED
      BY <2>1, <3>1, <3>2
  <2> QED
    BY <2>6, <2>7
<1>5. Len(reports) \in E
  <2> HIDE DEF E
  <2>1. Nat \subseteq E
    BY <1>3, <1>4, SetInduction
  <2> QED
    BY <1>1, <2>1
<1>6. Rows(Len(reports)) = ST!Of(i)
  BY <1>1 DEF ST!Of
<1>7. Sortable(Len(reports))
  <2> HIDE DEF Sortable
  <2> QED
    BY <1>1, <1>5
<1> HIDE DEF Rows
<1> QED
  BY <1>6, <1>7

\* By one clock, the text of devtime sorts as the time.
LEMMA SortsAsTime ==
  ASSUME StorageInv, NEW i \in StoredImeis, ST!OneClock(i)
  PROVE  /\ ST!Of(i) \in SUBSET Repts
         /\ \A r, q \in ST!Of(i) : ST!Key(r) <= ST!Key(q) <=> Times[r] <= Times[q]
<1>1. \A k \in DOMAIN reports : reports[k] \in Repts
  BY DEF StorageInv, StorageTypeInv
<1>2. ST!Of(i) \in SUBSET Repts
  BY <1>1 DEF ST!Of
<1>3. PICK c \in {"utc", "local"} : \A r \in ST!Of(i) : r.clock = c
  BY DEF ST!OneClock
<1>4. \A r \in ST!Of(i) : r.at \in Int /\ Times[r] = r.at
  BY <1>2, StorageAssumption DEF Repts, Times
<1>5. CASE c = "utc"
  <2>1. \A r \in ST!Of(i) : ST!Key(r) = r.at
    BY <1>3, <1>5 DEF ST!Key
  <2> QED
    BY <1>2, <1>4, <2>1
<1>6. CASE c = "local"
  <2>1. \A r \in ST!Of(i) : ST!Key(r) = r.at - Tz
    BY <1>3, <1>6 DEF ST!Key
  <2>2. \A a, b \in Int : a - Tz <= b - Tz <=> a <= b
    BY StorageAssumption
  <2> QED
    BY <1>2, <1>4, <2>1, <2>2
<1> QED
  BY <1>5, <1>6

\* So do the rows that are fetched: all of them, once, and one time after the other.
LEMMA SortedRows ==
  ASSUME StorageInv, NEW i \in StoredImeis, ST!OneClock(i)
  PROVE  \E n \in Nat :
           /\ ST!Sorted(i) \in [1..n -> ST!Of(i)]
           /\ \A x \in ST!Of(i) : \E j \in 1..n : ST!Sorted(i)[j] = x
           /\ \A j, k \in 1..n : j < k => ST!Sorted(i)[j].at < ST!Sorted(i)[k].at
<1> DEFINE O == ST!Of(i)
           Is(s) == ST!IsInjective(s) /\ ST!ToSet(s) = O /\ ST!Ordered(s)
           Lists == UNION {[1..n -> O] : n \in 0..Len(reports)}
           S == CHOOSE s \in Lists : Is(s)
<1>1. /\ O \in SUBSET Repts
      /\ \A r, q \in O : ST!Key(r) <= ST!Key(q) <=> Times[r] <= Times[q]
  BY SortsAsTime
<1>n. PICK n \in 0..Len(reports) : \E s : SortedBy(s, n, O, Times)
  BY CanSort
<1>2. PICK s : SortedBy(s, n, O, Times)
  BY <1>n
<1>t. ST!Sorted(i) = S
  BY DEF ST!Sorted
<1> HIDE DEF O
<1>3. s \in [1..n -> O] /\ DOMAIN s = 1..n
  BY <1>2 DEF SortedBy
<1>4. Is(s)
  <2>1. ST!IsInjective(s)
    BY <1>2, <1>3 DEF SortedBy, ST!IsInjective
  <2>2. ST!ToSet(s) = O
    BY <1>2, <1>3 DEF SortedBy, ST!ToSet
  <2>3. ST!Ordered(s)
    BY <1>1, <1>2, <1>3 DEF SortedBy, ST!Ordered
  <2> QED
    BY <2>1, <2>2, <2>3
<1>5. s \in Lists
  BY <1>3
<1>6. S \in Lists /\ Is(S)
  <2> HIDE DEF Is, Lists
  <2> QED
    BY <1>4, <1>5
<1> HIDE DEF S
<1>7. PICK m \in 0..Len(reports) : S \in [1..m -> O]
  BY <1>6
<1>8. DOMAIN S = 1..m /\ m \in Nat
  BY <1>7
<1>9. \A x \in O : \E j \in 1..m : S[j] = x
  BY <1>6, <1>8 DEF ST!ToSet
<1>10. ASSUME NEW j \in 1..m, NEW k \in 1..m, j < k PROVE S[j].at < S[k].at
  <2>1. S[j] \in O /\ S[k] \in O /\ j # k
    BY <1>7, <1>10
  <2>2. S[j] # S[k]
    BY <1>6, <1>8, <2>1 DEF ST!IsInjective
  <2>3. Times[S[j]] <= Times[S[k]]
    BY <1>1, <1>6, <1>8, <1>10, <2>1 DEF ST!Ordered
  <2>4. /\ Times[S[j]] = S[j].at /\ Times[S[k]] = S[k].at
        /\ S[j].at \in Int /\ S[k].at \in Int
    BY <1>1, <2>1, StorageAssumption DEF Times, Repts
  <2>5. S[j].at # S[k].at
    BY <2>1, <2>2 DEF StorageInv, Dated, ST!Of, O
  <2> QED
    BY <2>3, <2>4, <2>5
<1> QED
  BY <1>t, <1>7, <1>8, <1>9, <1>10 DEF O

\* rows is what is left of the n rows of s without the first m of them.
EndFrom(rows, s, n, m) ==
  /\ DOMAIN rows = 1..(n - m) /\ Len(rows) = n - m
  /\ \A k \in 1..(n - m) : rows[k] = s[m + k]

\* fetch with its limit: the last rows, as many as are asked for or all.
LEMMA LastRows ==
  ASSUME NEW O, NEW n \in Nat, NEW s \in [1..n -> O], NEW b \in Nat,
         NEW rows, rows = ST!LastOf(s, b)
  PROVE  \E m \in 0..n : (m = 0 \/ m = n - b) /\ EndFrom(rows, s, n, m)
<1>1. s \in Seq(O) /\ Len(s) = n
  OBVIOUS
<1>2. CASE n <= b
  <2>1. ST!LastOf(s, b) = s
    BY <1>1, <1>2 DEF ST!LastOf
  <2>2. \A k \in 1..(n - 0) : s[k] = s[0 + k]
    OBVIOUS
  <2>3. DOMAIN s = 1..(n - 0) /\ Len(s) = n - 0 /\ 0 \in 0..n
    BY <1>1
  <2>4. EndFrom(rows, s, n, 0)
    BY <2>1, <2>2, <2>3 DEF EndFrom
  <2> QED
    BY <2>3, <2>4
<1>3. CASE ~ (n <= b)
  <2> DEFINE m == n - b
  <2>1. m \in Nat /\ m <= n /\ m \in 0..Len(s)
    BY <1>1, <1>3
  <2> HIDE DEF m
  <2> DEFINE t == SubSeq(s, m + 1, Len(s))
  <2>2. t \in Seq(O) /\ Len(t) = Len(s) - m /\ \A k \in 1..(Len(s) - m) : t[k] = s[m + k]
    BY <1>1, <2>1, CutAt
  <2>3. ST!LastOf(s, b) = t
    BY <1>1, <1>3 DEF ST!LastOf, m
  <2> HIDE DEF t
  <2>4. DOMAIN t = 1..(n - m) /\ Len(t) = n - m
    BY <1>1, <2>2
  <2>5. \A k \in 1..(n - m) : t[k] = s[m + k]
    BY <1>1, <2>2
  <2>6. m = n - b /\ m \in 0..n
    BY <1>1, <2>1 DEF m
  <2>7. EndFrom(rows, s, n, m)
    BY <2>3, <2>4, <2>5 DEF EndFrom
  <2> QED
    BY <2>6, <2>7
<1> QED
  BY <1>2, <1>3

\* What a browser is sent is the backlog of last locations.
LEMMA BacklogRows ==
  ASSUME StorageInv, NEW i \in StoredImeis, NEW b \in Numbacks, ST!OneClock(i),
         NEW f, f = [imei |-> i, numback |-> b, rows |-> ST!fetch(i, b)]
  PROVE  ST!IsBacklog(f)
<1> DEFINE O == ST!Of(i)
           s == ST!Sorted(i)
           rows == ST!LastOf(s, b)
<1>1. PICK n \in Nat : /\ s \in [1..n -> O]
                       /\ \A x \in O : \E j \in 1..n : s[j] = x
                       /\ \A j, k \in 1..n : j < k => s[j].at < s[k].at
  BY SortedRows
<1>2. f.imei = i /\ f.numback = b /\ f.rows = rows
  BY DEF ST!fetch
<1>3. b \in Nat
  BY StorageAssumption
<1> HIDE DEF O, s
<1>e. PICK m \in 0..n : (m = 0 \/ m = n - b) /\ EndFrom(rows, s, n, m)
  <2>1. s \in [1..n -> O]
    BY <1>1
  <2>2. rows = ST!LastOf(s, b)
    OBVIOUS
  <2> HIDE DEF rows
  <2> QED
    BY <1>3, <2>1, <2>2, LastRows
<1> HIDE DEF rows
<1>4. /\ m \in Nat /\ m <= n /\ (m = 0 \/ m = n - b)
      /\ DOMAIN rows = 1..(n - m) /\ Len(rows) = n - m
      /\ \A k \in 1..(n - m) : rows[k] = s[m + k]
  BY <1>e DEF EndFrom
<1>5. \A k \in 1..(n - m) : m + k \in 1..n
  BY <1>4
<1>6. ST!ToSet(rows) \subseteq O
  BY <1>1, <1>4, <1>5 DEF ST!ToSet
<1>7. ASSUME NEW j \in DOMAIN rows, NEW k \in DOMAIN rows, j < k
      PROVE  rows[j].at < rows[k].at
  <2>1. m + j \in 1..n /\ m + k \in 1..n /\ m + j < m + k
    BY <1>4, <1>5, <1>7
  <2>2. s[m + j].at < s[m + k].at
    BY <1>1, <2>1
  <2> QED
    BY <1>4, <2>2
<1>8. ASSUME NEW j \in 1..n, m < j PROVE s[j] \in ST!ToSet(rows)
  <2>1. j - m \in 1..(n - m) /\ m + (j - m) = j
    BY <1>4, <1>8
  <2>2. rows[j - m] = s[j]
    BY <1>4, <2>1
  <2> QED
    BY <1>4, <2>1, <2>2 DEF ST!ToSet
<1>9. ASSUME NEW old \in O, old \notin ST!ToSet(rows), NEW k \in DOMAIN rows
      PROVE  old.at < rows[k].at
  <2>1. PICK j \in 1..n : s[j] = old
    BY <1>1
  <2>2. ~ (m < j)
    BY <1>8, <1>9, <2>1
  <2>3. m + k \in 1..n /\ j < m + k
    BY <1>4, <1>5, <2>2
  <2>4. s[j].at < s[m + k].at
    BY <1>1, <2>3
  <2> QED
    BY <1>4, <2>1, <2>4
<1>10. Len(rows) = b \/ ST!ToSet(rows) = O
  <2>1. CASE m = 0
    <3>1. \A j \in 1..n : s[j] \in ST!ToSet(rows)
      BY <1>8, <2>1
    <3>2. O \subseteq ST!ToSet(rows)
      BY <1>1, <3>1
    <3> QED
      BY <1>6, <3>2
  <2>2. CASE m = n - b
    BY <1>3, <1>4, <2>2
  <2> QED
    BY <1>4, <2>1, <2>2
<1>11. ST!Of(f.imei) = O
  BY <1>2 DEF O
<1> QED
  BY <1>2, <1>6, <1>7, <1>9, <1>10, <1>11 DEF ST!IsBacklog

\* Only backlog changes what was fetched.
LEMMA BacklogStep ==
  ASSUME StorageInv, [ST!Next]_working
  PROVE  [fetched' # fetched /\ ST!OneClock(fetched'.imei) => ST!IsBacklog(fetched')]_(ST!vars)
<1>1. ASSUME NEW i \in StoredImeis, NEW n \in Numbacks, ST!backlog(i, n),
             ST!OneClock(fetched'.imei)
      PROVE  ST!IsBacklog(fetched')
  <2>1. fetched' = [imei |-> i, numback |-> n, rows |-> ST!fetch(i, n)] /\ fetched'.imei = i
    BY <1>1 DEF ST!backlog
  <2>2. ST!OneClock(i)
    BY <1>1, <2>1
  <2> QED
    BY <2>1, <2>2, BacklogRows
<1>2. \/ UNCHANGED fetched
      \/ \E i \in StoredImeis, n \in Numbacks : ST!backlog(i, n)
  BY DEF ST!Next, ST!Bcast, ST!Location, ST!Status, ST!Rept, ST!Poll, ST!Drained, ST!Take, ST!Stow,
     ST!TakeReport, ST!Crash, ST!Restart, ST!Daemon, working
<1> QED
  BY <1>1, <1>2

-----------------------------------------------------------------------------
(* ocid_dload                                                              *)

Files == Seq(Row \cup {BadRow})

\* An ocid_dload that has opened its transaction sees the rows of the part of its file
\* that it has read, and has met no malformed one.
HalfRead(d) ==
  \E n \in 0..Len(file[d]) : /\ body[d] = SubSeq(file[d], n + 1, Len(file[d]))
                             /\ work = CD!Rows(SubSeq(file[d], 1, n))
                             /\ BadRow \notin work

\* The inductive invariant of ocid_dload.main: one writer, in the middle of its file;
\* the others have not begun to read theirs.
DloadInv ==
  /\ body = [d \in Dloads |-> body[d]] /\ file = [d \in Dloads |-> file[d]]
  /\ writer \in Dloads \cup {NoDload}
  /\ \A d \in Dloads : IF writer = d THEN file[d] \in Files /\ HalfRead(d)
                       ELSE body[d] = file[d] /\ file[d] \in Files \cup {NoTable}

\* The beginning of a file is a file, that of one whose connection is closed early.
LEMMA Truncated ==
  ASSUME NEW b \in Bodies, NEW n \in 0..Len(b)
  PROVE  SubSeq(b, 1, n) \in Files
<1>1. b \in Seq(Row \cup {BadRow}) /\ n \in Nat /\ n <= Len(b) /\ Len(b) \in Nat
  BY DatabasesAssumption
<1> QED
  BY <1>1 DEF Files

\* Before the first row is read.
LEMMA NothingRead ==
  ASSUME NEW b \in Files
  PROVE  b = SubSeq(b, 0 + 1, Len(b)) /\ {} = CD!Rows(SubSeq(b, 1, 0)) /\ Len(b) \in Nat
<1>1. b \in Seq(Row \cup {BadRow})
  BY DEF Files
<1>2. SubSeq(b, 1, 0) = <<>> /\ Len(b) \in Nat
  BY <1>1
<1>3. SubSeq(b, 1, Len(b)) = b
  BY <1>1
<1>4. CD!Rows(<<>>) = {}
  BY DEF CD!Rows
<1>5. 0 + 1 = 1
  OBVIOUS
<1> QED
  BY <1>2, <1>3, <1>4, <1>5

\* One turn of the loop: the rows of one more line.
LEMMA OneMoreRead ==
  ASSUME NEW b \in Files, NEW n \in 0..Len(b),
         SubSeq(b, n + 1, Len(b)) # <<>>
  PROVE  /\ n + 1 \in 0..Len(b)
         /\ Tail(SubSeq(b, n + 1, Len(b))) = SubSeq(b, (n + 1) + 1, Len(b))
         /\ CD!Rows(SubSeq(b, 1, n)) \cup {Head(SubSeq(b, n + 1, Len(b)))} = CD!Rows(SubSeq(b, 1, n + 1))
<1>1. b \in Seq(Row \cup {BadRow}) /\ Len(b) \in Nat /\ n \in Nat /\ n <= Len(b)
  BY DEF Files
<1> DEFINE r == SubSeq(b, n + 1, Len(b))
<1>2. n # Len(b)
  BY <1>1
<1>3. n + 1 \in 0..Len(b) /\ n < Len(b)
  BY <1>1, <1>2
<1>4. /\ r \in Seq(Row \cup {BadRow}) /\ Len(r) = Len(b) - n
      /\ \A k \in 1..Len(r) : r[k] = b[n + k]
  BY <1>1, <1>3
<1>5. Head(r) = b[n + 1]
  BY <1>1, <1>3, <1>4
<1>6. Tail(r) = SubSeq(b, (n + 1) + 1, Len(b))
  BY <1>1, <1>3
<1>7. /\ SubSeq(b, 1, n) = [k \in 1..n |-> b[k]]
      /\ SubSeq(b, 1, n + 1) = [k \in 1..(n + 1) |-> b[k]]
  BY <1>1, <1>3
<1>8. /\ DOMAIN SubSeq(b, 1, n) = 1..n /\ DOMAIN SubSeq(b, 1, n + 1) = 1..(n + 1)
      /\ 1..(n + 1) = (1..n) \cup {n + 1}
  BY <1>1, <1>7
<1>9. CD!Rows(SubSeq(b, 1, n)) \cup {b[n + 1]} = CD!Rows(SubSeq(b, 1, n + 1))
  <2> DEFINE p == SubSeq(b, 1, n)
             q == SubSeq(b, 1, n + 1)
  <2>1. q[n + 1] = b[n + 1] /\ \A k \in 1..n : q[k] = p[k]
    BY <1>1, <1>7
  <2>2. DOMAIN q = DOMAIN p \cup {n + 1} /\ DOMAIN p = 1..n
    BY <1>8
  <2> HIDE DEF p, q
  <2>3. {q[k] : k \in DOMAIN q} = {p[k] : k \in DOMAIN p} \cup {b[n + 1]}
    BY <2>1, <2>2
  <2>4. CD!Rows(p) \cup {b[n + 1]} = CD!Rows(q)
    BY <2>3 DEF CD!Rows
  <2> QED
    BY <2>4 DEF p, q
<1> QED
  BY <1>3, <1>5, <1>6, <1>9

\* At the end of the file, all its rows are in the transaction.
LEMMA AllRead ==
  ASSUME DloadInv, NEW d \in Dloads, writer = d, body[d] = <<>>
  PROVE  work = CD!Rows(file[d]) /\ BadRow \notin CD!Rows(file[d])
<1> DEFINE b == file[d]
<1>1. PICK n \in 0..Len(b) : /\ <<>> = SubSeq(b, n + 1, Len(b))
                             /\ work = CD!Rows(SubSeq(b, 1, n)) /\ BadRow \notin work
  BY DEF DloadInv, HalfRead
<1>2. b \in Seq(Row \cup {BadRow})
  BY DEF DloadInv, Files
<1> HIDE DEF b
<1>3. Len(b) \in Nat /\ n \in Nat /\ n <= Len(b)
  BY <1>2
<1>4. n = Len(b)
  <2> SUFFICES ASSUME n < Len(b) PROVE FALSE
    BY <1>3
  <2>1. Len(SubSeq(b, n + 1, Len(b))) = Len(b) - n
    BY <1>2, <1>3
  <2>2. Len(<<>>) = 0
    OBVIOUS
  <2>3. <<>> = SubSeq(b, n + 1, Len(b))
    BY <1>1
  <2>4. Len(b) - n = 0
    BY <2>1, <2>2, <2>3
  <2> QED
    BY <1>3, <2>4
<1>5. SubSeq(b, 1, Len(b)) = b
  BY <1>2
<1> QED
  BY <1>1, <1>4, <1>5 DEF b

\* Leaving the with statement keeps the invariant.
LEMMA LeaveInv ==
  ASSUME DloadInv, NEW d \in Dloads, CD!Leave(d)
  PROVE  DloadInv'
<1>1. /\ body' = [body EXCEPT ![d] = NoTable] /\ file' = [file EXCEPT ![d] = NoTable]
      /\ \A e \in Dloads : e # d => body'[e] = body[e] /\ file'[e] = file[e]
  BY DEF CD!Leave, DloadInv
<1>2. /\ body' = [e \in Dloads |-> body'[e]] /\ body'[d] = NoTable
      /\ file' = [e \in Dloads |-> file'[e]] /\ file'[d] = NoTable
  BY <1>1 DEF DloadInv
<1>3. writer' \in Dloads \cup {NoDload} /\ writer' # d
  BY DatabasesAssumption DEF CD!Leave, DloadInv
<1>4. ASSUME NEW e \in Dloads
      PROVE  IF writer' = e THEN file'[e] \in Files /\ HalfRead(e)'
             ELSE body'[e] = file'[e] /\ file'[e] \in Files \cup {NoTable}
  <2>1. CASE e = d
    BY <1>2, <1>3, <2>1
  <2>2. CASE e # d /\ writer' = e
    <3>1. writer = e /\ work' = work /\ body'[e] = body[e] /\ file'[e] = file[e]
      BY DatabasesAssumption, <1>1, <2>2 DEF CD!Leave
    <3> QED
      BY <2>2, <3>1 DEF DloadInv, HalfRead
  <2>3. CASE e # d /\ writer' # e
    BY <1>1, <2>3 DEF CD!Leave, DloadInv
  <2> QED
    BY <2>1, <2>2, <2>3
<1> QED
  BY <1>2, <1>3, <1>4 DEF DloadInv

\* Who writes is running.
LEMMA WriterRuns ==
  ASSUME DloadInv, NEW d \in Dloads, writer = d
  PROVE  CD!Running(d)
<1> DEFINE b == file[d]
<1>1. PICK n \in 0..Len(b) : body[d] = SubSeq(b, n + 1, Len(b))
  BY DEF DloadInv, HalfRead
<1>2. b \in Seq(Row \cup {BadRow})
  BY DEF DloadInv, Files
<1> HIDE DEF b
<1>3. n \in Nat /\ Len(b) \in Nat
  BY <1>2
<1>4. SubSeq(b, n + 1, Len(b)) \in Seq(Row \cup {BadRow})
  BY <1>2, <1>3
<1> QED
  BY DatabasesAssumption, <1>1, <1>4 DEF CD!Running

\* A request: the file is still to be read, and nobody else is disturbed.
LEMMA RequestInv ==
  ASSUME DloadInv, NEW d \in Dloads, CD!Request(d)
  PROVE  DloadInv'
<1>1. writer # d /\ writer' = writer /\ work' = work
  BY WriterRuns DEF CD!Request
<1>2. \/ body' = body /\ file' = file
      \/ \E b \in Files : body' = [body EXCEPT ![d] = b] /\ file' = [file EXCEPT ![d] = b]
  BY Truncated DEF CD!Request
<1>3. /\ body' = [e \in Dloads |-> body'[e]] /\ file' = [e \in Dloads |-> file'[e]]
      /\ body'[d] = file'[d] /\ file'[d] \in Files \cup {NoTable}
      /\ \A e \in Dloads : e # d => body'[e] = body[e] /\ file'[e] = file[e]
  BY <1>1, <1>2 DEF DloadInv
<1>4. ASSUME NEW e \in Dloads
      PROVE  IF writer' = e THEN file'[e] \in Files /\ HalfRead(e)'
             ELSE body'[e] = file'[e] /\ file'[e] \in Files \cup {NoTable}
  <2>1. CASE e = d
    BY <1>1, <1>3, <2>1
  <2>2. CASE e # d
    BY <1>1, <1>3, <2>2 DEF DloadInv, HalfRead
  <2> QED
    BY <2>1, <2>2
<1> QED
  BY <1>1, <1>3, <1>4 DEF DloadInv

\* delete from cells: the transaction begins before the first row.
LEMMA DeleteAllInv ==
  ASSUME DloadInv, NEW d \in Dloads, CD!DeleteAll(d)
  PROVE  DloadInv'
<1>1. /\ body[d] = file[d] /\ file[d] \in Files /\ writer' = d /\ work' = {}
      /\ body' = body /\ file' = file
  BY DatabasesAssumption DEF CD!DeleteAll, DloadInv, CD!Running
<1>2. HalfRead(d)'
  <2>1. /\ file[d] = SubSeq(file[d], 0 + 1, Len(file[d]))
        /\ {} = CD!Rows(SubSeq(file[d], 1, 0)) /\ 0 \in 0..Len(file[d])
    BY <1>1, NothingRead
  <2> QED
    BY <1>1, <2>1 DEF HalfRead
<1>3. \A e \in Dloads : e # d => body[e] = file[e] /\ file[e] \in Files \cup {NoTable}
  BY DatabasesAssumption DEF CD!DeleteAll, DloadInv
<1> QED
  BY <1>1, <1>2, <1>3 DEF DloadInv

\* insert: the part that is read grows by a row, or the download ends.
LEMMA InsertRowInv ==
  ASSUME DloadInv, NEW d \in Dloads, CD!InsertRow(d)
  PROVE  DloadInv'
<1>1. CASE CD!Malformed(d)
  BY <1>1, LeaveInv DEF CD!InsertRow
<1>2. CASE ~CD!Malformed(d)
  <2>1. /\ writer = d /\ writer' = d /\ body[d] # <<>> /\ file' = file
        /\ work' = work \cup {Head(body[d])} /\ Head(body[d]) # BadRow
        /\ body' = [body EXCEPT ![d] = Tail(@)]
    BY <1>2 DEF CD!InsertRow, CD!Insert, CD!Malformed
  <2>2. /\ body' = [e \in Dloads |-> body'[e]] /\ body'[d] = Tail(body[d])
        /\ \A e \in Dloads : e # d => body'[e] = body[e]
    BY <2>1 DEF DloadInv
  <2>3. PICK n \in 0..Len(file[d]) :
               /\ body[d] = SubSeq(file[d], n + 1, Len(file[d]))
               /\ work = CD!Rows(SubSeq(file[d], 1, n)) /\ BadRow \notin work
    BY <2>1 DEF DloadInv, HalfRead
  <2>4. file[d] \in Files
    BY <2>1 DEF DloadInv
  <2>5. /\ n + 1 \in 0..Len(file[d])
        /\ Tail(body[d]) = SubSeq(file[d], (n + 1) + 1, Len(file[d]))
        /\ work' = CD!Rows(SubSeq(file[d], 1, n + 1))
    BY <2>1, <2>3, <2>4, OneMoreRead
  <2>6. BadRow \notin work'
    BY <2>1, <2>3
  <2>7. HalfRead(d)'
    BY <2>1, <2>2, <2>5, <2>6 DEF HalfRead
  <2> QED
    BY <2>1, <2>2, <2>4, <2>7 DEF DloadInv
<1> QED
  BY <1>1, <1>2

\* Every step keeps the invariant of ocid_dload.
LEMMA DloadStep ==
  ASSUME DloadInv, [CD!Next]_looking
  PROVE  DloadInv'
<1>1. ASSUME NEW d \in Dloads, CD!Dload(d) PROVE DloadInv'
  BY <1>1, RequestInv, DeleteAllInv, InsertRowInv, LeaveInv
     DEF CD!Dload, CD!Locked, CD!Finish, CD!Interrupted
<1>2. CASE UNCHANGED CD!dloadVars
  BY <1>2 DEF CD!dloadVars, DloadInv, HalfRead
<1> QED
  BY <1>1, <1>2 DEF CD!Next, CD!InsertFails, CD!SelectFails, CD!Lookup, CD!InitLookup, looking,
     CD!dloadVars

\* It holds at first.
LEMMA DloadInit ==
  ASSUME CD!Init
  PROVE  DloadInv
BY DatabasesAssumption DEF CD!Init, DloadInv

\* A step replaces the table by all that one ocid_dload is sent.
LEMMA StepAtOnce ==
  ASSUME DloadInv, [CD!Next]_looking, cells' # cells
  PROVE  \/ cells = NoTable /\ cells' = {}
         \/ \E d \in Dloads : /\ CD!Running(d) /\ BadRow \notin CD!Rows(file[d])
                               /\ cells' = CD!Rows(file[d]) /\ cells' # {}
<1>1. ASSUME NEW d \in Dloads, CD!Finish(d)
      PROVE  /\ CD!Running(d) /\ BadRow \notin CD!Rows(file[d])
             /\ cells' = CD!Rows(file[d]) /\ cells' # {}
  <2>1. writer = d /\ body[d] = <<>> /\ cells' = work /\ work # {}
    BY <1>1 DEF CD!Finish
  <2> QED
    BY <2>1, AllRead, WriterRuns
<1>2. ASSUME NEW d \in Dloads, CD!Request(d) PROVE cells = NoTable /\ cells' = {}
  BY <1>2 DEF CD!Request
<1>3. \E d \in Dloads : CD!Finish(d) \/ CD!Request(d)
  BY DEF CD!Next, CD!Dload, CD!DeleteAll, CD!Locked, CD!InsertRow, CD!Insert, CD!Interrupted,
     CD!InsertFails, CD!SelectFails, CD!Lookup, CD!InitLookup, looking
<1> QED
  BY <1>1, <1>2, <1>3

-----------------------------------------------------------------------------
(* lookup                                                                  *)

\* What a lookup leaves in seen is of a terminal whose lookup raised before the delete;
\* the first one to get to the delete removes it, whatever the data.
StrayInv == \A r \in seen : r.by \in failed

\* Both halves of the database together.
CellDbInv == DloadInv /\ StrayInv

\* A lookup that raises adds to seen, one that does not empties it.
LEMMA LookupStray ==
  ASSUME StrayInv, NEW t \in Terminals, NEW h \in Hints,
         CD!InsertFails(t, h) \/ CD!SelectFails(t, h) \/ CD!Lookup(t, h)
  PROVE  StrayInv'
<1>1. \A r \in CD!RowsOf(t, h) : r.by \in failed \cup {t}
  BY DEF StrayInv, CD!RowsOf, CD!Reported
<1>2. CASE CD!InsertFails(t, h)
  BY <1>1, <1>2 DEF CD!InsertFails, StrayInv
<1>3. CASE CD!SelectFails(t, h)
  BY <1>1, <1>3 DEF CD!SelectFails, StrayInv
<1>4. CASE CD!Lookup(t, h)
  BY <1>4 DEF CD!Lookup, CD!SeenAfter, StrayInv
<1> QED
  BY <1>2, <1>3, <1>4

\* The inductive invariant holds at first and is kept.
LEMMA CellDbInvHolds ==
  (CD!Init => CellDbInv) /\ (CellDbInv /\ [CD!Next]_looking => CellDbInv')
<1>1. CD!Init => CellDbInv
  BY DloadInit DEF CD!Init, CellDbInv, StrayInv
<1>2. ASSUME CellDbInv, [CD!Next]_looking PROVE CellDbInv'
  <2>1. DloadInv'
    BY <1>2, DloadStep DEF CellDbInv
  <2>2. ASSUME NEW d \in Dloads, CD!Dload(d) PROVE StrayInv'
    <3>1. UNCHANGED <<failed, seen>>
      BY <2>2 DEF CD!Dload, CD!Request, CD!DeleteAll, CD!Locked, CD!InsertRow,
         CD!Finish, CD!Interrupted, CD!lookupVars
    <3> QED
      BY <1>2, <3>1 DEF CellDbInv, StrayInv
  <2>3. ASSUME NEW t \in Terminals, NEW h \in Hints,
               CD!InsertFails(t, h) \/ CD!SelectFails(t, h) \/ CD!Lookup(t, h)
        PROVE  StrayInv'
    BY <1>2, <2>3, LookupStray DEF CellDbInv
  <2>4. ASSUME CD!InitLookup PROVE StrayInv'
    BY <2>4 DEF CD!InitLookup, StrayInv
  <2>5. ASSUME UNCHANGED looking PROVE StrayInv'
    BY <1>2, <2>5 DEF looking, CellDbInv, StrayInv
  <2> QED
    BY <1>2, <2>1, <2>2, <2>3, <2>4, <2>5 DEF CD!Next, CellDbInv
<1> QED
  BY <1>1, <1>2

\* What a lookup answers: rows of the table as it is committed at that moment, joined
\* with what is in seen and with what the terminal reported.
LEMMA LookupAnswer ==
  ASSUME NEW t \in Terminals, NEW h \in Hints, CD!Lookup(t, h), answer' # NoAnswer
  PROVE  /\ answer'.to = t
         /\ \A x \in answer'.data : x.row \in cells /\ x.hint \in seen \cup CD!Reported(t, h)
<1> DEFINE rows == seen \cup CD!Reported(t, h)
<1>1. answer' = [to |-> t, data |-> CD!Join(cells, rows)]
  BY DEF CD!Lookup, CD!InsertAndCommit, CD!Idle, CD!Selected, CD!RowsOf
<1>2. \A x \in CD!Join(cells, rows) : x.row \in cells /\ x.hint \in rows
  BY DEF CD!Join
<1> QED
  BY <1>1, <1>2

\* Only lookups that get to the delete answer.
LEMMA OnlyLookupAnswers ==
  ASSUME [CD!Next]_looking, answer' # answer, answer' # NoAnswer
  PROVE  \E t \in Terminals, h \in Hints : CD!Lookup(t, h)
BY DEF CD!Next, looking, CD!Dload, CD!Request, CD!DeleteAll, CD!Locked,
   CD!InsertRow, CD!Finish, CD!Interrupted, CD!InsertFails, CD!SelectFails, CD!InitLookup,
       CD!lookupVars

\* What is in an answer and not the terminal's own is of one whose lookup raised.
LEMMA StrayCells ==
  ASSUME CellDbInv, [CD!Next]_looking, answer' # answer, answer' # NoAnswer
  PROVE  \A x \in answer'.data : x.hint.by \in failed \cup {answer'.to}
<1>1. PICK t \in Terminals : \E h \in Hints : CD!Lookup(t, h)
  BY OnlyLookupAnswers
<1>2. PICK h \in Hints : CD!Lookup(t, h)
  BY <1>1
<1>3. /\ \A y \in CD!Reported(t, h) : y.by = t
      /\ \A y \in seen : y.by \in failed
  BY DEF CellDbInv, StrayInv, CD!Reported
<1> QED
  BY <1>2, <1>3, LookupAnswer

-----------------------------------------------------------------------------
(* Both databases                                                          *)

\* Each part takes its own steps, and the others leave its variables alone.
LEMMA PartsStep ==
  ASSUME [DatabasesNext]_all
  PROVE  [ST!Next]_working /\ [CD!Next]_looking
BY DEF DatabasesNext, all

\* What is not looked at is as at the beginning.
LEMMA DatabasesInitInv ==
  ASSUME DatabasesInit
  PROVE  StorageInv /\ CellDbInv
<1>1. StorageInv
  BY StorageInitInv DEF DatabasesInit
<1>2. CASE CD!Init
  BY <1>1, <1>2, CellDbInvHolds
<1>3. CASE NotLooking
  BY <1>1, <1>3, DatabasesAssumption DEF NotLooking, CellDbInv, DloadInv, StrayInv
<1> QED
  BY <1>1, <1>2, <1>3 DEF DatabasesInit

\* Both invariants are kept.
LEMMA DatabasesStepInv ==
  ASSUME StorageInv /\ CellDbInv, [DatabasesNext]_all
  PROVE  (StorageInv /\ CellDbInv)'
BY PartsStep, StorageStepInv, CellDbInvHolds

\* Wherever storage stops, an event of a terminal that has logged in has a row of
\* pmodmap to tell its protocol module by (storage.py:54-64, evstore.py:111-119).
THEOREM EventsAreKnown == DatabasesSpec => []KnownBeforeRecorded
<1>1. StorageInv => KnownBeforeRecorded
  BY DEF StorageInv, KnownBeforeRecorded
<1> QED
  BY <1>1, DatabasesInitInv, DatabasesStepInv, PTL DEF DatabasesSpec

\* Events and reports are recorded once and in the order of publication, and of the
\* reports only locations (storage.py:36-75).
THEOREM RecordsAreInOrder == DatabasesSpec => []RecordedInOrder
<1>1. StorageInv => RecordedInOrder
  BY DEF StorageInv, InOrder, OnlyLocations, RecordedInOrder, ST!RecordedInOrder
<1> QED
  BY <1>1, DatabasesInitInv, DatabasesStepInv, PTL DEF DatabasesSpec

\* What the gateway fetches for a browser is the locations that the terminal took last,
\* oldest first and as many as were asked for, when its reports are dated by one clock
\* (evstore.py:122-138, wsgateway.py:34-41).
THEOREM BacklogIsLast == DatabasesSpec => LastLocations
<1>1. ASSUME StorageInv /\ CellDbInv, [DatabasesNext]_all
      PROVE  [fetched' # fetched /\ ST!OneClock(fetched'.imei) => ST!IsBacklog(fetched')]_(ST!vars)
  BY <1>1, PartsStep, BacklogStep
<1> QED
  BY <1>1, DatabasesInitInv, DatabasesStepInv, PTL DEF DatabasesSpec, LastLocations, ST!LastLocations

\* The committed table changes only to all the rows that one download was sent, at least
\* one and none malformed, however many downloads run at once; wherever one fails or is
\* killed, the table stays as it was (ocid_dload.py:82-135).
THEOREM CellsReplacedAtOnce == DatabasesSpec => ReplacedAtOnce
<1>1. ASSUME StorageInv /\ CellDbInv, [DatabasesNext]_all
      PROVE  [cells' # cells =>
                \/ cells = NoTable /\ cells' = {}
                \/ \E d \in Dloads : /\ CD!Running(d) /\ BadRow \notin CD!Rows(file[d])
                                      /\ cells' = CD!Rows(file[d]) /\ cells' # {}]_(CD!vars)
  BY <1>1, PartsStep, StepAtOnce DEF CellDbInv
<1> QED
  BY <1>1, DatabasesInitInv, DatabasesStepInv, PTL DEF DatabasesSpec, ReplacedAtOnce, CD!ReplacedAtOnce

\* An answer is from the table that was committed last, never from a snapshot that the
\* connection kept from before a download (opencellid.py:25-55).
THEOREM LatestCellsAnswered == DatabasesSpec => AnswerFromLatestCells
<1>1. ASSUME [DatabasesNext]_all
      PROVE  [answer' # answer /\ answer' # NoAnswer
                => \A x \in answer'.data : x.row \in cells]_(CD!vars)
  <2>1. [CD!Next]_looking
    BY <1>1, PartsStep
  <2> QED
    BY <2>1, OnlyLookupAnswers, LookupAnswer
<1> QED
  BY <1>1, PTL DEF DatabasesSpec, AnswerFromLatestCells, CD!AnswerFromLatestCells

\* Cells of another terminal are in an answer only if its lookup raised between the
\* insert and the delete, for want of the table or at a number that sqlite3 cannot bind,
\* and no lookup has got to the delete since (opencellid.py:25-55).
THEOREM StrayCellsAccounted == DatabasesSpec => StrayCellsOfFailed
<1>1. ASSUME StorageInv /\ CellDbInv, [DatabasesNext]_all
      PROVE  [answer' # answer /\ answer' # NoAnswer
                => \A x \in answer'.data : x.hint.by \in failed \cup {answer'.to}]_(CD!vars)
  BY <1>1, PartsStep, StrayCells
<1> QED
  BY <1>1, DatabasesInitInv, DatabasesStepInv, PTL
     DEF DatabasesSpec, StrayCellsOfFailed, CD!StrayCellsOfFailed

=============================================================================
