# A TLA+ model of loctrkd

loctrkd collects location reports from GPS trackers ("terminals"), stores them
and shows them on a web page. It is five Python daemons that talk over ZeroMQ.
This directory holds TLA+ modules translated from their source, TLC
configurations that check them on small instances, and TLAPS proofs that hold
for every instance.

## The system

```
 terminals --TCP--> collector --PUB--> rectifier --PUB--> wsgateway --ws--> browsers
                     ^    |              |    |              |    ^
                     |    +--PUB--> storage <-+              |    | backlog, pmodmap
                     |    |             \-----> sqlite ------+----+
                     |    +--PUB--> termconfig               |
                     +--PULL--- responses: rectifier, termconfig, wsgateway
```

Each daemon is one process with one thread. What makes the system hard is not
locks but the order of events inside a poll loop, descriptors that the kernel
hands out again, values that outlive the moment they were read, and processes
that die and are started again while the others go on.

| Part | State it keeps | Operations | Correct when |
|---|---|---|---|
| **collector** (`collector.py`) | `Clients.by_fd`, `Clients.by_imei`, per client socket, IMEI, protocol module, deframer; poller and `pollingfds` | accept, recv with login and eviction, publish, goodbye, response, registration with the poller | each IMEI has one connection, no socket is leaked or confused with another, nothing is published under a foreign IMEI, everybody is served |
| **storage** (`storage.py`, `evstore.py`) | tables `events`, `reports`, `pmodmap` | `stow`, `stowloc`, `stowpmod`, `fetch`, `fetchpmod`, `initdb` with a migration | nothing is lost by a crash, the newest rows are fetched, `pmodmap` names the module of the terminal |
| **rectifier** (`rectifier.py`, `opencellid.py`, `googlemaps.py`) | the temporary table `seen` | rectify a packet, look cells up, answer, report | one look-up does not see the cells of another, a bad packet does not stop it |
| **termconfig** (`termconfig.py`) | none | answer STATUS, SETUP, POSITION_UPLOAD_INTERVAL | each request gets one answer |
| **wsgateway** (`wsgateway.py`) | per browser websocket state, subscription, unsent data; ZMQ subscriptions; who waits for write | accept, upgrade, http, subscribe, command, broadcast, write | browsers get what they asked for and only that, one of them cannot stop the others |
| **ocid_dload** (`ocid_dload.py`) | table `cells` | download, replace | readers see the old table or the new one |
| **protocol modules** (`zx303proto.py`, `beesure.py`) | the buffer of a stream | deframe, probe, enframe, parse, construct | a frame survives any split into segments |
| **zmsg** (`zmsg.py`), **common**, **protomodule** | none | encode and decode messages, find a protocol module | decoding inverts encoding |

Interactions: PUB/SUB may drop messages, and loses those sent before a
subscription is there; PUSH/PULL queues them. storage and wsgateway share the
sqlite file. systemd starts a daemon again after a failure
(`Restart=on-failure`), and its peers notice only that connections are gone.

`PROJECT.json` lists the hazards this leads to, each at its line, with the
properties that would catch it.

## Modules

| Module | Models | Checked by |
|---|---|---|
| `Collector` | `collector.py`: `Client`, `Clients`, `runserver` | `MCCollector` with two configurations; `CollectorProofs`, `CollectorRefinementProofs` |
| `TerminalDirectory` | what `Clients` promises to those who address terminals by IMEI | refinement, in `MCCollector_safety.cfg` and `CollectorRefinementProofs` |
| `CommandPath` | `Collector` composed with `storage.runserver`, `stowpmod`, `fetchpmod` and `wsgateway.sendcmd` | `MCCommandPath` |
| `Wsgateway` | `wsgateway.py`: `Client`, `Clients`, `runserver` | `MCWsgateway` with five configurations; `WsgatewayProofs` |
| `Zx303Stream`, `BeesureStream` | the deframers of the two protocols, with probing by `Client.recv` | `MCStreams`; `StreamsProofs` |
| `Unzipped` | the line iterator of `ocid_dload.py` | `MCStreams`; `StreamsProofs` |
| `InitDb` | `evstore.initdb` run by storage and wsgateway on one file | `MCDatabases`; `InitDbProofs` |
| `Storage` | `storage.py` with `stow`, `stowloc`, `stowpmod` and `fetch`, and `wsgateway.backlog` | `MCDatabases`; `DatabasesProofs` |
| `CellDb` | `ocid_dload.main` and `opencellid.lookup` on one file | `MCDatabases`; `DatabasesProofs` |
| `Zx303Proto`, `BeesureProto` | of each class of packet what the daemons ask of it: name, how it is answered, what it is rectified to, whether it can be sent | used by the next two |
| `Responders` | `rectifier.py`, `termconfig.py`, and the collector as their peer | `MCMessages`; `TrafficProofs` |
| `Commands` | the `loctrkd` command and the choice of a packet by `sendcmd` | `MCMessages`; `TrafficProofs` |
| `Zmsg` | `zmsg.py`: fields, topics, what a subscription matches | `MCMessages`; `TrafficProofs` |
| `Streams` | `Zx303Stream`, `BeesureStream` and `Unzipped` side by side | `MCStreams`; `StreamsProofs` |
| `Databases` | `InitDb`, `Storage` and `CellDb` side by side | `MCDatabases`; `DatabasesProofs` |
| `Traffic` | `Responders`, `Commands` and `Zmsg` side by side | `MCMessages`; `TrafficProofs` |
| `CollectorProofs`, `CollectorRefinementProofs`, `WsgatewayProofs`, `InitDbProofs`, `StreamsProofs`, `DatabasesProofs`, `TrafficProofs` | theorems about the modules they are named after | tlapm |
| `SequenceFacts` | lemmas about numbers and sequences that the proof modules share | tlapm |

`Streams`, `Databases` and `Traffic` each put together components that do not act
on each other within the question asked. Such a module is the sum of its
components: the variable `part` says which one a behaviour is about, the others
keep their initial values. The MC modules give their constants values; runs and
theorems are about the same definitions.

### Collector

A connection is a slot of `Conns`: its socket and its `Client` object. `sockfd`
is `sock.fileno()`. A slot may connect again after it was closed, and then gets
any free descriptor, so descriptors are used again in every way the kernel
could choose. A segment is what one `sock.recv` returns: the module that
probing finds in it and the packets it completes. Of a packet the model keeps
what the collector asks its protocol module: the IMEI it logs in with, whether
it is a goodbye, whether it has an inline response.

`pc` is `"poll"`, `"body"` (between `poll()` and the end of the iteration) or
`"dead"`. The steps of an iteration are the actions `Poll`, `TakeZpull` (one
`zpull.recv`, repeated until `ZpullAgain` finds the socket empty),
`Accept`, `Recv` (one `clients.recv` call, with its cases `RecvGone`,
`RecvEof`, `RecvUnknown`, `RecvPlain` and `RecvLogin`), `Publish` (one turn of
the loop over the received packets, the goodbye's `stop` included), `Respond`
and `Settle`. The order zpull, listening socket, clients is that of the poller;
the order of the clients is left open. Terminals and pushing daemons act between
any two steps, so also between two turns of the drain of `zpull`, which then takes
what came meanwhile; nothing but an empty socket ends it, and from `MaxDrain` on
`ZpullEndless` stands for the loop that goes on. `AcceptFails` (no descriptor left to the process or the system) and `RespondFails` (an
assertion of `enframe`) are exceptions that nothing catches; `Restart` is
systemd. `lastpmod` is the variable `pmod` of the loop over received packets,
which is read after that loop (`collector.py:259`). `peeraddr` of a broadcast, the
address of the peer, is the connection it belongs to.

Not in the model: OSError of `sock.send`, which is only logged; a `sock.send`
that waits for a terminal that does not read (responses are some tens of bytes);
time stamps.

### CommandPath

`zraw` is the PUB/SUB connection to storage, which drops at its high water mark,
and `pmodmap` the table, where `None` stands for no row or one older than an
hour. Responses come from `sendcmd` only.

### Wsgateway

The unit of data is a websocket frame. `ws_data` is the list of frames not yet
given to the kernel, `out` the number in the kernel's send buffer, which a
browser drains. `clients.write` is a phase of its own (`BeginWrite`, one `Write`
per descriptor, `EndWrite`), as `sock.send` may wait: the listening socket is
set non-blocking, but on Linux `accept()` does not pass that on, and Python does
not set it either. `sending` is the descriptor it waits for. `WriteCutShort` is
a send that had taken some of the data when the browser went away.

`Publish` and `Store` are the rectifier and storage: a report reaches the SUB
socket if the IMEI is subscribed at that moment, and the backlog once storage
has stored it. `AcceptFails`, `RecvBad` and `SendFails` are exceptions that end
the daemon: `accept()` finds no descriptor; `try_http` raises what it cannot parse,
and so does the reading of a message that is no dictionary in json or whose `imei`
is no list (a segment `"bad"`, before or after the upgrade); wsproto refuses a
message after the close handshake.

Left out: the texts of http answers, which are one frame that fits the send
buffer; `sendcmd` beyond its result, which is in `CommandPath`.

### Zx303Stream, BeesureStream and Unzipped

The bytes of a stream are fixed at the start (`items` says what they were meant
to be) and arrive in segments of every length. zx303 is over bytes, with the few
values that matter: the letter `x`, CR, LF and lengths that are too small, right
or too large. In beesure the header `[VV*IMEI*LEN*` is two symbols, one that is
not yet a header and one that completes it, so that a segment may end inside.
`lost` records segments that were thrown away by design, refused by `probe_buffer`
or dropped at `MAXBUFFER`; the promise that frames survive is about streams
without such a loss. `Unzipped` has one action per call or turn of `__next__` and
`read`; a piece of the body decompresses to any number of bytes.

### InitDb

One action is one SQL statement, as Python's `sqlite3` runs them: `alter` and
`create` by themselves, the insert, the drop and the commit in one transaction.
Both daemons run through them at once, on a new file, one of an older release or
one of this release, and are killed between any two. A row of `pmodmap` is from
`"before"` or was `"stowed"` by the running storage. The copy of `pmodmap` fails
when either table is missing, which two daemons cannot bring about and three can.

### Storage

`Poll`, `Drained`, `Take`, `Stow` and `TakeReport` are the steps of the loop, the
raw socket before that of reports; `Take` and `Stow` are the two commits of one
broadcast. A crash loses what waits in the sockets. A report has the time the
terminal meant, `at`, and how its text was made, `clock`; `Key` is where that text
sorts. Messages may arrive in another order than that of `at`. `Sorted` is any
order of a terminal's rows by that text, each row once, as sqlite promises no more.

### CellDb

Two processes of `ocid_dload` (the timer's and one started by hand) and the
rectifier's connection, which stays open. A transaction of the first has `work`,
the table as it sees it; a malformed row, a kill or the end of the data ends
it. `file` is all that a download is sent, which is what the server has or less, as
a connection that is cut off looks like the end of the data.
`conn` is whether the rectifier's connection is inside a transaction, and the
snapshot of `cells` that it then keeps. `seen` remembers who reported each cell.
`lookup` raises in the insert (`InsertFails`, a cell of more than 64 bits), in the
select (`SelectFails`, no table, or such an mcc or mnc) or after its delete
(`Lookup`); `failed` is whose look-ups raised before the delete since one got to it.

### Responders, Commands, Zmsg

`Responders` follows a message from its receipt by the collector to its answer:
inline, or from the rectifier or termconfig through their SUB sockets and the
collector's PULL socket. What the class of a message means is taken from
`Zx303Proto` and `BeesureProto`. A packet that does not parse becomes UNKNOWN, as
in `parse_message`; an exception outside a `try` ends the daemon (`Dies`), and
what waits for it is lost. A daemon is also killed at any point (`Killed`). The
rectifier's turn for an approximate location is two steps, the look-up with the push
of the answer (`Approximate`) and the publication (`Tell`), with `telling` the message
in between and `cut` those whose turn a kill ended there. The configuration is the kind of each line
(`"number"`, `"0hhmm"`, `"empty"`, ...), of the three keys of ten whose values STATUS
and SETUP read, enough for `normconf` and `l3int` to take it or not.

`Commands` has what was typed as a sequence of name parts; `Zmsg` has strings as
the bytes of their utf-8, fields of `Width` for the 16 bytes, and NUL. A character
of more than one byte is `Lead` and `Cont`. `Cut` is `[:16]`, in characters, `Field`
what `struct` makes of it, in bytes; what ends inside a character is `Undecodable`.

## Runs

| Run | Shows | Bounds |
|---|---|---|
| `collector_safety` | `by_fd`, `by_imei`, sockets and poller agree; a client event is never for a newcomer; IMEIs are sticky; no broadcast names another terminal or module than that of the connection; refinement of `TerminalDirectory` | 2 connections, 2 descriptors, 2 terminals: enough for an eviction, a goodbye or a hang-up of one connection while an event of the other is pending, and for the use of a descriptor again; segments with a packet before the login and one behind a goodbye; 2 pushed responses taken in an iteration; symmetric in all three sets |
| `collector_live` | if pushers pause, hang-ups are noticed, pushed responses handled, and a connection that waits is accepted or the daemon dies, as it does of `accept()` and of failed assertions | 2 connections and descriptors, 1 terminal of beesure that logs in, packets of both protocols pushed to it, `MaxDrain` 2: a push between two turns of the drain is enough to prolong it |
| `command_path` | **violation**, see below | a terminal of each protocol |
| `wsgateway_safety` | descriptors and poller agree; nothing is left unwritten; backlog goes to who asked, and only for the current subscription | 2 browsers, 2 descriptors, 2 terminals, 1 report each, a send buffer of 1 frame, so that every second frame waits |
| `wsgateway_live` | hang-ups are noticed, subscriptions come to agree with those of the browsers and nobody waits for `accept()` for ever, if browsers read | 2 browsers and descriptors, 1 terminal |
| `wsgateway_busy`, `wsgateway_rest`, `wsgateway_gap` | **violations**, see below | the same, smaller |
| `streams` | frames and lines survive every split, `datalen` of beesure belongs to its buffer, every loop ends | zx303: any 2 of 23 packets and 4 pieces of junk, segments of up to 11 bytes, a buffer of 11; beesure: any 3 of 14 frames and 5 broken pieces, segments of up to 3 of its symbols, a buffer of 6, so that it overflows; bodies of up to 5 bytes read 2 at a time |
| `databases` | no row of `pmodmap` is lost or replaced by an older one, and both daemons come to serve; events are of known terminals, recorded once and in order; backlogs are the last locations; `cells` is replaced at once by all a download was sent, and looked up as committed; foreign cells in an answer are of look-ups that raised half way | 2 daemons, 2 terminals and 2 kills; 2 broadcasts and 3 reports, backlogs of 0 and 2, crashes without bound; 3 downloads by 2 processes, 4 files with an empty and a malformed one, from no table and from an earlier one, lookups of 2 terminals without bound, with numbers that cannot be bound and signals of 0 |
| `celldb_first` | **violation**, see below | the same |
| `messages` | a message is answered by one daemon, once, and its reports are in order, through malformed ones, deaths and kills; a terminal is told its location before the subscribers; every sound one that asks is answered; what is typed is what is sent; a subscription selects exactly its messages, which decode as they were sent | any 3 of 20 messages of six classes with faults, or any 2 of all classes of both protocols; every abbreviation of every command; fields of 3 bytes, names of up to 4 bytes over 2 letters and a character of two bytes, so that the field ends inside it, IMEIs of 2 and 3 digits |

`MaxWire`, `MaxPull`, `MaxDrain`, `MaxRaw`, `MaxReports`, `MaxSub`, `MaxItems`, `MaxSegment`,
`MaxPiece`, `MaxCrashes`, `MaxBcasts`, `MaxRepts`, `MaxRuns` and `MaxSent` bound
queues and counters. The wsgateway runs do not check deadlock: `poller.poll()` has
no timeout there, and when all is quiet nothing is left to do. In the other
modules a behaviour that has come to its end goes on with a step that changes
nothing (`Closed`, `Stopped`, `Done`, `Over`).

Each property of a passing run has a mutant in the module, an operator whose
comment begins with "Mutant": the definition below it as a plausible bug would
have it. With the mutant in its place TLC finds the property violated.

### Fairness

`FairSpec` says that the process takes a step when it can (weak fairness of the
loop as a whole, not of its single actions) and that systemd starts it again.
That is what the operating system guarantees to a process that is not blocked,
and `Restart=on-failure` in the service units. Terminals, browsers and other
daemons are promised nothing, with two exceptions. `ReadingSpec` adds that browsers
read what they are sent. `FairSpec` of the collector adds `PushersPause`, that the
drain of the PULL socket (`collector.py:204-210`) finds it empty at some point. The
code does not see to that: if another response is there whenever it looks, it takes
them for ever and neither sends one nor accepts or reads a connection. Without the
assumption TLC shows just that. It holds as long as the collector takes responses
faster than three daemons push them, most of which answer what it publishes itself.

In `streams` the code inside one `recv` or one iteration goes on; in `databases`
(`FairDatabasesSpec`) a daemon goes on with `initdb` and is started again; in `messages` the collector,
the rectifier and termconfig take what waits for them.

### What the violations show

* `EnframeAssertion`: a response is broadcast with the protocol module of
  whoever sent the last packet (`pmod` instead of `rpmod`, `collector.py:259`).
  storage records that for the recipient, and a command from the web page is then
  built by the wrong module. `beesure.enframe` asserts that it is not, and the
  collector ends.
* `BusyBrowserHarmsNobody`: as accepted sockets block, a browser that does not
  read holds the gateway in `sock.send` (`wsgateway.py:187`).
* `WaitersArePolled`: `morewait - trywrite` (`wsgateway.py:387`) is always empty,
  so POLLOUT is never asked for. With blocking sockets only a send that was cut
  short shows it; were they made non-blocking, the rest of a large write would
  stay until other traffic moved it.
* `NoReportFallsBetween`: the SUB socket is subscribed at the next turn of the
  loop, the backlog read before that (`wsgateway.py:313, 356`).
* `AnswerFromOwnCells`: what `lookup` raises between the insert into `seen` and the
  delete (`opencellid.py:30-47`) leaves the cells of a terminal there. Before the first
  download the select raises as there is no table; at any time `sqlite3` raises
  OverflowError for a cell, mcc or mnc of more than 64 bits, and beesure takes numbers
  of any length (`beesure.py:348-357`). The rectifier logs it, and the next look-up that
  gets to the delete joins the cells of every terminal that failed before.
  `StrayCellsOfFailed`, which holds, says that no other cells get into an answer.

### Other deviations met while modelling

The models reproduce these; the properties that hold are stated so as not to deny
them. None has a run of its own.

* A backlog is the *last* locations only if all reports of a terminal are dated by
  one clock (`OneClock` of `Storage`). A date of zeros becomes the text `None`,
  which sorts above every date (`zx303proto.py:375`); WiFi times are read as local
  time of the server, GPS times as UTC (`zx303proto.py:463`).
* No abbreviation, not even the full name, selects a zx303 command:
  `class_by_prefix` compares class names with the prefix `ZX:` still on
  (`zx303proto.py:822`). For beesure it works (`docs/loctrkd.1:32`).
* A STATUS that does not parse ends both the rectifier (`rectifier.py:71`) and
  termconfig (`termconfig.py:102`); what other terminals sent meanwhile is lost.
  `EveryRequestAnswered` is about well-formed messages.
* A rectifier that is killed between `zpush.send` and `zpub.send`
  (`rectifier.py:97, 109`) has told the terminal where it is, and nobody else.
  `ToldAlike` allows for that and for nothing more.
* The name of a beesure message is text of the terminal. It is cut to 16 characters,
  then to 16 bytes (`zmsg.py:123-126`); when that is inside a character, `decode()`
  raises in the receiver (`zmsg.py:144`). storage, which subscribes to everything,
  ends. `DecodedAsSent` says that no other name has this effect.
* The drain of the PULL socket has no end of its own (`collector.py:204`), see Fairness.
* Alarm times as the manual page asks for them, four digits (`loctrkd.conf.5:136`),
  end termconfig when one begins with 0, as `int("0730", 0)` raises and the lines
  are then of different types (`termconfig.py:37`).
* The limit of a buffer is checked before anything is deframed: an unfinished frame
  and a long segment behind it are dropped with all complete frames in them
  (`zx303proto.py:70`). In beesure `datalen` survives the drop, and what comes next
  is cut at the length of the dropped frame (`beesure.py:89`).
* A first segment with fewer than six bytes of a frame is not recognised and dropped
  (`collector.py:76`), and the frame with it.
* The last line of a download without a newline at its end is not returned
  (`ocid_dload.py:71`); a download that is cut off counts as complete
  (`ocid_dload.py:57`).
* "DB was empty" (`evstore.py:50`) is also where the second daemon gets to when the
  first has renamed `pmodmap`, and a daemon killed after the rename on its next
  start; then the old rows stay in `old_pmodmap` until the terminals report again.
* A report that is stored and waits in the SUB socket when a browser subscribes is
  sent as backlog and again as live report (`wsgateway.py:353`).
* `README.md` calls the command for a text `msg`; `beesure.make_response` knows it
  as `message`.

## Proofs

The theorems hold for every value of the constants: any number of connections,
descriptors, terminals, messages, daemons and downloads, queues of any length.
Of each module they state the invariants and action properties that the runs
check on small instances.

| Module | Theorems | From |
|---|---|---|
| `CollectorProofs` | `TypeCorrect`; `SocketsAccounted`, `RegistryCorrect`, `SendAsserts`, `PollerCorrect`, `NeverBlocks` | `TypeInv`; `Invariance`: `Spec => []Inv` |
| `CollectorRefinementProofs` | `CollectorImplementsDirectory`, `StickyImei`, `NoImpersonation` | `Inv`, step by step |
| `WsgatewayProofs` | `GatewayTypes`, `PollerTracksClients`, `NothingIsLeftBehind`, `AskedForByRecipients`, `QueuedIfSubscribed` | `IInv` |
| `InitDbProofs` | `RowsAreKept`, `StowedRowsStay` | `IInv` |
| `DatabasesProofs` | `EventsAreKnown`, `RecordsAreInOrder`, `BacklogIsLast`; `CellsReplacedAtOnce`, `LatestCellsAnswered`, `StrayCellsAccounted` | `StorageInv`; `CellDbInv` |
| `StreamsProofs` | `FramesReturned`; `LengthStaysTrue`; `BytesStayInOrder` | `ZxInv`, `BsInv`; `BsInv`; `UzInv` |
| `TrafficProofs` | `MessagesAnsweredOnce`, `ReportsAreInOrder`, `TerminalToldFirst`; `CommandIsMeant`; `SubscriptionsAreExact`, `MessagesDecoded` | `IInv`; `CommandInv`; `BusInv` |

Assumed of the constants: `NullAssumption`, `InputsAssumption` and
`BoundsAssumption` of `Collector`, `GwInputs` of `Wsgateway`,
`InitDbAssumption`, `RespondersAssumption`, `StorageAssumption` and
`DatabasesAssumption` of `Databases`, `StreamsAssumption` and `TrafficAssumption`.
They say that the null values are not members of the sets and that inputs have the
types the models give them, and TLC evaluates them. Two say more. By
`StreamsAssumption` packets of zx303 are `Framable` and junk is `Skippable`: the
framing has no escapes, so that a packet with a CR LF at the wrong place, or junk
that looks like a start, cannot be told apart by any deframer. By
`TrafficAssumption` IMEIs and names of modules fit their fields and contain neither
NUL, which `strip` takes off, nor a blank, of which the marker for no module is made.
Names of messages may be longer than the field.

**Collector.** The five properties are not inductive. The hard case is a descriptor that is
used again: when `Stop` frees it, an event for it may be pending. That the
newcomer is never read in its place rests on the order in the loop, which is
what the additional conjuncts of `Inv` say: the listening socket is served
before any client (`LoopPhases`: until then nothing was stopped and `pollingfds`
is the set of served descriptors), so an accepted socket has a descriptor that
no event of this iteration can name (`AcceptedAreFresh`); a stop only removes
from `by_fd` and leaves the poller alone until `Settle` (`PollerTracksClients`).
`DistinctSockets` and `BacklogWaits` say the same of sockets and of the backlog;
`ReceivedTagged` carries the IMEI from the read to the broadcast.
`ResponseReady` needs `RegistryExact`, as an entry of `by_imei` is made only after
a packet, so after probing.

**Wsgateway.** What holds at `poll` is made by all the steps before it, so `IInv` says
what each keeps. `TableInv`: an open socket is in `by_fd` or was accepted in this
iteration, and the poller is told with `by_fd`. `SetsInv`: the sets of descriptors
that the loop carries are of served clients, and what is to be stopped is not to be
written; from this, `modify()` never meets a descriptor that was unregistered.
`PendingInv`: whose data waits is in `towrite`, then in `writing`, unless its browser
is gone, and only those of browsers that are gone are found busy, so taking `towait`
out of `trywrite` forgets nobody. `AskerInv` carries who asked from the backlog
through `tosend` to `ws_data`. `SlotInv`: frames come only from upgraded browsers and
a slot that is not served is as new. What is answered to a segment is a concatenation
over its frames; its type is proved by induction (`FlattenType` of `SequenceFacts`).

**InitDb.** `RowsKept` needs to know what the one who copies will commit: `CopyInv`
says that while the transaction is open no terminal has a row in both tables, as the
insert found none and nobody else writes, `HolderInv` who has it open, and `AbsentInv` that a table that does not
exist has no rows. With three daemons or more one may rename `pmodmap` between the
`create` and the copy of another; the copy must then fail, which the first attempt at
the proof showed to be missing from the model.

**Storage.** Order and single recording are of two queues and two tables at once, so
`InOrder` relates a table, the socket before it and the last number published.
`KnownBeforeRecorded` holds as `Take` commits the row of `pmodmap` before `Stow`
the event; `BetweenCommits` is the state in between. `LastLocations` needs that no
two locations are of one time (`Dated`, of the table, the socket and the times so
far at once); that the rows of a terminal can be sorted at all, which is shown by
induction over the table, inserting one row after the other (`Inserted`, `CanSort`);
and that by one clock the text sorts as the time does (`SortsAsTime`). From these the
order is strict and the last rows of it are the backlog (`SortedRows`, `LastRows`,
`BacklogRows`).

**CellDb.** `DloadInv`: the rows of the one who writes and what it has still to read are
together all it was sent, and none of those rows is malformed (`HalfRead`), so that what
it commits at the end is the rows of its whole file. `StrayInv`: whoever has cells in
`seen` between look-ups is in `failed`.

**Streams.** What is on its way is cut at three unrelated kinds of places: items,
segments and turns of the loop. `Taken(n)` says that the first `n` items are done,
that their packets are what was returned, and that the concatenation of the others is
the buffer followed by what is still to come (`Follows`). The work is to show that a
turn takes just one more frame with all the junk before it: the first start in the
buffer is the start of the next frame, though it may stand across two items, and the
first end accepted is the end of that frame, though its data may hold such bytes
(`Framable`). `Settled` says what the loop leaves in the buffer between segments:
no complete frame, so that at the end of the stream nothing is missing. For beesure
`LengthKept` ties `datalen` to the header that the buffer starts with. For the line
iterator `UzInv` adds to the property that once the decoder is gone nothing is to come
and less than one read is left.
What `FlattenSeq` computes, and where each of its pieces ends, is in `SequenceFacts`.

**Responders.** `AnsweredOnce` is not inductive, as a message may still wait in one or
two SUB sockets when it has been answered. `InCharge` says which program is to
answer which class: it rests on the tables of classes, whose numbers and names are
shown to be distinct (`ZxNumbers`, `BsNames`), so that the class found for a packet
is the one it was sent as. Then `AnswerInv` (what termconfig has yet to see has no
response), `ReportInv` (what the rectifier has yet to see comes after all it has
reported), `TurnInv` (the message whose turn is half done comes between the two) and
`TellInv` (an approximate location that was answered was reported, or the turn is half
done, or was cut there) carry each other.

**Commands and Zmsg.** `CommandInv` is the property and what was typed; the argument is
about `class_by_prefix`: with one class found it is the only one that starts so, and
among several only the exact name is taken. Names of zx303 are never found
(`ZxFindsNone`, the deviation above). `BusInv` says that what is received is what was
packed. That fields of equal width filled up with NUL tell their contents apart
(`FieldInjective`) makes prefix matching exact, and that a field is stripped to what
was put in (`FieldStripped`), at the place where it was put (`Layout`, `BcastLayout`),
makes decoding the inverse of packing (`ImeiRead`, `PmodRead`, `PeerRead`). A name goes
through two cuts; as a character has at least one byte, the first, in characters, never
takes a byte that the second would keep (`CutField`), so the field is the first bytes of
the name and ends inside a character just when one begins at its last byte (`BrokenName`).

The inductive invariants were checked with TLC on the constants of the runs before
they were proved, except `ZxInv` and `BsInv`, whose `Heads` is a `CHOOSE` that TLC
cannot evaluate.

Every invariant and action property of the passing runs is a theorem. Model-checked
only are the nine liveness properties (`HangupNoticed`, `PushHandled`,
`ConnectionServed`, `GwHangupNoticed`, `SubscriptionsSettle`, `GwConnectionServed`,
`LoopsEnd`, `BothServe`, `EveryRequestAnswered`), as fairness is beyond the prover, and
the five violations. The library's induction theorems cannot be used by the provers at
hand, but induction stated over a set can (`SetInduction` of `SequenceFacts`, from the
well-foundedness of `<`).

## Not modelled

* The byte layouts of payloads in `zx303proto.py` and `beesure.py`, beyond whether
  one can be decoded and packed: pure functions of one packet, without state.
* `googlemaps.py`, a call of an external service; its outcome is `Lookups`.
* `qry.py`, `watch.py`, `mkgpx.py`: they print what they read.
* The web page; as a peer it is in the environment of `Wsgateway`.
* sqlite's busy timeout in the event store (a writer waits; in `CellDb` it is
  `Locked`), the start limits of systemd, reading of the configuration, logging,
  and the metaclass of `protomodule.py`.

## Plan

1. `Collector`, `TerminalDirectory` and their proofs; `CommandPath`;
   `Wsgateway`. *Done.*
2. The event store, the cell database, the deframers, the line iterator, the
   responders, commands and the bus. *Done.*
3. Theorems about `Wsgateway`, `InitDb`, `CellDb`, `Storage` and `Responders`.
   *Done.*
4. Theorems about the streams, commands and the bus, and about the backlog. *Done.*
5. Left: the daemons composed, with an abstract specification of delivery: a report
   is stored and shown.
