------------------------------ MODULE Wsgateway ------------------------------
(***************************************************************************)
(* The websocket gateway (src/loctrkd/wsgateway.py): one poll loop that    *)
(* serves browsers.  A browser subscribes to IMEIs, gets the last stored   *)
(* locations of each (the backlog) and then the reports that the rectifier *)
(* publishes; it may also send commands to terminals.                      *)
(*                                                                         *)
(* A connection is a slot of Conns: the socket and its Client object.  The *)
(* unit of data is one websocket frame; a segment is what one sock.recv    *)
(* returns.  Reports of one IMEI are numbered in the order of publication, *)
(* which is also the order of their devtime.                               *)
(***************************************************************************)
EXTENDS Naturals, Sequences, SequencesExt

CONSTANTS
  Conns,        \* connections of browsers
  Fds,          \* file descriptors for them
  Imeis,        \* terminals
  Segments,     \* what a browser may send
  Numback,      \* the number of stored locations a browser asks for
  SndBuf,       \* frames that the kernel buffers for a browser
  MaxReports,   \* bound: reports per IMEI
  MaxSub,       \* bound: reports waiting in the SUB socket
  None, NoConn, NoFd

\* What a browser sends: "subscribe" with a list of IMEIs, "command" with one
\* IMEI, "ping", "close".
Frames == [kind : {"subscribe", "ping", "close"}, imeis : Seq(Imeis)]
            \cup [kind : {"command"}, imeis : {<<i>> : i \in Imeis}]

ASSUME GwInputs ==
  /\ Segments \subseteq [kind : {"upgrade", "http", "bad", "frames"}, frames : Seq(Frames)]
  /\ Numback \in Nat /\ SndBuf \in Nat \ {0} /\ MaxReports \in Nat
  /\ NoConn \notin Conns /\ NoFd \notin Fds /\ None \notin Imeis

\* What the gateway sends.  A report is number n of its IMEI; asker is the
\* browser that asked for it when it comes from the backlog.
Items == [kind : {"accept", "pong", "close", "report", "result"}, imei : Imeis \cup {None},
          n : Nat, asker : Conns \cup {NoConn}]

VARIABLES
  by_fd,       \* Clients.by_fd
  \* class Client
  sockfd,      \* sock.fileno()
  ws,          \* WSConnection: not upgraded, open, or closed by the browser;
               \* Client.ready is ws # "new"
  imeis,       \* Client.imeis
  ws_data,     \* Client.ws_data
  \* the kernel, the browsers, the rest of the system
  backlogged,  \* connections waiting for accept()
  wire,        \* segments not read yet
  hup,         \* the browser has closed the connection
  out,         \* frames in the send buffer of the kernel
  zsub,        \* reports waiting in the SUB socket
  published,   \* number of reports the rectifier has published of an IMEI
  stored,      \* number of them that storage has stored
  \* locals of runserver
  activesubs,  \* IMEIs the SUB socket is subscribed to
  pc,          \* in poll, in the body of the loop, in clients.write
  events,      \* what poll returned and is not handled yet
  tosend, topoll, tostop, towrite, towait,
  trywrite,    \* what clients.write is called with
  writing,     \* the part of it still to be done
  sending,     \* the descriptor whose sock.send is waiting for room
  morewait,    \* what it has found busy
  poller,      \* client descriptors registered with the poller
  pollout      \* those of them registered for POLLOUT too

clientvars == <<by_fd, sockfd, ws, imeis, ws_data>>
netvars    == <<backlogged, wire, hup, out>>
busvars    == <<zsub, published, stored>>
iteration  == <<tosend, topoll, tostop, towrite, towait>>
writevars  == <<trywrite, writing, sending, morewait, poller, pollout>>
vars       == <<clientvars, netvars, busvars, activesubs, pc, events, iteration, writevars>>

NoEvents == [zsub |-> FALSE, tcp |-> FALSE, fds |-> {}, out |-> {}]

served == {c \in Conns : sockfd[c] # NoFd /\ by_fd[sockfd[c]] = c}

GwTypeOK ==
  /\ by_fd \in [Fds -> Conns \cup {NoConn}]
  /\ sockfd \in [Conns -> Fds \cup {NoFd}]
  /\ ws \in [Conns -> {"new", "open", "closed"}]
  /\ imeis \in [Conns -> SUBSET Imeis]
  /\ ws_data \in [Conns -> Seq(Items)]
  /\ backlogged \in Seq(Conns)
  /\ wire \in [Conns -> Seq(Segments)]
  /\ hup \in [Conns -> BOOLEAN]
  /\ out \in [Conns -> 0..SndBuf]
  /\ zsub \in Seq(Items)
  /\ published \in [Imeis -> 0..MaxReports]
  /\ stored \in [Imeis -> 0..MaxReports]
  /\ activesubs \in SUBSET Imeis
  /\ pc \in {"poll", "body", "write", "dead"}
  /\ events \in [zsub : BOOLEAN, tcp : BOOLEAN, fds : SUBSET Fds, out : SUBSET Fds]
  /\ tosend \in Seq([to : Conns \cup {NoConn}, item : Items])
  /\ topoll \in SUBSET Conns
  /\ tostop \cup towrite \cup towait \cup trywrite \cup writing \cup morewait \cup poller \cup pollout
       \subseteq Fds
  /\ sending \in Fds \cup {NoFd}

-----------------------------------------------------------------------------
Init ==
  /\ by_fd = [fd \in Fds |-> NoConn]
  /\ sockfd = [c \in Conns |-> NoFd]
  /\ ws = [c \in Conns |-> "new"]
  /\ imeis = [c \in Conns |-> {}]
  /\ ws_data = [c \in Conns |-> <<>>]
  /\ backlogged = <<>>
  /\ wire = [c \in Conns |-> <<>>]
  /\ hup = [c \in Conns |-> FALSE]
  /\ out = [c \in Conns |-> 0]
  /\ zsub = <<>>
  /\ published = [i \in Imeis |-> 0]
  /\ stored = [i \in Imeis |-> 0]
  /\ activesubs = {}
  /\ pc = "poll"
  /\ events = NoEvents
  /\ tosend = <<>>
  /\ topoll = {}
  /\ tostop = {} /\ towrite = {} /\ towait = {}
  /\ trywrite = {} /\ writing = {} /\ sending = NoFd /\ morewait = {}
  /\ poller = {} /\ pollout = {}

-----------------------------------------------------------------------------
(* The environment: browsers, the rectifier, storage.                      *)

Live(c) == sockfd[c] # NoFd \/ c \in Range(backlogged)

Connect(c) ==
  /\ ~Live(c)
  /\ backlogged' = Append(backlogged, c)
  /\ UNCHANGED <<clientvars, wire, hup, out, busvars, activesubs, pc, events, iteration, writevars>>

\* A browser upgrades first, sends frames when the gateway has accepted that,
\* and nothing after a close.  It waits until a segment is read.  What makes recv
\* raise, "bad", it may send before and after.
BrowserSend(c, seg) ==
  /\ c \in served /\ ~hup[c] /\ wire[c] = <<>>
  /\ CASE seg.kind = "frames" -> ws[c] = "open"
       [] seg.kind = "bad" -> ws[c] \in {"new", "open"}
       [] OTHER -> ws[c] = "new"
  /\ wire' = [wire EXCEPT ![c] = <<seg>>]
  /\ UNCHANGED <<clientvars, backlogged, hup, out, busvars, activesubs, pc, events, iteration,
                 writevars>>

Hangup(c) ==
  /\ Live(c) /\ ~hup[c]
  /\ hup' = [hup EXCEPT ![c] = TRUE]
  /\ out' = [out EXCEPT ![c] = 0]
  /\ UNCHANGED <<clientvars, backlogged, wire, busvars, activesubs, pc, events, iteration, writevars>>

\* The browser reads a frame.
Drain(c) ==
  /\ out[c] > 0
  /\ out' = [out EXCEPT ![c] = @ - 1]
  /\ UNCHANGED <<clientvars, backlogged, wire, hup, busvars, activesubs, pc, events, iteration,
                 writevars>>

Report(i, k, by) == [kind |-> "report", imei |-> i, n |-> k, asker |-> by]

\* The rectifier publishes a report; it reaches a SUB socket that is
\* subscribed to the IMEI.
Publish(i) ==
  /\ published[i] < MaxReports /\ Len(zsub) < MaxSub
  /\ published' = [published EXCEPT ![i] = @ + 1]
  /\ zsub' = IF i \in activesubs /\ pc # "dead"
             THEN Append(zsub, Report(i, published'[i], NoConn)) ELSE zsub
  /\ UNCHANGED <<clientvars, netvars, stored, activesubs, pc, events, iteration, writevars>>

\* storage stores them, in the same order, at its own pace.
Store(i) ==
  /\ stored[i] < published[i]
  /\ stored' = [stored EXCEPT ![i] = @ + 1]
  /\ UNCHANGED <<clientvars, netvars, zsub, published, activesubs, pc, events, iteration, writevars>>

-----------------------------------------------------------------------------
(* Client.recv and what runserver makes of the messages it returns.        *)

Reply(kind) == [kind |-> kind, imei |-> None, n |-> 0, asker |-> NoConn]

\* backlog(): the last Numback stored reports, in order.
Backlog(i, c) ==
  LET first == IF stored[i] > Numback THEN stored[i] - Numback ELSE 0
  IN  [k \in 1..(stored[i] - first) |-> [to |-> c, item |-> Report(i, first + k, c)]]

\* The result of a command (sendcmd) for its IMEI.
Result(i, c) == <<[to |-> c, item |-> [kind |-> "result", imei |-> i, n |-> 0, asker |-> c]]>>

\* runserver: what is to be sent to c for one message, and for those among its frames.
Answer(f, c) ==
  IF f.kind = "subscribe" THEN FlattenSeq([k \in 1..Len(f.imeis) |-> Backlog(f.imeis[k], c)])
  ELSE IF f.kind = "command" THEN Result(f.imeis[1], c)
  ELSE <<>>
Answers(frames, c) == FlattenSeq([k \in 1..Len(frames) |-> Answer(frames[k], c)])

\* Client.recv: replies to control frames go to ws_data at once.
Control(f) ==
  IF f.kind = "ping" THEN <<Reply("pong")>> ELSE IF f.kind = "close" THEN <<Reply("close")>> ELSE <<>>
Replies(frames) == FlattenSeq([k \in 1..Len(frames) |-> Control(frames[k])])

\* Client.recv: each subscription replaces the one before.
Subscribed(frames, old) ==
  LET at == {k \in 1..Len(frames) : frames[k].kind = "subscribe"}
  IN  IF at = {} THEN old ELSE Range(frames[Max(at)].imeis)

Closes(frames) == \E k \in 1..Len(frames) : frames[k].kind = "close"

-----------------------------------------------------------------------------
(* runserver: the poll loop.                                               *)

\* Clients.subs()
subs == UNION {imeis[c] : c \in served}

Room(c) == SndBuf - out[c]
Readable(fd) == \E c \in Conns : sockfd[c] = fd /\ (wire[c] # <<>> \/ hup[c])
Writable(fd) == \E c \in Conns : sockfd[c] = fd /\ Room(c) > 0

\* Mutant: the listening socket is looked at when no browser has anything.
PollBrowsersFirst ==
  /\ pc = "poll"
  /\ LET ready == {fd \in poller : Readable(fd)} IN
       events' = [zsub |-> zsub # <<>>, tcp |-> backlogged # <<>> /\ ready = {}, fds |-> ready,
                  out |-> {fd \in pollout : Writable(fd) /\ ~Readable(fd)}]
  /\ events' # NoEvents
  /\ pc' = "body"
  /\ UNCHANGED <<clientvars, netvars, busvars, activesubs, iteration, writevars>>

\* poller.poll() has no timeout.  POLLIN of a descriptor takes precedence.
Poll ==
  /\ pc = "poll"
  /\ events' = [zsub |-> zsub # <<>>, tcp |-> backlogged # <<>>,
                fds |-> {fd \in poller : Readable(fd)},
                out |-> {fd \in pollout : Writable(fd) /\ ~Readable(fd)}]
  /\ events' # NoEvents
  /\ pc' = "body"
  /\ UNCHANGED <<clientvars, netvars, busvars, activesubs, iteration, writevars>>

\* All reports that wait are taken; each is for whoever wants it.
TakeZsub ==
  /\ pc = "body" /\ events.zsub
  /\ tosend' = tosend \o [k \in 1..Len(zsub) |-> [to |-> NoConn, item |-> zsub[k]]]
  /\ zsub' = <<>>
  /\ events' = [events EXCEPT !.zsub = FALSE]
  /\ UNCHANGED <<clientvars, netvars, published, stored, activesubs, pc, topoll, tostop, towrite,
                 towait, writevars>>

AcceptTurn == pc = "body" /\ ~events.zsub /\ events.tcp

Accept(fd) ==
  /\ AcceptTurn
  /\ \A c \in Conns : sockfd[c] # fd
  /\ sockfd' = [sockfd EXCEPT ![Head(backlogged)] = fd]
  /\ topoll' = topoll \cup {Head(backlogged)}
  /\ backlogged' = Tail(backlogged)
  /\ events' = [events EXCEPT !.tcp = FALSE]
  /\ UNCHANGED <<by_fd, ws, imeis, ws_data, wire, hup, out, busvars, activesubs, pc, tosend, tostop,
                 towrite, towait, writevars>>

\* tcpl.accept() raises when the process has no descriptor left, as it must when all of
\* Fds are taken, or the system has none; nothing catches it.
AcceptFails ==
  /\ AcceptTurn
  /\ pc' = "dead"
  /\ UNCHANGED <<clientvars, netvars, busvars, activesubs, events, iteration, writevars>>

ReadTurn(fd) == pc = "body" /\ ~events.zsub /\ ~events.tcp /\ fd \in events.fds

\* A segment of the given kind is read from the browser at fd.
RecvSegment(fd, kind) ==
  /\ ReadTurn(fd)
  /\ wire[by_fd[fd]] # <<>> /\ Head(wire[by_fd[fd]]).kind = kind
  /\ wire' = [wire EXCEPT ![by_fd[fd]] = Tail(@)]
  /\ UNCHANGED <<by_fd, sockfd, backlogged, hup, busvars, activesubs, topoll, writevars>>

\* Mutant: the end of the connection is taken for a read without messages.
RecvEofIgnored(fd) ==
  /\ ReadTurn(fd) /\ wire[by_fd[fd]] = <<>> /\ hup[by_fd[fd]]
  /\ towrite' = towrite \cup {fd}
  /\ events' = [events EXCEPT !.fds = @ \ {fd}]
  /\ UNCHANGED <<clientvars, netvars, busvars, activesubs, pc, tosend, topoll, tostop, towait,
                 writevars>>

\* EOF or an error: the browser is gone.
RecvEof(fd) ==
  /\ ReadTurn(fd) /\ wire[by_fd[fd]] = <<>> /\ hup[by_fd[fd]]
  /\ tostop' = tostop \cup {fd}
  /\ towait' = towait \ {fd}
  /\ events' = [events EXCEPT !.fds = @ \ {fd}]
  /\ UNCHANGED <<clientvars, netvars, busvars, activesubs, pc, tosend, topoll, towrite, writevars>>

\* Mutant: the reply to the upgrade is left until there is something else.
RecvUpgradeUnwritten(fd) ==
  /\ RecvSegment(fd, "upgrade")
  /\ ws' = [ws EXCEPT ![by_fd[fd]] = "open"]
  /\ ws_data' = [ws_data EXCEPT ![by_fd[fd]] = Append(@, Reply("accept"))]
  /\ events' = [events EXCEPT !.fds = @ \ {fd}]
  /\ UNCHANGED <<imeis, out, pc, tosend, tostop, towrite, towait>>

RecvUpgrade(fd) ==
  /\ RecvSegment(fd, "upgrade")
  /\ ws' = [ws EXCEPT ![by_fd[fd]] = "open"]
  /\ ws_data' = [ws_data EXCEPT ![by_fd[fd]] = Append(@, Reply("accept"))]
  /\ towrite' = towrite \cup {fd}
  /\ events' = [events EXCEPT !.fds = @ \ {fd}]
  /\ UNCHANGED <<imeis, out, pc, tosend, tostop, towait>>

\* Plain http: the response is written at once and the connection ends.
RecvHttp(fd) ==
  /\ RecvSegment(fd, "http")
  /\ out' = [out EXCEPT ![by_fd[fd]] = IF hup[by_fd[fd]] THEN @ ELSE @ + 1]
  /\ tostop' = tostop \cup {fd}
  /\ towait' = towait \ {fd}
  /\ events' = [events EXCEPT !.fds = @ \ {fd}]
  /\ UNCHANGED <<ws, imeis, ws_data, pc, tosend, towrite>>

\* Neither websocket nor http: try_http raises.  So does a text that is no json, loads,
\* or no dictionary, get, or a list of IMEIs that is none, set.  Nothing catches it.
RecvBad(fd) ==
  /\ RecvSegment(fd, "bad")
  /\ pc' = "dead"
  /\ UNCHANGED <<ws, imeis, ws_data, out, events, tosend, tostop, towrite, towait>>

RecvFrames(fd) ==
  /\ RecvSegment(fd, "frames")
  /\ LET c == by_fd[fd]
         frames == Head(wire[c]).frames
     IN /\ ws' = [ws EXCEPT ![c] = IF Closes(frames) THEN "closed" ELSE @]
        /\ ws_data' = [ws_data EXCEPT ![c] = @ \o Replies(frames)]
        /\ imeis' = [imeis EXCEPT ![c] = Subscribed(frames, @)]
        /\ tosend' = tosend \o Answers(frames, c)
  /\ towrite' = towrite \cup {fd}
  /\ events' = [events EXCEPT !.fds = @ \ {fd}]
  /\ UNCHANGED <<out, pc, tostop, towait>>

Recv(fd) ==
  \/ RecvEof(fd)
  \/ RecvUpgrade(fd)
  \/ RecvHttp(fd)
  \/ RecvBad(fd)
  \/ RecvFrames(fd)

\* "poll queue consumed, make changes now"
Consumed == pc = "body" /\ ~events.zsub /\ ~events.tcp /\ events.fds = {}

\* Mutant: before the first subscription the set holds the absent IMEI.
ConstructUnsubscribed(C) ==
  /\ ws' = [c \in Conns |-> IF c \in C THEN "new" ELSE ws[c]]
  /\ imeis' = [c \in Conns |-> IF c \in C THEN {None} ELSE imeis[c]]
  /\ ws_data' = [c \in Conns |-> IF c \in C THEN <<>> ELSE ws_data[c]]

\* Client.__init__: what a Client object starts from, and what a slot goes back
\* to when its object is dropped.
Construct(C) ==
  /\ ws' = [c \in Conns |-> IF c \in C THEN "new" ELSE ws[c]]
  /\ imeis' = [c \in Conns |-> IF c \in C THEN {} ELSE imeis[c]]
  /\ ws_data' = [c \in Conns |-> IF c \in C THEN <<>> ELSE ws_data[c]]

\* Mutant: the poller is not told.
StopStillPolled ==
  /\ Consumed /\ tostop # {}
  /\ LET gone == {by_fd[fd] : fd \in tostop} IN
       /\ sockfd' = [c \in Conns |-> IF c \in gone THEN NoFd ELSE sockfd[c]]
       /\ wire' = [c \in Conns |-> IF c \in gone THEN <<>> ELSE wire[c]]
       /\ hup' = [c \in Conns |-> IF c \in gone THEN FALSE ELSE hup[c]]
       /\ out' = [c \in Conns |-> IF c \in gone THEN 0 ELSE out[c]]
       /\ Construct(gone)
  /\ by_fd' = [fd \in Fds |-> IF fd \in tostop THEN NoConn ELSE by_fd[fd]]
  /\ tostop' = {}
  /\ UNCHANGED <<backlogged, busvars, activesubs, pc, events, tosend, topoll, towrite, towait,
                 writevars>>

\* Clients.stop for every descriptor of tostop.
Stop ==
  /\ Consumed /\ tostop # {}
  /\ LET gone == {by_fd[fd] : fd \in tostop} IN
       /\ sockfd' = [c \in Conns |-> IF c \in gone THEN NoFd ELSE sockfd[c]]
       /\ wire' = [c \in Conns |-> IF c \in gone THEN <<>> ELSE wire[c]]
       /\ hup' = [c \in Conns |-> IF c \in gone THEN FALSE ELSE hup[c]]
       /\ out' = [c \in Conns |-> IF c \in gone THEN 0 ELSE out[c]]
       /\ Construct(gone)
  /\ by_fd' = [fd \in Fds |-> IF fd \in tostop THEN NoConn ELSE by_fd[fd]]
  /\ poller' = poller \ tostop
  /\ pollout' = pollout \ tostop
  /\ tostop' = {}
  /\ UNCHANGED <<backlogged, busvars, activesubs, pc, events, tosend, topoll, towrite, towait,
                 trywrite, writing, sending, morewait>>

\* Mutant: what one asked for goes to everybody who wants it.
RecipientsAll(msg) == {c \in served : msg.item.imei \in imeis[c]}

\* Clients.send: to every client that wants it, or to the one it is for if
\* that is still in service.
Recipients(msg) ==
  IF msg.to = NoConn THEN {c \in served : msg.item.imei \in imeis[c]}
  ELSE served \cap {msg.to}

\* Mutant: the subscription is not looked at.
TakesAnything(c, item) == ws[c] # "new"

\* Client.send: a client that has upgraded and is subscribed to the IMEI.
Takes(c, item) == ws[c] # "new" /\ item.imei \in imeis[c]

Takers(msg) == {c \in Recipients(msg) : Takes(c, msg.item)}

SendTurn == Consumed /\ tostop = {} /\ tosend # <<>>

Send ==
  /\ SendTurn
  /\ \A c \in Takers(Head(tosend)) : ws[c] = "open"
  /\ LET msg == Head(tosend) IN
       /\ ws_data' = [c \in Conns |-> IF c \in Takers(msg) THEN Append(ws_data[c], msg.item)
                                      ELSE ws_data[c]]
       /\ towrite' = towrite \cup {sockfd[c] : c \in Recipients(msg)}
  /\ tosend' = Tail(tosend)
  /\ UNCHANGED <<by_fd, sockfd, ws, imeis, netvars, busvars, activesubs, pc, events, topoll, tostop,
                 towait, writevars>>

\* WSConnection.send raises LocalProtocolError after the close handshake;
\* nothing catches it.
SendFails ==
  /\ SendTurn
  /\ \E c \in Takers(Head(tosend)) : ws[c] = "closed"
  /\ pc' = "dead"
  /\ UNCHANGED <<clientvars, netvars, busvars, activesubs, events, iteration, writevars>>

\* Clients.add for the accepted sockets, then what is to be written.  The
\* POLLOUT events add to towrite and take out of towait.
BeginWrite ==
  /\ Consumed /\ tostop = {} /\ tosend = <<>>
  /\ by_fd' = [fd \in Fds |-> IF \E c \in topoll : sockfd[c] = fd
                              THEN CHOOSE c \in topoll : sockfd[c] = fd ELSE by_fd[fd]]
  /\ Construct(topoll)
  /\ poller' = poller \cup {sockfd[c] : c \in topoll}
  /\ towait' = towait \ events.out
  /\ trywrite' = (towrite \cup events.out) \ towait'
  /\ writing' = trywrite'
  /\ towrite' = {} /\ topoll' = {}
  /\ events' = NoEvents
  /\ pc' = "write"
  /\ UNCHANGED <<sockfd, netvars, busvars, activesubs, tosend, tostop, sending, morewait, pollout>>

\* What sock.send takes of n frames at once.
Sent(c, n) == IF n < Room(c) THEN n ELSE Room(c)

\* Client.write for the clients of trywrite, one after the other in the order
\* of a set.  A send that waits for room goes on when the browser has read.
WriteTurn(fd) ==
  /\ pc = "write"
  /\ sending = fd \/ (sending = NoFd /\ fd \in writing)
  /\ writing' = writing \ {fd}
  /\ UNCHANGED <<by_fd, sockfd, ws, imeis, backlogged, wire, hup, busvars, activesubs, pc, events,
                 iteration, trywrite, poller, pollout>>

Pending(fd) == IF by_fd[fd] = NoConn THEN <<>> ELSE ws_data[by_fd[fd]]

WriteNothing(fd) ==
  /\ WriteTurn(fd) /\ Pending(fd) = <<>>
  /\ UNCHANGED <<ws_data, out, sending, morewait>>

\* sock.send takes what there is room for and waits until the rest has gone
\* too: the sockets block, as accept() on Linux does not hand the O_NONBLOCK of
\* the listening socket on.
WriteSome(fd) ==
  /\ WriteTurn(fd) /\ Pending(fd) # <<>> /\ ~hup[by_fd[fd]]
  /\ LET c == by_fd[fd]
         k == Sent(c, Len(ws_data[c]))
     IN /\ k > 0 \/ sending = NoFd
        /\ ws_data' = [ws_data EXCEPT ![c] = SubSeq(@, k + 1, Len(@))]
        /\ out' = [out EXCEPT ![c] = @ + k]
        /\ sending' = IF k < Len(ws_data[c]) THEN fd ELSE NoFd
  /\ UNCHANGED morewait

\* The browser is gone: an OSError drops the data, or the kernel takes it and
\* drops it.
WriteFails(fd) ==
  /\ WriteTurn(fd) /\ Pending(fd) # <<>> /\ hup[by_fd[fd]]
  /\ ws_data' = [ws_data EXCEPT ![by_fd[fd]] = <<>>]
  /\ sending' = NoFd
  /\ UNCHANGED <<out, morewait>>

\* The browser goes away while sock.send waits: send returns what it had taken.
WriteCutShort(fd) ==
  /\ WriteTurn(fd) /\ sending = fd /\ hup[by_fd[fd]]
  /\ sending' = NoFd
  /\ morewait' = morewait \cup {fd}
  /\ UNCHANGED <<ws_data, out>>

Write(fd) ==
  \/ WriteNothing(fd)
  \/ WriteSome(fd)
  \/ WriteFails(fd)
  \/ WriteCutShort(fd)

\* Descriptors to ask POLLOUT for, "new fds waiting for write".
NewlyWaiting == morewait \ trywrite

\* Descriptors "no longer waiting for write".
NoLongerWaiting == trywrite \ morewait

\* Mutant: nothing is unsubscribed.
SubscribedKept(active, needed) == active \cup needed

\* The top of the loop subscribes to what is needed and not active and
\* unsubscribes from what is active and not needed.
SubscribedTo(active, needed) == (active \cup (needed \ active)) \ (active \ needed)

\* The poller is told; its modify() registers what is not registered.  Back
\* at its top the loop brings the subscriptions of the SUB socket up to date.
EndWrite ==
  /\ pc = "write" /\ writing = {} /\ sending = NoFd
  /\ poller' = poller \cup NewlyWaiting \cup NoLongerWaiting
  /\ pollout' = (pollout \cup NewlyWaiting) \ NoLongerWaiting
  /\ towait' = (towait \cap trywrite) \cup morewait
  /\ trywrite' = {} /\ morewait' = {}
  /\ activesubs' = SubscribedTo(activesubs, subs)
  /\ pc' = "poll"
  /\ UNCHANGED <<clientvars, netvars, busvars, events, tosend, topoll, tostop, towrite,
                 writing, sending>>

\* systemd starts the daemon again; its connections are gone.
Restart ==
  /\ pc = "dead"
  /\ by_fd' = [fd \in Fds |-> NoConn]
  /\ sockfd' = [c \in Conns |-> NoFd]
  /\ ws' = [c \in Conns |-> "new"]
  /\ imeis' = [c \in Conns |-> {}]
  /\ ws_data' = [c \in Conns |-> <<>>]
  /\ backlogged' = <<>>
  /\ wire' = [c \in Conns |-> <<>>]
  /\ hup' = [c \in Conns |-> FALSE]
  /\ out' = [c \in Conns |-> 0]
  /\ zsub' = <<>>
  /\ activesubs' = {}
  /\ pc' = "poll"
  /\ events' = NoEvents
  /\ tosend' = <<>>
  /\ topoll' = {}
  /\ tostop' = {} /\ towrite' = {} /\ towait' = {}
  /\ trywrite' = {} /\ writing' = {} /\ sending' = NoFd /\ morewait' = {}
  /\ poller' = {} /\ pollout' = {}
  /\ UNCHANGED <<published, stored>>

-----------------------------------------------------------------------------
Loop ==
  \/ Poll
  \/ TakeZsub
  \/ AcceptFails
  \/ \E fd \in Fds : Accept(fd) \/ Recv(fd) \/ Write(fd)
  \/ Stop
  \/ Send
  \/ SendFails
  \/ BeginWrite
  \/ EndWrite

Browsers ==
  \E c \in Conns :
    \/ Connect(c)
    \/ \E seg \in Segments : BrowserSend(c, seg)
    \/ Hangup(c)
    \/ Drain(c)

Next ==
  \/ Browsers
  \/ \E i \in Imeis : Publish(i) \/ Store(i)
  \/ Loop
  \/ Restart

Spec == Init /\ [][Next]_vars

\* The process runs and is restarted.  Nothing is promised of the browsers.
FairSpec == Spec /\ WF_vars(Loop) /\ WF_vars(Restart)

\* As above, with browsers that read what they are sent.
ReadingSpec == FairSpec /\ \A c \in Conns : WF_vars(Drain(c))

-----------------------------------------------------------------------------
(* Properties.                                                             *)

\* The poller watches the browsers that are served, at the descriptors of
\* their open sockets, and nothing else, when the loop comes to poll: although
\* modify() of a descriptor that was unregistered would register it again
\* (wsgateway.py:369-377, 387-390).
GwPollerTracksClients ==
  pc = "poll" =>
    /\ poller = {fd \in Fds : by_fd[fd] # NoConn}
    /\ \A c \in Conns : sockfd[c] # NoFd => by_fd[sockfd[c]] = c
    /\ pollout \cup towait \subseteq poller

\* When the loop comes back to poll, nothing that was put in ws_data of a
\* served browser is left there, replies to handshakes and pings and the
\* backlog included: nothing waits for a later event
\* (wsgateway.py:361, 374, 379-392).
NothingLeftBehind ==
  pc = "poll" => \A c \in served : ws_data[c] = <<>> \/ hup[c]

\* Backlog and results of commands go to the browser that asked, also when
\* its descriptor is used again (wsgateway.py:219-237; changelog 1.96, "Send
\* backlog only the the ws client that requested").
AskedForByRecipient ==
  \A c \in Conns : \A k \in 1..Len(ws_data[c]) : ws_data[c][k].asker \in {c, NoConn}

\* "Each subscription request nullifies preexisting list" (README): what is
\* queued for a browser about an IMEI is about one it is subscribed to at
\* that moment, even when its backlog was collected for an earlier list.
OnlyCurrentSubscription ==
  [][\A c \in Conns : Len(ws_data'[c]) > Len(ws_data[c]) =>
       \A k \in (Len(ws_data[c]) + 1)..Len(ws_data'[c]) :
         ws_data'[c][k].kind \in {"report", "result"} => ws_data'[c][k].imei \in imeis[c]]_vars

\* The end of a browser's connection is noticed, provided browsers read.
GwHangupNoticed == \A c \in Conns : hup[c] ~> ~hup[c]

\* A connection is accepted in its turn, although reading browsers and waiting
\* reports come in the same loop, and the daemon dies when descriptors run out.
GwConnectionServed ==
  \A c \in Conns : c \in Range(backlogged) ~> c \notin Range(backlogged)

\* The subscriptions of the SUB socket come to agree with what the browsers that
\* are served ask for: none is missing for ever, and a browser that is gone or
\* has subscribed anew leaves none behind, provided browsers read
\* (wsgateway.py:313-318).
SubscriptionsSettle ==
  \A i \in Imeis : /\ i \in subs ~> i \in activesubs \/ i \notin subs
                   /\ i \in activesubs \ subs ~> i \notin activesubs \ subs

\* GwHangupNoticed whatever the other browsers do: one that does not read, "write-
\* busy", is handled and does not keep the gateway from serving the others.
BusyBrowserHarmsNobody == \A c \in Conns : hup[c] ~> ~hup[c]

\* "new fds waiting for write" (wsgateway.py:387) are polled for POLLOUT, so
\* that the rest of their data is written when there is room.
WaitersArePolled == pc = "poll" => towait \subseteq pollout

\* "It then continues to send further messages when they are received" (README):
\* from the moment its subscription is handled, which is when its backlog is
\* fetched, every report of the IMEI reaches the gateway for the browser.
NoReportFallsBetween ==
  [][\A i \in Imeis : (published'[i] # published[i] /\ \E c \in served : i \in imeis[c] /\ ~hup[c])
       => zsub' # zsub]_vars

=============================================================================
