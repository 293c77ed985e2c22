------------------------------ MODULE Collector ------------------------------
(***************************************************************************)
(* The collector daemon (src/loctrkd/collector.py): one poll loop that     *)
(* accepts TCP connections of terminals, reads and deframes their packets, *)
(* publishes each packet on a ZMQ PUB socket and sends to a terminal, by   *)
(* IMEI, the responses that other daemons push to its ZMQ PULL socket.     *)
(*                                                                         *)
(* A connection is a slot of Conns: the socket and its Client object.  A   *)
(* slot that is closed may be connected again.  A segment, the bytes one   *)
(* sock.recv returns, is the verdict of probing it and the packets it      *)
(* completes; of a packet only what the collector looks at is kept.        *)
(***************************************************************************)
EXTENDS Naturals, Sequences

CONSTANTS
  Conns,            \* connections of terminals
  Fds,              \* file descriptors the process may have for them
  Imeis,            \* identities of terminals
  Pmods,            \* configured protocol modules
  Segments,         \* what a terminal may send in one TCP segment
  Resps,            \* what other daemons may push
  Strict,           \* protocol modules whose enframe() asserts the packet is theirs
  HandleHibernate,  \* parameter handle_hibernate of runserver
  MaxWire,          \* bound: segments in flight on one connection
  MaxPull,          \* bound: responses waiting in the PULL socket
  MaxDrain,         \* bound: responses one iteration takes from it, one by one
  None, NoConn, NoFd, NoMsg

\* A packet: the IMEI it logs in with, is it a goodbye, has it an inline response.
Packets == [imei : Imeis \cup {None}, bye : BOOLEAN, inl : BOOLEAN]

\* A response: for whom, and the protocol module that built its packet.
Responses == [imei : Imeis \cup {None}, made : Pmods]

\* A broadcast.  The address of the peer stands for its connection; it is left out
\* of the broadcast of a response.
Bcasts == [dir : {"in", "out"}, pmod : Pmods \cup {None}, imei : Imeis \cup {None},
           peeraddr : Conns \cup {NoConn}]

ASSUME NullAssumption ==
  /\ None \notin Imeis \cup Pmods
  /\ NoConn \notin Conns
  /\ NoFd \notin Fds
  /\ NoMsg \notin Bcasts

ASSUME InputsAssumption ==
  /\ Segments \subseteq [probe : Pmods \cup {None}, pkts : Seq(Packets)]
  /\ Resps \subseteq [imei : Imeis, made : Pmods]
  /\ Strict \subseteq Pmods

ASSUME BoundsAssumption ==
  MaxWire \in Nat /\ MaxPull \in Nat /\ MaxDrain \in Nat /\ HandleHibernate \in BOOLEAN

VARIABLES
  \* class Clients
  by_fd,       \* Clients.by_fd: the connection served at a descriptor
  by_imei,     \* Clients.by_imei: the connection of a logged in terminal
  \* class Client
  sockfd,      \* sock.fileno(), NoFd when the socket is not open
  imei,        \* Client.imei
  pmod,        \* Client.pmod (Client.stream is set exactly when this is)
  \* the kernel and the peers
  backlog,     \* connections waiting for accept()
  wire,        \* segments not read yet
  hup,         \* the terminal has closed or reset the connection
  zpull,       \* responses waiting in the PULL socket
  zpub,        \* the message the last step gave to the PUB socket
  \* locals of runserver
  pc,          \* in poll(), in the body of the loop, or the process is dead
  events,      \* the events that poll() returned and are not handled yet
  received,    \* packets of one clients.recv() not handled yet
  tosend,      \* responses to send at the end of the iteration
  toadd,       \* accepted connections to add at the end of the iteration
  pollingfds,  \* descriptors the loop believes it polls
  poller,      \* client descriptors registered with the poller
  lastpmod     \* loop variable pmod, which survives the loop over received

clients == <<by_fd, by_imei, sockfd, imei, pmod>>
net     == <<backlog, wire, hup, zpull>>
loop    == <<pc, events, received, tosend, toadd, pollingfds, poller, lastpmod>>
vars    == <<clients, net, zpub, loop>>

NoEvents == [zpull |-> FALSE, tcp |-> FALSE, fds |-> {}]

\* Clients.fds()
fds == {fd \in Fds : by_fd[fd] # NoConn}

\* A slot is live from the terminal's connect() to the collector's close().
Live(c) == sockfd[c] # NoFd \/ \E k \in 1..Len(backlog) : backlog[k] = c

TypeOK ==
  /\ by_fd \in [Fds -> Conns \cup {NoConn}]
  /\ by_imei \in [Imeis -> Conns \cup {NoConn}]
  /\ sockfd \in [Conns -> Fds \cup {NoFd}]
  /\ imei \in [Conns -> Imeis \cup {None}]
  /\ pmod \in [Conns -> Pmods \cup {None}]
  /\ backlog \in Seq(Conns)
  /\ wire \in [Conns -> Seq(Segments)]
  /\ hup \in [Conns -> BOOLEAN]
  /\ zpull \in Seq(Responses)
  /\ zpub \in Bcasts \cup {NoMsg}
  /\ pc \in {"poll", "body", "dead"}
  /\ events \in [zpull : BOOLEAN, tcp : BOOLEAN, fds : SUBSET Fds]
  /\ received \in Seq([fd : Fds, pmod : Pmods, imei : Imeis \cup {None},
                       peeraddr : Conns, pkt : Packets])
  /\ tosend \in Seq(Responses)
  /\ toadd \in SUBSET Conns
  /\ pollingfds \in SUBSET Fds
  /\ poller \in SUBSET Fds
  /\ lastpmod \in Pmods \cup {None}

-----------------------------------------------------------------------------
\* A fresh process: nothing is served and nothing registered.
Init ==
  /\ by_fd = [fd \in Fds |-> NoConn]
  /\ by_imei = [i \in Imeis |-> NoConn]
  /\ sockfd = [c \in Conns |-> NoFd]
  /\ imei = [c \in Conns |-> None]
  /\ pmod = [c \in Conns |-> None]
  /\ backlog = <<>>
  /\ wire = [c \in Conns |-> <<>>]
  /\ hup = [c \in Conns |-> FALSE]
  /\ zpull = <<>>
  /\ zpub = NoMsg
  /\ pc = "poll"
  /\ events = NoEvents
  /\ received = <<>>
  /\ tosend = <<>>
  /\ toadd = {}
  /\ pollingfds = {}
  /\ poller = {}
  /\ lastpmod = None

-----------------------------------------------------------------------------
(* The environment: terminals, and the daemons that push responses.        *)

Connect(c) ==
  /\ ~Live(c)
  /\ backlog' = Append(backlog, c)
  /\ UNCHANGED <<clients, wire, hup, zpull, zpub, loop>>

TermSend(c, seg) ==
  /\ Live(c) /\ ~hup[c] /\ Len(wire[c]) < MaxWire
  /\ wire' = [wire EXCEPT ![c] = Append(@, seg)]
  /\ UNCHANGED <<clients, backlog, hup, zpull, zpub, loop>>

\* FIN lets the collector read what was sent before it, RST discards it.
Hangup(c, rst) ==
  /\ Live(c) /\ ~hup[c]
  /\ hup' = [hup EXCEPT ![c] = TRUE]
  /\ wire' = [wire EXCEPT ![c] = IF rst THEN <<>> ELSE @]
  /\ UNCHANGED <<clients, backlog, zpull, zpub, loop>>

\* termconfig, wsgateway or the command line pushes a Resp for a terminal.
Push(resp) ==
  /\ pc # "dead" /\ Len(zpull) < MaxPull
  /\ zpull' = Append(zpull, resp)
  /\ UNCHANGED <<clients, backlog, wire, hup, zpub, loop>>

-----------------------------------------------------------------------------
(* Operations of Client and Clients.                                       *)

\* The client served at a descriptor: no element or one.
At(fd) == {c \in Conns : fd \in Fds /\ by_fd[fd] = c}

\* Client.close, when the unread segments are wr.
Close(gone, wr) ==
  /\ sockfd' = [c \in Conns |-> IF c \in gone THEN NoFd ELSE sockfd[c]]
  /\ wire' = [c \in Conns |-> IF c \in gone THEN <<>> ELSE wr[c]]
  /\ hup' = [c \in Conns |-> IF c \in gone THEN FALSE ELSE hup[c]]

\* Mutant: the client is closed and stays in by_fd.
StopKeepsEntry(fd, im, wr) == Close(At(fd), wr) /\ imei' = im /\ UNCHANGED by_fd

\* Clients.stop(fd) when the IMEIs of the clients are im.  It does nothing
\* when no client is served at fd.
Stop(fd, im, wr) ==
  /\ Close(At(fd), wr)
  /\ by_fd' = [f \in Fds |-> IF f = fd THEN NoConn ELSE by_fd[f]]
  /\ imei' = im

\* Mutant: the entry is never deleted.
ForgetNothing(fd, im) == by_imei

\* What the same call leaves of by_imei: the entry of the stopped client goes,
\* unless another client has taken it ("could be replaced").
Forget(fd, im) ==
  [i \in Imeis |-> IF \E c \in At(fd) : im[c] = i /\ by_imei[i] = c
                   THEN NoConn ELSE by_imei[i]]

\* Mutant: each segment is probed.
ProbeAgain(c, seg) == seg.probe

\* Client.recv: the first segment that a protocol module recognises decides.
Probe(c, seg) == IF pmod[c] # None THEN pmod[c] ELSE seg.probe

\* Stream.recv of the connection: its packets, if the segment is of the same
\* protocol or goes on with a frame begun before; else nothing it can deframe.
Deframed(c, seg) == IF seg.probe \in {None, Probe(c, seg)} THEN seg.pkts ELSE <<>>

\* Mutant: a client that has logged in may do so again.
LogsInAgain(c, pkts, k) ==
  /\ pkts[k].imei # None
  /\ \A j \in 1..(k - 1) : pkts[j].imei = None

\* Clients.recv: the k-th of these packets is the one that logs c in.
LogsIn(c, pkts, k) ==
  /\ imei[c] = None
  /\ pkts[k].imei # None
  /\ \A j \in 1..(k - 1) : pkts[j].imei = None

\* Mutant: the protocol is left out until the terminal has logged in.
TaggedAnonymous(fd, pm, pkts, im) ==
  [k \in 1..Len(pkts) |-> [fd |-> fd, pmod |-> IF im[k] = None THEN None ELSE pm,
                           imei |-> im[k], peeraddr |-> by_fd[fd], pkt |-> pkts[k]]]

\* Clients.recv: the list it returns when im[k] is the IMEI known at packet k.
Tagged(fd, pm, pkts, im) ==
  [k \in 1..Len(pkts) |-> [fd |-> fd, pmod |-> pm, imei |-> im[k],
                           peeraddr |-> by_fd[fd], pkt |-> pkts[k]]]

-----------------------------------------------------------------------------
(* runserver: the poll loop.                                               *)

Readable(fd) == \E c \in Conns : sockfd[c] = fd /\ (wire[c] # <<>> \/ hup[c])

\* Mutant: sockets are looked at only when nothing is pushed.
PollPullFirst ==
  /\ pc = "poll"
  /\ pc' = "body"
  /\ events' = [zpull |-> zpull # <<>>, tcp |-> zpull = <<>> /\ backlog # <<>>,
                fds |-> {fd \in poller : zpull = <<>> /\ Readable(fd)}]
  /\ zpub' = NoMsg
  /\ UNCHANGED <<clients, net, received, tosend, toadd, pollingfds, poller, lastpmod>>

\* poller.poll(1000) returns a snapshot, an empty one at the timeout.
Poll ==
  /\ pc = "poll"
  /\ pc' = "body"
  /\ events' = [zpull |-> zpull # <<>>, tcp |-> backlog # <<>>,
                fds |-> {fd \in poller : Readable(fd)}]
  /\ zpub' = NoMsg
  /\ UNCHANGED <<clients, net, received, tosend, toadd, pollingfds, poller, lastpmod>>

\* The loop over zpull.recv(NOBLOCK).  Other daemons may push between two of its turns.
Draining == pc = "body" /\ events.zpull

TakeZpull ==
  /\ Draining /\ zpull # <<>> /\ Len(tosend) < MaxDrain
  /\ tosend' = Append(tosend, Head(zpull))
  /\ zpull' = Tail(zpull)
  /\ zpub' = NoMsg
  /\ UNCHANGED <<clients, backlog, wire, hup,
                 pc, events, received, toadd, pollingfds, poller, lastpmod>>

\* zmq.Again: the socket is empty and the loop ends.
ZpullAgain ==
  /\ Draining /\ zpull = <<>>
  /\ events' = [events EXCEPT !.zpull = FALSE]
  /\ zpub' = NoMsg
  /\ UNCHANGED <<clients, net, pc, received, tosend, toadd, pollingfds, poller, lastpmod>>

\* There is another one whenever the loop looks, and nothing else ends it: from the
\* bound on it takes and takes.
ZpullEndless ==
  /\ Draining /\ zpull # <<>> /\ Len(tosend) >= MaxDrain
  /\ UNCHANGED vars

\* The poller reports zpull, then the listening socket, then clients.
AcceptTurn == pc = "body" /\ ~events.zpull /\ events.tcp

Accept(fd) ==
  /\ AcceptTurn
  /\ \A c \in Conns : sockfd[c] # fd
  /\ sockfd' = [sockfd EXCEPT ![Head(backlog)] = fd]
  /\ toadd' = toadd \cup {Head(backlog)}
  /\ backlog' = Tail(backlog)
  /\ events' = [events EXCEPT !.tcp = FALSE]
  /\ zpub' = NoMsg
  /\ UNCHANGED <<by_fd, by_imei, imei, pmod, wire, hup, zpull,
                 pc, received, tosend, pollingfds, poller, lastpmod>>

\* tcpl.accept() raises when the process has no descriptor left, as it must when all of
\* Fds are taken, or the system has none; nothing catches it.
AcceptFails ==
  /\ AcceptTurn
  /\ pc' = "dead"
  /\ zpub' = NoMsg
  /\ UNCHANGED <<clients, net, events, received, tosend, toadd, pollingfds, poller, lastpmod>>

\* Mutant: a client may be read before the listening socket is served.
ReadTurnEarly(fd) ==
  /\ pc = "body" /\ ~events.zpull /\ received = <<>>
  /\ fd \in events.fds

\* A client's event is next: the packets of the one before it are handled.
ReadTurn(fd) ==
  /\ pc = "body" /\ ~events.zpull /\ ~events.tcp /\ received = <<>>
  /\ fd \in events.fds

\* The client was stopped earlier in this iteration: stop(fd) ignores it too.
RecvGone(fd) ==
  /\ ReadTurn(fd) /\ by_fd[fd] = NoConn
  /\ events' = [events EXCEPT !.fds = @ \ {fd}]
  /\ zpub' = NoMsg
  /\ UNCHANGED <<clients, net, pc, received, tosend, toadd, pollingfds, poller, lastpmod>>

\* EOF or an error of sock.recv: stop serving the client.
RecvEof(fd) ==
  /\ ReadTurn(fd) /\ by_fd[fd] # NoConn
  /\ wire[by_fd[fd]] = <<>> /\ hup[by_fd[fd]]
  /\ Stop(fd, imei, wire)
  /\ by_imei' = Forget(fd, imei)
  /\ events' = [events EXCEPT !.fds = @ \ {fd}]
  /\ zpub' = NoMsg
  /\ UNCHANGED <<pmod, backlog, zpull,
                 pc, received, tosend, toadd, pollingfds, poller, lastpmod>>

\* Mutant: sock.recv is called until it would block.
RecvSegmentAgain(fd) ==
  /\ ReadTurn(fd) /\ by_fd[fd] # NoConn /\ wire[by_fd[fd]] # <<>>
  /\ pmod' = [pmod EXCEPT ![by_fd[fd]] = Probe(by_fd[fd], Head(wire[by_fd[fd]]))]
  /\ zpub' = NoMsg
  /\ UNCHANGED <<backlog, zpull, events, pc, tosend, toadd, pollingfds, poller, lastpmod>>

\* A segment is read.  One that no protocol module recognises is dropped.
RecvSegment(fd) ==
  /\ ReadTurn(fd) /\ by_fd[fd] # NoConn /\ wire[by_fd[fd]] # <<>>
  /\ pmod' = [pmod EXCEPT ![by_fd[fd]] = Probe(by_fd[fd], Head(wire[by_fd[fd]]))]
  /\ events' = [events EXCEPT !.fds = @ \ {fd}]
  /\ zpub' = NoMsg
  /\ UNCHANGED <<backlog, zpull, pc, tosend, toadd, pollingfds, poller, lastpmod>>

RecvUnknown(fd) ==
  /\ RecvSegment(fd)
  /\ LET c == by_fd[fd] IN
       /\ pmod'[c] = None
       /\ wire' = [wire EXCEPT ![c] = Tail(@)]
  /\ UNCHANGED <<by_fd, by_imei, sockfd, imei, hup, received>>

\* No packet of the segment logs the client in.
RecvPlain(fd) ==
  /\ RecvSegment(fd)
  /\ LET c == by_fd[fd]
         pkts == Deframed(c, Head(wire[c]))
         im == [k \in 1..Len(pkts) |-> imei[c]]
     IN /\ pmod'[c] # None
        /\ \A k \in 1..Len(pkts) : ~LogsIn(c, pkts, k)
        /\ received' = Tagged(fd, pmod'[c], pkts, im)
        /\ wire' = [wire EXCEPT ![c] = Tail(@)]
  /\ UNCHANGED <<by_fd, by_imei, sockfd, imei, hup>>

\* Packet k logs the client in.  The connection that had the IMEI loses it
\* and is closed before the new one is entered.
RecvLogin(fd) ==
  /\ RecvSegment(fd)
  /\ LET c == by_fd[fd]
         pkts == Deframed(c, Head(wire[c]))
     IN /\ pmod'[c] # None
        /\ \E k \in 1..Len(pkts) :
             /\ LogsIn(c, pkts, k)
             /\ LET i == pkts[k].imei
                    old == by_imei[i]
                    oldfd == IF old = NoConn THEN NoFd ELSE sockfd[old]
                    im == [d \in Conns |-> IF d = c THEN i
                                           ELSE IF d = old THEN None ELSE imei[d]]
                    known == [j \in 1..Len(pkts) |-> IF j < k THEN None ELSE i]
                IN /\ Stop(oldfd, im, [wire EXCEPT ![c] = Tail(@)])
                   /\ by_imei' = [Forget(oldfd, im) EXCEPT ![i] = c]
                   /\ received' = Tagged(fd, pmod'[c], pkts, known)

Recv(fd) ==
  \/ RecvGone(fd)
  \/ RecvEof(fd)
  \/ RecvUnknown(fd)
  \/ RecvPlain(fd)
  \/ RecvLogin(fd)

\* Mutant: the broadcast names the terminal that the packet names.
IncomingAsNamed(r) ==
  [dir |-> "in", pmod |-> r.pmod, peeraddr |-> r.peeraddr,
   imei |-> IF r.pkt.imei = None THEN r.imei ELSE r.pkt.imei]

\* The broadcast of a received packet.
Incoming(r) == [dir |-> "in", pmod |-> r.pmod, imei |-> r.imei, peeraddr |-> r.peeraddr]

\* One turn of the loop over received: the packet is published, a goodbye
\* stops the client, an inline response is queued under the IMEI.
Publish ==
  /\ pc = "body" /\ received # <<>>
  /\ LET r == Head(received) IN
       /\ zpub' = Incoming(r)
       /\ lastpmod' = r.pmod
       /\ IF r.pkt.bye /\ HandleHibernate
          THEN Stop(r.fd, imei, wire) /\ by_imei' = Forget(r.fd, imei)
          ELSE UNCHANGED <<by_fd, by_imei, sockfd, imei, wire, hup>>
       /\ tosend' = IF r.pkt.inl THEN Append(tosend, [imei |-> r.imei, made |-> r.pmod])
                                 ELSE tosend
  /\ received' = Tail(received)
  /\ UNCHANGED <<pmod, backlog, zpull, pc, events, toadd, pollingfds, poller>>

\* "poll queue consumed, make changes now"
Consumed == pc = "body" /\ events = NoEvents /\ received = <<>>

\* Clients.response: the terminal is connected.
Online(resp) == resp.imei # None /\ by_imei[resp.imei] # NoConn

\* The packet gets through enframe() of the terminal's protocol module.
Enframes(resp) ==
  LET pm == pmod[by_imei[resp.imei]] IN pm \in Strict => resp.made = pm

\* The pmod that labels the broadcast of a response: not the one of the client
\* but the loop variable, as the last packet received left it.
ResponsePmod(resp) == lastpmod

\* Mutant: a response to a terminal that is not connected is kept for later.
RespondRetry ==
  /\ Consumed /\ tosend # <<>>
  /\ LET resp == Head(tosend) IN
       /\ Online(resp) => Enframes(resp)
       /\ zpub' = IF Online(resp)
                  THEN [dir |-> "out", pmod |-> ResponsePmod(resp), imei |-> resp.imei,
                        peeraddr |-> NoConn]
                  ELSE NoMsg
       /\ tosend' = IF Online(resp) THEN Tail(tosend) ELSE Append(Tail(tosend), resp)
  /\ UNCHANGED <<clients, net, pc, events, received, toadd, pollingfds, poller, lastpmod>>

\* A response is sent if its terminal is connected, and then also published.
\* An OSError of sock.send is only logged.
Respond ==
  /\ Consumed /\ tosend # <<>>
  /\ LET resp == Head(tosend) IN
       /\ Online(resp) => Enframes(resp)
       /\ zpub' = IF Online(resp)
                  THEN [dir |-> "out", pmod |-> ResponsePmod(resp), imei |-> resp.imei,
                        peeraddr |-> NoConn]
                  ELSE NoMsg
  /\ tosend' = Tail(tosend)
  /\ UNCHANGED <<clients, net, pc, events, received, toadd, pollingfds, poller, lastpmod>>

\* An assertion of enframe() fails and nothing catches it.
RespondFails ==
  /\ Consumed /\ tosend # <<>>
  /\ Online(Head(tosend)) /\ ~Enframes(Head(tosend))
  /\ pc' = "dead"
  /\ zpub' = NoMsg
  /\ UNCHANGED <<clients, net, events, received, tosend, toadd, pollingfds, poller, lastpmod>>

\* Clients.add for the accepted sockets, and the constructor of Client.
Added ==
  [fd \in Fds |-> IF \E c \in toadd : sockfd[c] = fd
                 THEN CHOOSE c \in toadd : sockfd[c] = fd ELSE by_fd[fd]]
Constructed(field) == [c \in Conns |-> IF c \in toadd THEN None ELSE field[c]]

\* Descriptors that are served no more are unregistered, accepted sockets are
\* registered, and pollingfds is brought up to date.
Settle ==
  /\ Consumed /\ tosend = <<>>
  /\ by_fd' = Added
  /\ imei' = Constructed(imei)
  /\ pmod' = Constructed(pmod)
  /\ toadd' = {}
  /\ poller' = (poller \ (pollingfds \ fds)) \cup (fds' \ pollingfds)
  /\ pollingfds' = fds'
  /\ pc' = "poll"
  /\ zpub' = NoMsg
  /\ UNCHANGED <<by_imei, sockfd, net, events, received, tosend, lastpmod>>

\* systemd starts the daemon again (Restart=on-failure).  The kernel has
\* closed every socket of the dead process, the listening one included.
Restart ==
  /\ pc = "dead"
  /\ by_fd' = [fd \in Fds |-> NoConn]
  /\ by_imei' = [i \in Imeis |-> NoConn]
  /\ sockfd' = [c \in Conns |-> NoFd]
  /\ imei' = [c \in Conns |-> None]
  /\ pmod' = [c \in Conns |-> None]
  /\ backlog' = <<>>
  /\ wire' = [c \in Conns |-> <<>>]
  /\ hup' = [c \in Conns |-> FALSE]
  /\ zpull' = <<>>
  /\ zpub' = NoMsg
  /\ pc' = "poll"
  /\ events' = NoEvents
  /\ received' = <<>>
  /\ tosend' = <<>>
  /\ toadd' = {}
  /\ pollingfds' = {}
  /\ poller' = {}
  /\ lastpmod' = None

-----------------------------------------------------------------------------
Terminals ==
  \E c \in Conns :
    \/ Connect(c)
    \/ \E seg \in Segments : TermSend(c, seg)
    \/ \E rst \in BOOLEAN : Hangup(c, rst)

Iteration ==
  \/ Poll
  \/ TakeZpull \/ ZpullAgain \/ ZpullEndless
  \/ AcceptFails
  \/ \E fd \in Fds : Accept(fd) \/ Recv(fd)
  \/ Publish
  \/ Respond
  \/ RespondFails
  \/ Settle

Next ==
  \/ Terminals
  \/ \E resp \in Resps : Push(resp)
  \/ Iteration
  \/ Restart

Spec == Init /\ [][Next]_vars

\* Assumed of the other daemons, for nothing in the code sees to it: however much they
\* push, some turn of the loop finds the PULL socket empty.
PushersPause == []<>~Draining

\* The process keeps running and systemd brings it back; terminals promise nothing.
FairSpec == Spec /\ WF_vars(Iteration) /\ WF_vars(Restart) /\ PushersPause

-----------------------------------------------------------------------------
(* Safety.                                                                 *)

\* Clients.by_fd and the open sockets agree: a client is served at the
\* descriptor of its own socket, so stop(fd) closes the socket it is meant to
\* close although the kernel gives descriptors out again, and every open
\* socket is served or about to be, so none is leaked by a stop in the event
\* loop or by an eviction at a login (collector.py:117-132, 153-157).
SocketsAccountedFor ==
  /\ \A fd \in Fds : by_fd[fd] # NoConn => sockfd[by_fd[fd]] = fd
  /\ \A c \in Conns : sockfd[c] # NoFd => c \in toadd \/ by_fd[sockfd[c]] = c

\* by_imei holds exactly the served clients that have logged in, each under
\* its own IMEI.  Hence the look-up of Clients.stop never raises KeyError
\* (collector.py:130), no two served connections share an IMEI, and a
\* response is never handed to a closed socket (collector.py:168-172).
RegistryExact ==
  /\ \A i \in Imeis : by_imei[i] # NoConn =>
       imei[by_imei[i]] = i /\ sockfd[by_imei[i]] # NoFd /\ by_imei[i] \notin toadd
  /\ \A fd \in Fds : by_fd[fd] # NoConn /\ imei[by_fd[fd]] # None =>
       by_imei[imei[by_fd[fd]]] = by_fd[fd]

\* Whoever can be sent a response has a protocol module, the assertion of
\* Client.send (collector.py:97), and the loop variable that labels the
\* broadcast of the response is bound when it is read (collector.py:259).
ResponseReady ==
  \A i \in Imeis : by_imei[i] # NoConn =>
    /\ pmod[by_imei[i]] # None
    /\ received = <<>> => lastpmod # None

\* When the loop polls, the poller watches the served clients and no other
\* descriptor: none is deaf, and none that was closed, and may be another
\* socket by now, is still watched (collector.py:265-271).
PollerTracksClients ==
  /\ poller = pollingfds
  /\ pc = "poll" => poller = fds /\ toadd = {}

\* A client event still to be handled is for the connection it was reported
\* for or for a client gone since, never for a newcomer at the same
\* descriptor: sock.recv of a served client finds data or the end of the
\* stream, so the one thread of the daemon never blocks in it.
RecvNeverBlocks ==
  pc = "body" => \A fd \in events.fds : by_fd[fd] # NoConn => Readable(fd)

\* What is broadcast of a packet bears the protocol module of the connection it came
\* in on and the IMEI that one has logged in with, or none: what one terminal sends is
\* never published as another's, whatever IMEI a packet carries and also behind a
\* goodbye, when the client is gone (collector.py:143-161, 223-232).
PublishedAsSender ==
  zpub # NoMsg /\ zpub.dir = "in" =>
    /\ zpub.pmod = pmod[zpub.peeraddr]
    /\ zpub.imei \in {None, imei[zpub.peeraddr]}

-----------------------------------------------------------------------------
(* What the proofs need besides: these with TypeOK and the properties above *)
(* make an inductive invariant.                                            *)

\* Two open sockets have two descriptors.
DistinctSockets ==
  \A c, d \in Conns : sockfd[c] # NoFd /\ sockfd[c] = sockfd[d] => c = d

\* A connection waits once for accept(), and only before it is accepted.
BacklogWaits ==
  /\ \A k \in 1..Len(backlog) : sockfd[backlog[k]] = NoFd
  /\ \A j, k \in 1..Len(backlog) : backlog[j] = backlog[k] => j = k
  /\ events.tcp => backlog # <<>>

\* Until the clients' events are reached nothing has been stopped; stopping
\* leaves descriptors registered, never the other way round.
LoopPhases ==
  /\ pc = "poll" => events = NoEvents /\ received = <<>>
  /\ events.zpull \/ events.tcp => received = <<>> /\ pollingfds = fds
  /\ fds \subseteq pollingfds

\* A socket accepted in this iteration has a descriptor that is not
\* registered: it was free before any client of this iteration was stopped.
AcceptedAreFresh ==
  \A c \in toadd : /\ sockfd[c] \in Fds
                   /\ sockfd[c] \notin pollingfds
                   /\ by_fd[sockfd[c]] = NoConn

\* Packets are tagged with what the connection they came in on is known by.
ReceivedTagged ==
  \A k \in 1..Len(received) :
    /\ received[k].pmod = pmod[received[k].peeraddr]
    /\ received[k].imei \in {None, imei[received[k].peeraddr]}

Inv ==
  /\ TypeOK
  /\ SocketsAccountedFor
  /\ DistinctSockets
  /\ RegistryExact
  /\ ResponseReady
  /\ BacklogWaits
  /\ LoopPhases
  /\ AcceptedAreFresh
  /\ PollerTracksClients
  /\ RecvNeverBlocks
  /\ ReceivedTagged

-----------------------------------------------------------------------------
(* Action properties.                                                      *)

\* A connection that is served keeps the IMEI it logged in with until it is
\* closed: later packets, whatever IMEI they carry, cannot move it
\* (collector.py:147), and only a login of the same terminal takes it away.
ImeiIsSticky ==
  [][\A c \in Conns :
       (imei[c] # None /\ sockfd[c] # NoFd /\ c \notin toadd /\ imei'[c] # imei[c])
         => sockfd'[c] = NoFd]_vars

-----------------------------------------------------------------------------
(* Refinement.                                                             *)

served == {by_fd[fd] : fd \in fds}

Directory == INSTANCE TerminalDirectory WITH open <- served, owner <- by_imei

\* The two dictionaries of class Clients implement the directory of
\* terminals: the newest login of an IMEI owns it and closes the older
\* connection in the same step, whatever the order of reads, goodbyes and
\* hang-ups in an iteration (collector.py:109-166).
ImplementsDirectory == Directory!Spec

-----------------------------------------------------------------------------
(* Liveness.                                                               *)

\* The end of a terminal's connection, after any data still unread, is
\* noticed and its socket closed, whatever the other terminals do and however
\* often others push, if only they pause (PushersPause).
HangupNoticed == \A c \in Conns : hup[c] ~> ~hup[c]

\* One connection is accepted in an iteration; still each gets its turn, or
\* the daemon dies.
ConnectionServed ==
  \A c \in Conns : (\E k \in 1..Len(backlog) : backlog[k] = c) ~>
    (sockfd[c] # NoFd \/ pc = "dead")

\* A pushed response is taken, and those that an iteration took are dealt
\* with, also when more are pushed in the meantime (collector.py:203-210, 251-264).
PushHandled ==
  /\ zpull # <<>> ~> zpull = <<>>
  /\ tosend # <<>> ~> tosend = <<>>

=============================================================================
