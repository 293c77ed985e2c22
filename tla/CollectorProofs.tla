--------------------------- MODULE CollectorProofs ---------------------------
(***************************************************************************)
(* Proofs about Collector, for any connections, descriptors, terminals,    *)
(* protocol modules, segments and bounds.                                  *)
(***************************************************************************)
EXTENDS Collector, TLAPS

\* A segment that is sent waits to be received.
LEMMA AppendNotEmpty == ASSUME NEW S, NEW s \in Seq(S), NEW e \in S PROVE Append(s, e) # <<>>
<1>1. Len(Append(s, e)) = Len(s) + 1 /\ Len(s) \in Nat
  OBVIOUS
<1>2. Len(<<>>) = 0
  OBVIOUS
<1> QED
  BY <1>1, <1>2

USE NullAssumption, InputsAssumption, BoundsAssumption

\* What TypeOK needs to be inductive: accept() has a connection to return.
TypeInv == TypeOK /\ (events.tcp => backlog # <<>>)

\* The list that Clients.recv returns is well typed.
LEMMA TaggedType ==
  ASSUME NEW fd \in Fds, NEW pm \in Pmods, NEW pkts \in Seq(Packets),
         NEW im \in [1..Len(pkts) -> Imeis \cup {None}], by_fd[fd] \in Conns
  PROVE  Tagged(fd, pm, pkts, im) \in
           Seq([fd : Fds, pmod : Pmods, imei : Imeis \cup {None}, peeraddr : Conns, pkt : Packets])
BY DEF Tagged

\* What is read from the wire is a segment, and its packets are packets.
LEMMA HeadOfWire ==
  ASSUME TypeOK, NEW c \in Conns, wire[c] # <<>>
  PROVE  /\ Head(wire[c]) \in Segments
         /\ Probe(c, Head(wire[c])) \in Pmods \cup {None}
         /\ Deframed(c, Head(wire[c])) \in Seq(Packets)
         /\ [wire EXCEPT ![c] = Tail(@)] \in [Conns -> Seq(Segments)]
<1>1. wire[c] \in Seq(Segments)
  BY DEF TypeOK
<1>2. Head(wire[c]) \in Segments /\ Tail(wire[c]) \in Seq(Segments)
  BY <1>1
<1>3. Head(wire[c]) \in [probe : Pmods \cup {None}, pkts : Seq(Packets)]
  BY <1>2
<1>4. <<>> \in Seq(Packets)
  OBVIOUS
<1> QED
  BY <1>2, <1>3, <1>4 DEF TypeOK, Probe, Deframed

\* Clients.stop keeps the types.
LEMMA StopType ==
  ASSUME TypeOK, NEW fd, NEW im \in [Conns -> Imeis \cup {None}],
         NEW wr \in [Conns -> Seq(Segments)], Stop(fd, im, wr)
  PROVE  /\ by_fd' \in [Fds -> Conns \cup {NoConn}]
         /\ sockfd' \in [Conns -> Fds \cup {NoFd}]
         /\ imei' \in [Conns -> Imeis \cup {None}]
         /\ wire' \in [Conns -> Seq(Segments)]
         /\ hup' \in [Conns -> BOOLEAN]
         /\ Forget(fd, im) \in [Imeis -> Conns \cup {NoConn}]
<1>1. <<>> \in Seq(Segments)
  OBVIOUS
<1> QED
  BY <1>1 DEF TypeOK, Stop, Close, Forget

\* The initial state is well typed.
LEMMA TypeInit == Init => TypeInv
<1>1. <<>> \in Seq(Conns) /\ <<>> \in Seq(Segments) /\ <<>> \in Seq(Responses)
      /\ <<>> \in Seq([fd : Fds, pmod : Pmods, imei : Imeis \cup {None}, peeraddr : Conns, pkt : Packets])
  OBVIOUS
<1> QED
  BY <1>1 DEF Init, TypeInv, TypeOK, NoEvents

\* Steps of the peers keep the types.
LEMMA TypePeers ==
  ASSUME TypeInv, Terminals \/ \E resp \in Resps : Push(resp)
  PROVE  TypeInv'
<1>1. ASSUME NEW c \in Conns, Connect(c) PROVE TypeInv'
  <2>1. backlog \in Seq(Conns) /\ backlog' = Append(backlog, c)
    BY <1>1 DEF Connect, TypeInv, TypeOK
  <2>2. backlog' \in Seq(Conns) /\ Len(backlog') = Len(backlog) + 1
    BY <2>1
  <2>3. backlog' # <<>>
    BY <2>1, <2>2
  <2> QED
    BY <1>1, <2>2, <2>3 DEF Connect, TypeInv, TypeOK, clients, loop
<1>2. ASSUME NEW c \in Conns, NEW seg \in Segments, TermSend(c, seg) PROVE TypeInv'
  BY <1>2 DEF TermSend, TypeInv, TypeOK, clients, loop
<1>3. ASSUME NEW c \in Conns, NEW rst \in BOOLEAN, Hangup(c, rst) PROVE TypeInv'
  BY <1>3 DEF Hangup, TypeInv, TypeOK, clients, loop
<1>4. ASSUME NEW resp \in Resps, Push(resp) PROVE TypeInv'
  <2>1. resp \in Responses
    BY DEF Responses
  <2> QED
    BY <1>4, <2>1 DEF Push, TypeInv, TypeOK, clients, loop
<1> QED
  BY <1>1, <1>2, <1>3, <1>4 DEF Terminals

\* Reading a client keeps the types.
LEMMA TypeRecv ==
  ASSUME TypeInv, NEW fd \in Fds, Recv(fd)
  PROVE  TypeInv'
<1>1. CASE RecvGone(fd)
  BY <1>1 DEF RecvGone, ReadTurn, TypeInv, TypeOK, clients, net
<1>2. CASE RecvEof(fd)
  <2>1. imei \in [Conns -> Imeis \cup {None}] /\ wire \in [Conns -> Seq(Segments)]
    BY DEF TypeInv, TypeOK
  <2>2. Stop(fd, imei, wire) /\ by_imei' = Forget(fd, imei)
    BY <1>2 DEF RecvEof
  <2>3. /\ by_fd' \in [Fds -> Conns \cup {NoConn}]
        /\ sockfd' \in [Conns -> Fds \cup {NoFd}]
        /\ imei' \in [Conns -> Imeis \cup {None}]
        /\ wire' \in [Conns -> Seq(Segments)]
        /\ hup' \in [Conns -> BOOLEAN]
        /\ by_imei' \in [Imeis -> Conns \cup {NoConn}]
    BY <2>1, <2>2, StopType DEF TypeInv
  <2> QED
    BY <1>2, <2>3 DEF RecvEof, ReadTurn, TypeInv, TypeOK
<1>3. CASE RecvUnknown(fd)
  <2>1. by_fd[fd] \in Conns /\ wire[by_fd[fd]] # <<>>
    BY <1>3 DEF RecvUnknown, RecvSegment, TypeInv, TypeOK
  <2> QED
    BY <1>3, <2>1, HeadOfWire DEF RecvUnknown, RecvSegment, ReadTurn, TypeInv, TypeOK
<1>4. CASE RecvPlain(fd)
  <2> DEFINE c == by_fd[fd]
             pkts == Deframed(c, Head(wire[c]))
             im == [k \in 1..Len(pkts) |-> imei[c]]
  <2>1. c \in Conns /\ wire[c] # <<>>
    BY <1>4 DEF RecvPlain, RecvSegment, TypeInv, TypeOK
  <2>2. pmod'[c] \in Pmods
    BY <1>4, <2>1, HeadOfWire DEF RecvPlain, RecvSegment, TypeInv, TypeOK
  <2>3. received' = Tagged(fd, pmod'[c], pkts, im)
    BY <1>4 DEF RecvPlain
  <2>4. pkts \in Seq(Packets) /\ im \in [1..Len(pkts) -> Imeis \cup {None}]
    BY <2>1, HeadOfWire DEF TypeInv, TypeOK
  <2>5. received' \in Seq([fd : Fds, pmod : Pmods, imei : Imeis \cup {None}, peeraddr : Conns, pkt : Packets])
    <3>1. by_fd[fd] \in Conns
      BY <2>1
    <3> HIDE DEF c, pkts, im
    <3> QED BY <2>2, <2>3, <2>4, <3>1, TaggedType
  <2> QED
    BY <1>4, <2>1, <2>5, HeadOfWire DEF RecvPlain, RecvSegment, ReadTurn, TypeInv, TypeOK
<1>5. CASE RecvLogin(fd)
  <2> DEFINE c == by_fd[fd]
             pkts == Deframed(c, Head(wire[c]))
  <2>1. c \in Conns /\ wire[c] # <<>>
    BY <1>5 DEF RecvLogin, RecvSegment, TypeInv, TypeOK
  <2>2. pmod'[c] \in Pmods
    BY <1>5, <2>1, HeadOfWire DEF RecvLogin, RecvSegment, TypeInv, TypeOK
  <2>3. pkts \in Seq(Packets)
    BY <2>1, HeadOfWire DEF TypeInv
  <2>4. PICK k \in 1..Len(pkts) :
          /\ LogsIn(c, pkts, k)
          /\ LET i == pkts[k].imei
                 old == by_imei[i]
                 oldfd == IF old = NoConn THEN NoFd ELSE sockfd[old]
                 im == [d \in Conns |-> IF d = c THEN i
                                        ELSE IF d = old THEN None ELSE imei[d]]
                 known == [j \in 1..Len(pkts) |-> IF j < k THEN None ELSE i]
             IN /\ Stop(oldfd, im, [wire EXCEPT ![c] = Tail(@)])
                /\ by_imei' = [Forget(oldfd, im) EXCEPT ![i] = c]
                /\ received' = Tagged(fd, pmod'[c], pkts, known)
    BY <1>5 DEF RecvLogin
  <2> DEFINE i == pkts[k].imei
             old == by_imei[i]
             oldfd == IF old = NoConn THEN NoFd ELSE sockfd[old]
             im == [d \in Conns |-> IF d = c THEN i
                                    ELSE IF d = old THEN None ELSE imei[d]]
             known == [j \in 1..Len(pkts) |-> IF j < k THEN None ELSE i]
  <2>5. i \in Imeis
    <3>1. pkts[k] \in Packets
      BY <2>3
    <3> HIDE DEF pkts
    <3> QED
      BY <2>4, <3>1 DEF LogsIn, Packets
  <2>6. im \in [Conns -> Imeis \cup {None}]
    BY <2>5 DEF TypeInv, TypeOK
  <2>7. received' \in Seq([fd : Fds, pmod : Pmods, imei : Imeis \cup {None}, peeraddr : Conns, pkt : Packets])
    <3>1. known \in [1..Len(pkts) -> Imeis \cup {None}]
      BY <2>5
    <3>2. received' = Tagged(fd, pmod'[c], pkts, known)
      BY <2>4
    <3>3. by_fd[fd] \in Conns
      BY <2>1
    <3> HIDE DEF pkts, known, c
    <3> QED
      BY <2>2, <2>3, <3>1, <3>2, <3>3, TaggedType
  <2>8. [wire EXCEPT ![c] = Tail(@)] \in [Conns -> Seq(Segments)]
    BY <2>1, HeadOfWire DEF TypeInv
  <2>9. Stop(oldfd, im, [wire EXCEPT ![c] = Tail(@)])
        /\ by_imei' = [Forget(oldfd, im) EXCEPT ![i] = c]
    BY <2>4
  <2>10. /\ by_fd' \in [Fds -> Conns \cup {NoConn}]
         /\ sockfd' \in [Conns -> Fds \cup {NoFd}]
         /\ imei' \in [Conns -> Imeis \cup {None}]
         /\ wire' \in [Conns -> Seq(Segments)]
         /\ hup' \in [Conns -> BOOLEAN]
         /\ Forget(oldfd, im) \in [Imeis -> Conns \cup {NoConn}]
    <3> HIDE DEF oldfd, im, c, i
    <3> QED
      BY <2>6, <2>8, <2>9, StopType DEF TypeInv
  <2>11. by_imei' \in [Imeis -> Conns \cup {NoConn}]
    <3> HIDE DEF oldfd, im, c, i
    <3> QED
      BY <2>1, <2>5, <2>9, <2>10
  <2>12. RecvSegment(fd)
    BY <1>5 DEF RecvLogin
  <2>13. pmod' \in [Conns -> Pmods \cup {None}]
    BY <2>1, <2>12, HeadOfWire DEF RecvSegment, TypeInv, TypeOK
  <2> QED
    BY <2>7, <2>10, <2>11, <2>12, <2>13 DEF RecvSegment, ReadTurn, TypeInv, TypeOK
<1> QED
  BY <1>1, <1>2, <1>3, <1>4, <1>5 DEF Recv

\* The other steps of the loop keep the types.
LEMMA TypeLoop ==
  ASSUME TypeInv
  PROVE  /\ Poll \/ TakeZpull \/ ZpullAgain \/ AcceptFails \/ Respond \/ RespondFails => TypeInv'
         /\ \A fd \in Fds : Accept(fd) => TypeInv'
         /\ Publish => TypeInv'
         /\ Settle => TypeInv'
         /\ Restart => TypeInv'
<1>1. ASSUME Poll PROVE TypeInv'
  BY <1>1 DEF Poll, TypeInv, TypeOK, clients, net
<1>2. ASSUME TakeZpull PROVE TypeInv'
  <2>1. zpull # <<>> /\ zpull \in Seq(Responses) /\ tosend \in Seq(Responses)
    BY <1>2 DEF TakeZpull, TypeInv, TypeOK
  <2>2. Tail(zpull) \in Seq(Responses) /\ Append(tosend, Head(zpull)) \in Seq(Responses)
    BY <2>1
  <2> QED
    BY <1>2, <2>2 DEF TakeZpull, TypeInv, TypeOK, clients
<1>2a. ASSUME ZpullAgain PROVE TypeInv'
  BY <1>2a DEF ZpullAgain, TypeInv, TypeOK, clients, net
<1>3. ASSUME AcceptFails PROVE TypeInv'
  BY <1>3 DEF AcceptFails, TypeInv, TypeOK, clients, net
<1>4. ASSUME Respond PROVE TypeInv'
  <2>1. Head(tosend) \in Responses /\ Tail(tosend) \in Seq(Responses)
    BY <1>4 DEF Respond, TypeInv, TypeOK
  <2>2. zpub' \in Bcasts \cup {NoMsg}
    BY <1>4, <2>1 DEF Respond, ResponsePmod, Responses, Bcasts, TypeInv, TypeOK
  <2> QED
    BY <1>4, <2>1, <2>2 DEF Respond, TypeInv, TypeOK, clients, net
<1>5. ASSUME RespondFails PROVE TypeInv'
  BY <1>5 DEF RespondFails, TypeInv, TypeOK, clients, net
<1>6. ASSUME NEW fd \in Fds, Accept(fd) PROVE TypeInv'
  <2>1. backlog # <<>>
    BY <1>6 DEF Accept, AcceptTurn, TypeInv
  <2>2. Head(backlog) \in Conns /\ Tail(backlog) \in Seq(Conns)
    BY <2>1 DEF TypeInv, TypeOK
  <2> QED
    BY <1>6, <2>2 DEF Accept, TypeInv, TypeOK
<1>7. ASSUME Publish PROVE TypeInv'
  <2> DEFINE r == Head(received)
             Rec == [fd : Fds, pmod : Pmods, imei : Imeis \cup {None}, peeraddr : Conns, pkt : Packets]
  <2>1. r \in Rec /\ Tail(received) \in Seq(Rec)
    <3>1. received \in Seq(Rec) /\ received # <<>>
      BY <1>7 DEF Publish, TypeInv, TypeOK
    <3> HIDE DEF Rec
    <3> QED
      BY <3>1
  <2>2. zpub' \in Bcasts /\ lastpmod' \in Pmods /\ received' \in Seq(Rec)
    BY <1>7, <2>1 DEF Publish, Incoming, Bcasts
  <2>3. tosend' \in Seq(Responses)
    <3>1. [imei |-> r.imei, made |-> r.pmod] \in Responses
      BY <2>1 DEF Responses
    <3>2. tosend' \in {tosend, Append(tosend, [imei |-> r.imei, made |-> r.pmod])}
      BY <1>7 DEF Publish
    <3>3. tosend \in Seq(Responses)
      BY DEF TypeInv, TypeOK
    <3> HIDE DEF r
    <3> QED
      BY <3>1, <3>2, <3>3
  <2>4. /\ by_fd' \in [Fds -> Conns \cup {NoConn}]
        /\ sockfd' \in [Conns -> Fds \cup {NoFd}]
        /\ imei' \in [Conns -> Imeis \cup {None}]
        /\ wire' \in [Conns -> Seq(Segments)]
        /\ hup' \in [Conns -> BOOLEAN]
        /\ by_imei' \in [Imeis -> Conns \cup {NoConn}]
    <3>1. imei \in [Conns -> Imeis \cup {None}] /\ wire \in [Conns -> Seq(Segments)]
      BY DEF TypeInv, TypeOK
    <3>2. CASE Stop(r.fd, imei, wire) /\ by_imei' = Forget(r.fd, imei)
      <4> HIDE DEF r
      <4> QED
        BY <3>1, <3>2, StopType DEF TypeInv
    <3>3. CASE UNCHANGED <<by_fd, by_imei, sockfd, imei, wire, hup>>
      BY <3>3 DEF TypeInv, TypeOK
    <3> QED
      BY <1>7, <3>2, <3>3 DEF Publish
  <2> QED
    BY <1>7, <2>2, <2>3, <2>4 DEF Publish, TypeInv, TypeOK
<1>8. ASSUME Settle PROVE TypeInv'
  <2>1. by_fd' \in [Fds -> Conns \cup {NoConn}]
    BY <1>8 DEF Settle, Added, Constructed, TypeInv, TypeOK
  <2> QED
    BY <1>8, <2>1 DEF Settle, Added, Constructed, fds, TypeInv, TypeOK, net
<1>9. ASSUME Restart PROVE TypeInv'
  <2>1. <<>> \in Seq(Conns) /\ <<>> \in Seq(Segments) /\ <<>> \in Seq(Responses)
        /\ <<>> \in Seq([fd : Fds, pmod : Pmods, imei : Imeis \cup {None}, peeraddr : Conns, pkt : Packets])
    OBVIOUS
  <2> QED
    BY <1>9, <2>1 DEF Restart, TypeInv, TypeOK, NoEvents
<1> QED
  BY <1>1, <1>2, <1>2a, <1>3, <1>4, <1>5, <1>6, <1>7, <1>8, <1>9

\* Every step keeps the types.
LEMMA TypeStep == TypeInv /\ [Next]_vars => TypeInv'
<1> SUFFICES ASSUME TypeInv, [Next]_vars PROVE TypeInv'
  OBVIOUS
<1>1. CASE UNCHANGED vars
  BY <1>1 DEF vars, clients, net, loop, TypeInv, TypeOK
<1>2. CASE Next
  BY <1>1, <1>2, TypePeers, TypeRecv, TypeLoop DEF Next, Iteration, ZpullEndless
<1> QED
  BY <1>1, <1>2

\* Type correctness: every variable of the collector always has its type;
\* in particular accept() is called only when a connection waits.
THEOREM TypeCorrect == Spec => []TypeOK
<1>1. TypeInv => TypeOK
  BY DEF TypeInv
<1> QED
  BY <1>1, TypeInit, TypeStep, PTL DEF Spec

-----------------------------------------------------------------------------
(* Inv is an invariant of Collector: the two dictionaries of Clients, the  *)
(* open sockets and the poller agree whatever the peers do and in whatever *)
(* order an iteration meets them.                                          *)

(* Clients.stop takes one client out of by_fd and closes its socket.       *)

Dropped(old) ==
  /\ by_fd' = [f \in Fds |-> IF by_fd[f] = old THEN NoConn ELSE by_fd[f]]
  /\ sockfd' = [d \in Conns |-> IF d = old THEN NoFd ELSE sockfd[d]]
  /\ \A d \in Conns : d # old => hup'[d] = hup[d]

\* The client at a descriptor, if any.
ClientAt(fd) == IF fd \in Fds THEN by_fd[fd] ELSE NoConn

\* A client is served at one descriptor, so stop(fd) removes all of it.
LEMMA StopDrops ==
  ASSUME TypeOK, SocketsAccountedFor, NEW fd \in Fds \cup {NoFd},
         NEW im, NEW wr, Stop(fd, im, wr)
  PROVE  /\ Dropped(ClientAt(fd))
         /\ imei' = im
         /\ \A d \in Conns : d # ClientAt(fd) => wire'[d] = wr[d]
         /\ \A i \in Imeis : Forget(fd, im)[i] =
              IF by_imei[i] = ClientAt(fd) /\ ClientAt(fd) # NoConn /\ im[by_imei[i]] = i
              THEN NoConn ELSE by_imei[i]
<1>1. \A d \in Conns : d \in At(fd) <=> d = ClientAt(fd)
  BY NullAssumption DEF At, ClientAt
<1>2. \A f \in Fds : by_fd[f] # NoConn /\ by_fd[f] = ClientAt(fd) => f = fd
  BY DEF ClientAt, SocketsAccountedFor, TypeOK
<1>3. by_fd' = [f \in Fds |-> IF by_fd[f] = ClientAt(fd) THEN NoConn ELSE by_fd[f]]
  BY <1>2 DEF Stop, Close, ClientAt, TypeOK
<1>4. sockfd' = [d \in Conns |-> IF d = ClientAt(fd) THEN NoFd ELSE sockfd[d]]
  BY <1>1 DEF Stop, Close
<1>5. \A d \in Conns : d # ClientAt(fd) => hup'[d] = hup[d] /\ wire'[d] = wr[d]
  BY <1>1 DEF Stop, Close
<1>6. \A i \in Imeis : Forget(fd, im)[i] =
        IF by_imei[i] = ClientAt(fd) /\ ClientAt(fd) # NoConn /\ im[by_imei[i]] = i
        THEN NoConn ELSE by_imei[i]
  BY <1>1 DEF Forget, TypeOK, ClientAt
<1> QED
  BY <1>3, <1>4, <1>5, <1>6 DEF Dropped, Stop, Close

\* Dropping a client keeps what does not depend on the IMEIs.
LEMMA DropKeeps ==
  ASSUME Inv, NEW old \in Conns \cup {NoConn}, old \notin toadd, Dropped(old),
         UNCHANGED <<toadd, backlog, pollingfds>>, events'.tcp = events.tcp
  PROVE  /\ SocketsAccountedFor'
         /\ DistinctSockets'
         /\ AcceptedAreFresh'
         /\ BacklogWaits'
         /\ fds' \subseteq fds
<1> USE DEF Inv, TypeOK, Dropped
<1>1. SocketsAccountedFor'
  <2>1. \A fd \in Fds : by_fd'[fd] # NoConn => sockfd'[by_fd'[fd]] = fd
    BY DEF SocketsAccountedFor
  <2>2. \A c \in Conns : sockfd'[c] # NoFd => c \in toadd \/ by_fd'[sockfd'[c]] = c
    BY DEF SocketsAccountedFor
  <2> QED
    BY <2>1, <2>2 DEF SocketsAccountedFor
<1>2. DistinctSockets'
  BY DEF DistinctSockets
<1>3. AcceptedAreFresh'
  BY DEF AcceptedAreFresh
<1>4. BacklogWaits'
  BY DEF BacklogWaits
<1>5. fds' \subseteq fds
  BY DEF fds
<1> QED
  BY <1>1, <1>2, <1>3, <1>4, <1>5

-----------------------------------------------------------------------------
(* Inv holds initially and every step keeps it.                            *)

\* TypeOK of the next state comes from the type proof.
LEMMA InvTypes ==
  ASSUME Inv, [Next]_vars
  PROVE  TypeOK'
BY TypeStep DEF Inv, BacklogWaits, TypeInv

\* Nothing is served at first.
LEMMA InvInit == Init => Inv
<1> SUFFICES ASSUME Init PROVE Inv
  OBVIOUS
<1>1. TypeOK
  BY TypeInit DEF TypeInv
<1>2. fds = {}
  BY DEF Init, fds
<1> QED
  BY <1>1, <1>2 DEF Init, Inv, NoEvents, SocketsAccountedFor, DistinctSockets, RegistryExact,
     ResponseReady, BacklogWaits, LoopPhases, AcceptedAreFresh, PollerTracksClients,
     RecvNeverBlocks, ReceivedTagged

\* A process that starts again is in an initial state.
LEMMA RestartInit == Restart => Init'
BY DEF Restart, Init

\* A slot that connects was not live; data and hang-ups make no socket
\* less readable.
LEMMA InvPeers ==
  ASSUME Inv, Terminals \/ \E resp \in Resps : Push(resp)
  PROVE  Inv'
<1>1. TypeOK'
  BY InvTypes DEF Next
<1>2. UNCHANGED <<by_fd, by_imei, sockfd, imei, pmod, zpub, loop>>
  BY DEF Terminals, Connect, TermSend, Hangup, Push, clients
<1>3. /\ SocketsAccountedFor' /\ DistinctSockets' /\ RegistryExact'
      /\ ResponseReady' /\ AcceptedAreFresh' /\ ReceivedTagged'
  BY <1>2 DEF Inv, loop, SocketsAccountedFor, DistinctSockets, RegistryExact, ResponseReady,
     AcceptedAreFresh, ReceivedTagged
<1>4. fds' = fds
  BY <1>2 DEF fds
<1>5. LoopPhases' /\ PollerTracksClients'
  BY <1>2, <1>4 DEF Inv, loop, LoopPhases, PollerTracksClients
<1>6. \A fd \in Fds : Readable(fd) => Readable(fd)'
  <2> SUFFICES ASSUME NEW d \in Conns, wire[d] # <<>> \/ hup[d]
               PROVE  wire'[d] # <<>> \/ hup'[d]
    BY <1>2 DEF Readable
  <2>1. ASSUME NEW c \in Conns, Connect(c) PROVE wire'[d] # <<>> \/ hup'[d]
    BY <2>1 DEF Connect
  <2>2. ASSUME NEW c \in Conns, NEW seg \in Segments, TermSend(c, seg)
        PROVE  wire'[d] # <<>> \/ hup'[d]
    <3>1. wire[c] \in Seq(Segments) /\ wire' = [wire EXCEPT ![c] = Append(@, seg)]
          /\ hup' = hup /\ wire \in [Conns -> Seq(Segments)]
      BY <2>2 DEF TermSend, Inv, TypeOK
    <3>2. Append(wire[c], seg) # <<>>
      BY <3>1, AppendNotEmpty
    <3> QED
      BY <3>1, <3>2
  <2>3. ASSUME NEW c \in Conns, NEW rst \in BOOLEAN, Hangup(c, rst)
        PROVE  wire'[d] # <<>> \/ hup'[d]
    BY <2>3 DEF Hangup, Inv, TypeOK
  <2>4. ASSUME NEW resp \in Resps, Push(resp) PROVE wire'[d] # <<>> \/ hup'[d]
    BY <2>4 DEF Push
  <2> QED
    BY <2>1, <2>2, <2>3, <2>4 DEF Terminals
<1>7. RecvNeverBlocks'
  BY <1>2, <1>6 DEF Inv, TypeOK, loop, RecvNeverBlocks
<1>8. BacklogWaits'
  <2>1. CASE UNCHANGED backlog
    BY <1>2, <2>1 DEF Inv, loop, BacklogWaits
  <2>2. ASSUME NEW c \in Conns, Connect(c) PROVE BacklogWaits'
    <3>1. backlog \in Seq(Conns) /\ backlog' = Append(backlog, c)
      BY <2>2 DEF Connect, Inv, TypeOK
    <3>2. /\ Len(backlog') = Len(backlog) + 1 /\ Len(backlog) \in Nat
          /\ backlog'[Len(backlog) + 1] = c
          /\ \A k \in 1..Len(backlog) : backlog'[k] = backlog[k]
      BY <3>1
    <3>3. backlog' # <<>>
      BY <3>1, <3>2
    <3>4. sockfd[c] = NoFd /\ \A k \in 1..Len(backlog) : backlog[k] # c
      BY <2>2 DEF Connect, Live
    <3>5. \A k \in 1..Len(backlog') : sockfd'[backlog'[k]] = NoFd
      BY <1>2, <3>2, <3>4 DEF Inv, BacklogWaits
    <3>6. \A j, k \in 1..Len(backlog') : backlog'[j] = backlog'[k] => j = k
      BY <3>2, <3>4 DEF Inv, BacklogWaits
    <3> QED
      BY <3>3, <3>5, <3>6 DEF BacklogWaits
  <2> QED
    BY <2>1, <2>2 DEF Terminals, TermSend, Hangup, Push
<1> QED
  BY <1>1, <1>3, <1>5, <1>7, <1>8 DEF Inv

\* Steps that leave the clients and the poller alone.
LEMMA InvQuiet ==
  ASSUME Inv,
         Poll \/ TakeZpull \/ ZpullAgain \/ AcceptFails \/ Respond \/ RespondFails
           \/ \E fd \in Fds : RecvGone(fd)
  PROVE  Inv'
<1>1. TypeOK'
  BY InvTypes DEF Next, Iteration, Recv
<1>2. UNCHANGED <<by_fd, by_imei, sockfd, imei, pmod, backlog, wire, hup, received, toadd,
                  pollingfds, poller, lastpmod>>
  BY DEF Poll, TakeZpull, ZpullAgain, AcceptFails, Respond, RespondFails, RecvGone, clients, net
<1>3. /\ SocketsAccountedFor' /\ DistinctSockets' /\ RegistryExact'
      /\ ResponseReady' /\ AcceptedAreFresh' /\ ReceivedTagged'
  BY <1>2 DEF Inv, SocketsAccountedFor, DistinctSockets, RegistryExact, ResponseReady,
     AcceptedAreFresh, ReceivedTagged
<1>4. fds' = fds
  BY <1>2 DEF fds
<1>5. CASE Poll
  <2>1. BacklogWaits'
    BY <1>2, <1>5 DEF Poll, Inv, BacklogWaits
  <2>2. LoopPhases' /\ PollerTracksClients'
    BY <1>2, <1>4, <1>5 DEF Poll, Inv, LoopPhases, PollerTracksClients
  <2>3. RecvNeverBlocks'
    BY <1>2, <1>5 DEF Poll, RecvNeverBlocks, Readable
  <2> QED
    BY <1>1, <1>3, <2>1, <2>2, <2>3 DEF Inv
<1>6. CASE ~Poll
  <2>0. events \in [zpull : BOOLEAN, tcp : BOOLEAN, fds : SUBSET Fds]
    BY DEF Inv, TypeOK
  <2>1. /\ pc' # "poll" /\ (pc' = "body" => pc = "body")
        /\ events'.tcp = events.tcp /\ (events'.zpull => events.zpull)
        /\ events'.fds \subseteq events.fds
    BY <1>6, <2>0 DEF TakeZpull, ZpullAgain, Draining, AcceptFails, AcceptTurn, Respond, RespondFails, Consumed, RecvGone,
       ReadTurn
  <2>2. BacklogWaits' /\ LoopPhases' /\ PollerTracksClients'
    BY <1>2, <1>4, <2>1 DEF Inv, BacklogWaits, LoopPhases, PollerTracksClients
  <2>3. RecvNeverBlocks'
    BY <1>2, <2>1 DEF Inv, RecvNeverBlocks, Readable
  <2> QED
    BY <1>1, <1>3, <2>2, <2>3 DEF Inv
<1> QED
  BY <1>5, <1>6

\* The descriptor that accept() returns was free: not served, and since no
\* client has been stopped in this iteration yet, not registered either.
LEMMA InvAccept ==
  ASSUME Inv, NEW fd \in Fds, Accept(fd)
  PROVE  Inv'
<1> DEFINE c == Head(backlog)
<1>1. TypeOK'
  BY InvTypes DEF Next, Iteration
<1>2. /\ pc = "body" /\ events.tcp /\ received = <<>> /\ pollingfds = fds
  BY DEF Accept, AcceptTurn, Inv, LoopPhases
<1>3. backlog \in Seq(Conns) /\ backlog # <<>>
  BY <1>2 DEF Inv, TypeOK, BacklogWaits
<1>4. /\ c \in Conns /\ c = backlog[1] /\ Len(backlog) \in Nat \ {0}
      /\ Len(backlog') = Len(backlog) - 1
      /\ \A k \in 1..Len(backlog') : backlog'[k] = backlog[k + 1]
  BY <1>3 DEF Accept
<1>5. sockfd[c] = NoFd
  BY <1>4 DEF Inv, BacklogWaits
<1>6. by_fd[fd] = NoConn
  BY DEF Accept, Inv, TypeOK, SocketsAccountedFor
<1>7. fd \notin pollingfds
  BY <1>2, <1>6 DEF fds
<1>8. /\ sockfd' = [d \in Conns |-> IF d = c THEN fd ELSE sockfd[d]]
      /\ toadd' = toadd \cup {c}
      /\ UNCHANGED <<by_fd, by_imei, imei, pmod, wire, hup, pc, received, pollingfds, poller,
                     lastpmod>>
      /\ ~events'.tcp /\ events'.fds = events.fds /\ events'.zpull = events.zpull
      /\ \A d \in Conns : sockfd[d] # fd
  BY DEF Accept, Inv, TypeOK
<1> HIDE DEF c
<1>9. SocketsAccountedFor'
  BY <1>4, <1>5, <1>6, <1>8, NullAssumption DEF Inv, TypeOK, SocketsAccountedFor
<1>10. DistinctSockets'
  BY <1>4, <1>8 DEF Inv, TypeOK, DistinctSockets
<1>11. RegistryExact'
  BY <1>4, <1>5, <1>8, NullAssumption DEF Inv, TypeOK, RegistryExact
<1>12. ResponseReady' /\ ReceivedTagged'
  BY <1>8 DEF Inv, ResponseReady, ReceivedTagged
<1>13. AcceptedAreFresh'
  BY <1>4, <1>5, <1>6, <1>7, <1>8 DEF Inv, TypeOK, AcceptedAreFresh
<1>14. BacklogWaits'
  <2>1. \A k \in 1..Len(backlog') : sockfd'[backlog'[k]] = NoFd
    <3> SUFFICES ASSUME NEW k \in 1..Len(backlog') PROVE sockfd'[backlog'[k]] = NoFd
      OBVIOUS
    <3>1. k + 1 \in 1..Len(backlog) /\ 1 \in 1..Len(backlog) /\ k + 1 # 1
      BY <1>4
    <3>2. backlog[k + 1] # c /\ sockfd[backlog[k + 1]] = NoFd /\ backlog[k + 1] \in Conns
      BY <1>3, <1>4, <3>1 DEF Inv, BacklogWaits
    <3> QED
      BY <1>4, <1>8, <3>2
  <2>2. \A j, k \in 1..Len(backlog') : backlog'[j] = backlog'[k] => j = k
    BY <1>4 DEF Inv, BacklogWaits
  <2> QED
    BY <1>8, <2>1, <2>2 DEF BacklogWaits
<1>15. fds' = fds
  BY <1>8 DEF fds
<1>16. LoopPhases' /\ PollerTracksClients'
  BY <1>2, <1>8, <1>15 DEF Inv, LoopPhases, PollerTracksClients
<1>17. RecvNeverBlocks'
  BY <1>5, <1>8, NullAssumption DEF Inv, TypeOK, RecvNeverBlocks, Readable
<1> QED
  BY <1>1, <1>9, <1>10, <1>11, <1>12, <1>13, <1>14, <1>16, <1>17 DEF Inv

\* Stopping the client at fd keeps the dictionaries exact, provided it leaves
\* the rest of them alone.
LEMMA StopKeeps ==
  ASSUME Inv, NEW fd \in Fds, Stop(fd, imei, wire), by_imei' = Forget(fd, imei),
         UNCHANGED <<pmod, toadd, backlog, pollingfds, poller, pc>>,
         events'.tcp = events.tcp, events'.fds \subseteq events.fds, pc = "body"
  PROVE  /\ SocketsAccountedFor' /\ DistinctSockets' /\ RegistryExact'
         /\ AcceptedAreFresh' /\ BacklogWaits' /\ PollerTracksClients'
         /\ RecvNeverBlocks'
         /\ fds' \subseteq fds
         /\ imei' = imei
         /\ \A f \in Fds : by_fd'[f] # NoConn => by_fd'[f] = by_fd[f]
         /\ \A i \in Imeis : by_imei'[i] # NoConn => by_imei'[i] = by_imei[i]
<1> DEFINE old == by_fd[fd]
<1>1. old \in Conns \cup {NoConn} /\ old = ClientAt(fd)
  BY DEF Inv, TypeOK, ClientAt
<1>2. /\ Dropped(old) /\ imei' = imei
      /\ \A d \in Conns : d # old => wire'[d] = wire[d]
      /\ \A i \in Imeis : by_imei'[i] =
           IF by_imei[i] = old /\ old # NoConn /\ imei[by_imei[i]] = i
           THEN NoConn ELSE by_imei[i]
  BY <1>1, StopDrops DEF Inv
<1>3. old \notin toadd
  <2>1. toadd \subseteq Conns
    BY DEF Inv, TypeOK
  <2>2. old # NoConn => sockfd[old] = fd
    BY DEF Inv, SocketsAccountedFor
  <2>3. \A c \in toadd : by_fd[sockfd[c]] = NoConn
    BY DEF Inv, AcceptedAreFresh
  <2> QED
    BY <2>1, <2>2, <2>3, NullAssumption
<1> HIDE DEF old
<1>4. /\ SocketsAccountedFor' /\ DistinctSockets' /\ AcceptedAreFresh' /\ BacklogWaits'
      /\ fds' \subseteq fds
  BY <1>1, <1>2, <1>3, DropKeeps
<1>5. \A f \in Fds : by_fd'[f] # NoConn => by_fd'[f] = by_fd[f] /\ by_fd[f] # old
  BY <1>2 DEF Dropped
<1>6. \A i \in Imeis : by_imei'[i] # NoConn => by_imei'[i] = by_imei[i] /\ by_imei[i] # old
  BY <1>1, <1>2, NullAssumption DEF Inv, TypeOK, RegistryExact
<1>7. RegistryExact'
  <2>1. ASSUME NEW i \in Imeis, by_imei'[i] # NoConn
        PROVE  imei'[by_imei'[i]] = i /\ sockfd'[by_imei'[i]] # NoFd /\ by_imei'[i] \notin toadd'
    BY <1>2, <1>6, <2>1 DEF Inv, TypeOK, RegistryExact, Dropped
  <2>2. ASSUME NEW f \in Fds, by_fd'[f] # NoConn, imei'[by_fd'[f]] # None
        PROVE  by_imei'[imei'[by_fd'[f]]] = by_fd'[f]
    <3>1. by_fd'[f] = by_fd[f] /\ by_fd[f] \in Conns /\ by_fd[f] # old
      BY <1>5, <2>2 DEF Inv, TypeOK
    <3>2. imei[by_fd[f]] \in Imeis /\ by_imei[imei[by_fd[f]]] = by_fd[f]
      BY <1>2, <2>2, <3>1 DEF Inv, TypeOK, RegistryExact
    <3> QED
      BY <1>2, <3>1, <3>2
  <2> QED
    BY <2>1, <2>2 DEF RegistryExact
<1>8. PollerTracksClients'
  BY DEF Inv, PollerTracksClients
<1>9. RecvNeverBlocks'
  <2> SUFFICES ASSUME NEW f \in events.fds, f \in Fds, by_fd'[f] # NoConn
               PROVE  Readable(f)'
    BY DEF RecvNeverBlocks, Inv, TypeOK
  <2>1. by_fd[f] \in Conns /\ by_fd[f] # NoConn /\ by_fd[f] # old /\ sockfd[by_fd[f]] = f
    BY <1>5 DEF Inv, TypeOK, SocketsAccountedFor
  <2>2. wire[by_fd[f]] # <<>> \/ hup[by_fd[f]]
    <3>1. PICK d \in Conns : sockfd[d] = f /\ (wire[d] # <<>> \/ hup[d])
      BY <2>1 DEF Inv, RecvNeverBlocks, Readable
    <3>2. d = by_fd[f]
      BY <2>1, <3>1, NullAssumption DEF Inv, TypeOK, DistinctSockets
    <3> QED
      BY <3>1, <3>2
  <2> QED
    BY <1>2, <2>1, <2>2 DEF Readable, Dropped
<1> QED
  BY <1>2, <1>4, <1>5, <1>6, <1>7, <1>8, <1>9

\* A client whose connection has ended.
LEMMA InvEof ==
  ASSUME Inv, NEW fd \in Fds, RecvEof(fd)
  PROVE  Inv'
<1>1. TypeOK'
  BY InvTypes DEF Next, Iteration, Recv
<1>2. /\ pc = "body" /\ received = <<>> /\ ~events.zpull /\ ~events.tcp
      /\ Stop(fd, imei, wire) /\ by_imei' = Forget(fd, imei)
      /\ UNCHANGED <<pmod, toadd, backlog, pollingfds, poller, pc, received, lastpmod>>
      /\ events'.tcp = events.tcp /\ events'.fds \subseteq events.fds
      /\ events'.zpull = events.zpull
  BY DEF RecvEof, ReadTurn, Inv, TypeOK
<1>3. /\ SocketsAccountedFor' /\ DistinctSockets' /\ RegistryExact'
      /\ AcceptedAreFresh' /\ BacklogWaits' /\ PollerTracksClients'
      /\ RecvNeverBlocks'
      /\ fds' \subseteq fds
      /\ \A i \in Imeis : by_imei'[i] # NoConn => by_imei'[i] = by_imei[i]
  BY <1>2, StopKeeps
<1>4. LoopPhases'
  BY <1>2, <1>3 DEF Inv, LoopPhases
<1>5. ResponseReady'
  BY <1>2, <1>3 DEF Inv, ResponseReady
<1>6. ReceivedTagged'
  BY <1>2 DEF ReceivedTagged
<1> QED
  BY <1>1, <1>3, <1>4, <1>5, <1>6 DEF Inv

\* A packet is published, and a goodbye stops its client.
LEMMA InvPublish ==
  ASSUME Inv, Publish
  PROVE  Inv'
<1> DEFINE r == Head(received)
           Rec == [fd : Fds, pmod : Pmods, imei : Imeis \cup {None}, peeraddr : Conns, pkt : Packets]
<1>1. TypeOK'
  BY InvTypes DEF Next, Iteration
<1>2. /\ pc = "body" /\ received # <<>> /\ received' = Tail(received)
      /\ UNCHANGED <<pmod, toadd, backlog, pollingfds, poller, pc, events>>
      /\ lastpmod' = r.pmod
  BY DEF Publish
<1>3. received \in Seq(Rec)
  BY DEF Inv, TypeOK
<1>4. /\ r \in Rec /\ Len(received) \in Nat \ {0}
      /\ Len(received') = Len(received) - 1
      /\ \A k \in 1..Len(received') : /\ received'[k] = received[k + 1]
                                      /\ k + 1 \in 1..Len(received)
                                      /\ received[k + 1] \in Rec
  <2> HIDE DEF Rec
  <2> QED
    BY <1>2, <1>3
<1>5. lastpmod' # None
  BY <1>2, <1>4, NullAssumption
<1>6. ~events.zpull /\ ~events.tcp
  BY <1>2 DEF Inv, LoopPhases
<1>7. CASE Stop(r.fd, imei, wire) /\ by_imei' = Forget(r.fd, imei)
  <2>1. r.fd \in Fds
    BY <1>4
  <2> HIDE DEF r
  <2>2. /\ SocketsAccountedFor' /\ DistinctSockets' /\ RegistryExact'
        /\ AcceptedAreFresh' /\ BacklogWaits' /\ PollerTracksClients'
        /\ RecvNeverBlocks'
        /\ fds' \subseteq fds
        /\ imei' = imei
        /\ \A f \in Fds : by_fd'[f] # NoConn => by_fd'[f] = by_fd[f]
        /\ \A i \in Imeis : by_imei'[i] # NoConn => by_imei'[i] = by_imei[i]
    BY <1>2, <1>7, <2>1, StopKeeps
  <2>3. LoopPhases'
    BY <1>2, <1>6, <2>2 DEF Inv, LoopPhases
  <2>4. ResponseReady'
    BY <1>2, <1>5, <2>2 DEF Inv, ResponseReady
  <2>5. ReceivedTagged'
    BY <1>2, <1>4, <2>2 DEF Inv, ReceivedTagged
  <2> QED
    BY <1>1, <2>2, <2>3, <2>4, <2>5 DEF Inv
<1>8. CASE UNCHANGED <<by_fd, by_imei, sockfd, imei, wire, hup>>
  <2>1. /\ SocketsAccountedFor' /\ DistinctSockets' /\ RegistryExact' /\ AcceptedAreFresh'
        /\ BacklogWaits'
    BY <1>2, <1>8 DEF Inv, SocketsAccountedFor, DistinctSockets, RegistryExact,
       AcceptedAreFresh, BacklogWaits
  <2>2. fds' = fds
    BY <1>8 DEF fds
  <2>3. LoopPhases' /\ PollerTracksClients'
    BY <1>2, <1>6, <2>2 DEF Inv, LoopPhases, PollerTracksClients
  <2>4. ResponseReady'
    BY <1>2, <1>5, <1>8 DEF Inv, ResponseReady
  <2>5. ReceivedTagged'
    BY <1>2, <1>4, <1>8 DEF Inv, ReceivedTagged
  <2>6. RecvNeverBlocks'
    BY <1>2, <1>8 DEF Inv, RecvNeverBlocks, Readable
  <2> QED
    BY <1>1, <2>1, <2>3, <2>4, <2>5, <2>6 DEF Inv
<1> QED
  BY <1>7, <1>8 DEF Publish

\* What is the same for every segment that is read.
LEMMA SegmentRead ==
  ASSUME Inv, NEW fd \in Fds, RecvSegment(fd)
  PROVE  /\ by_fd[fd] \in Conns /\ sockfd[by_fd[fd]] = fd
         /\ pc = "body" /\ received = <<>> /\ ~events.zpull /\ ~events.tcp
         /\ pmod' = [d \in Conns |-> IF d = by_fd[fd] THEN pmod'[by_fd[fd]] ELSE pmod[d]]
         /\ pmod[by_fd[fd]] # None => pmod'[by_fd[fd]] = pmod[by_fd[fd]]
         /\ events'.fds = events.fds \ {fd} /\ ~events'.zpull /\ ~events'.tcp
         /\ UNCHANGED <<backlog, pc, toadd, pollingfds, poller, lastpmod>>
         /\ wire[by_fd[fd]] # <<>>
<1>1. by_fd[fd] \in Conns /\ sockfd[by_fd[fd]] = fd
  BY DEF RecvSegment, Inv, TypeOK, SocketsAccountedFor
<1>2. pmod' = [pmod EXCEPT ![by_fd[fd]] = Probe(by_fd[fd], Head(wire[by_fd[fd]]))]
  BY DEF RecvSegment
<1>3. events' = [events EXCEPT !.fds = @ \ {fd}]
  BY DEF RecvSegment
<1> QED
  BY <1>1, <1>2, <1>3 DEF RecvSegment, ReadTurn, Inv, TypeOK, Probe

\* The readiness of the clients that are not read in this step.
LEMMA OthersReadable ==
  ASSUME Inv, NEW fd \in Fds, RecvSegment(fd), NEW old \in Conns \cup {NoConn}, Dropped(old),
         \A d \in Conns : d # old /\ d # by_fd[fd] => wire'[d] = wire[d]
  PROVE  RecvNeverBlocks'
<1> DEFINE c == by_fd[fd]
<1>1. c \in Conns /\ pc = "body" /\ events'.fds = events.fds \ {fd}
  BY SegmentRead
<1> SUFFICES ASSUME NEW f \in Fds, f \in events.fds, f # fd, by_fd'[f] # NoConn
             PROVE  Readable(f)'
  BY <1>1 DEF RecvNeverBlocks, Inv, TypeOK
<1>2. /\ by_fd[f] \in Conns /\ by_fd[f] # NoConn /\ by_fd[f] # old
      /\ sockfd[by_fd[f]] = f /\ sockfd[c] = fd
  BY SegmentRead DEF Inv, TypeOK, SocketsAccountedFor, Dropped
<1>3. by_fd[f] # c
  BY <1>2
<1>4. wire[by_fd[f]] # <<>> \/ hup[by_fd[f]]
  <2>1. PICK d \in Conns : sockfd[d] = f /\ (wire[d] # <<>> \/ hup[d])
    BY <1>1, <1>2 DEF Inv, RecvNeverBlocks, Readable
  <2>2. d = by_fd[f]
    BY <1>2, <2>1, NullAssumption DEF Inv, TypeOK, DistinctSockets
  <2> QED
    BY <2>1, <2>2
<1> QED
  BY <1>2, <1>3, <1>4 DEF Readable, Dropped

\* A segment that logs nobody in.
LEMMA InvPlain ==
  ASSUME Inv, NEW fd \in Fds, RecvUnknown(fd) \/ RecvPlain(fd)
  PROVE  Inv'
<1> DEFINE c == by_fd[fd]
<1>1. TypeOK'
  BY InvTypes DEF Next, Iteration, Recv
<1>2. RecvSegment(fd)
  BY DEF RecvUnknown, RecvPlain
<1>3. /\ c \in Conns /\ sockfd[c] = fd
      /\ pc = "body" /\ received = <<>> /\ ~events.zpull /\ ~events.tcp
      /\ pmod' = [d \in Conns |-> IF d = c THEN pmod'[c] ELSE pmod[d]]
      /\ pmod[c] # None => pmod'[c] = pmod[c]
      /\ events'.fds = events.fds \ {fd} /\ ~events'.zpull /\ ~events'.tcp
      /\ UNCHANGED <<backlog, pc, toadd, pollingfds, poller, lastpmod>>
  BY <1>2, SegmentRead
<1>4. /\ UNCHANGED <<by_fd, by_imei, sockfd, imei, hup>>
      /\ wire' = [wire EXCEPT ![c] = Tail(@)]
  BY DEF RecvUnknown, RecvPlain
<1>5. \A k \in 1..Len(received') :
        received'[k].peeraddr = c /\ received'[k].imei = imei[c] /\ received'[k].pmod = pmod'[c]
  <2>1. CASE RecvUnknown(fd)
    BY <1>3, <2>1 DEF RecvUnknown
  <2>2. CASE RecvPlain(fd)
    <3> DEFINE pkts == Deframed(c, Head(wire[c]))
               im == [k \in 1..Len(pkts) |-> imei[c]]
    <3>1. received' = Tagged(fd, pmod'[c], pkts, im)
      BY <2>2 DEF RecvPlain
    <3>2. pkts \in Seq(Packets)
      BY <1>2, SegmentRead, HeadOfWire DEF Inv
    <3>3. received' = [k \in 1..Len(pkts) |-> [fd |-> fd, pmod |-> pmod'[c], imei |-> im[k],
                                                peeraddr |-> c, pkt |-> pkts[k]]]
      BY <3>1 DEF Tagged
    <3> HIDE DEF pkts, c
    <3> QED
      BY <3>2, <3>3
  <2> QED
    BY <2>1, <2>2
<1> HIDE DEF c
<1>6. /\ SocketsAccountedFor' /\ DistinctSockets' /\ RegistryExact' /\ AcceptedAreFresh'
      /\ BacklogWaits'
  BY <1>3, <1>4 DEF Inv, SocketsAccountedFor, DistinctSockets, RegistryExact,
     AcceptedAreFresh, BacklogWaits
<1>7. fds' = fds
  BY <1>4 DEF fds
<1>8. LoopPhases' /\ PollerTracksClients'
  BY <1>3, <1>7 DEF Inv, LoopPhases, PollerTracksClients
<1>9. ResponseReady'
  BY <1>3, <1>4 DEF Inv, TypeOK, ResponseReady
<1>10. ReceivedTagged'
  BY <1>4, <1>5 DEF ReceivedTagged
<1>11. RecvNeverBlocks'
  <2>1. Dropped(NoConn)
    BY <1>4, NullAssumption DEF Dropped, Inv, TypeOK
  <2>2. \A d \in Conns : d # by_fd[fd] => wire'[d] = wire[d]
    BY <1>4 DEF c, Inv, TypeOK
  <2> QED
    BY <1>2, <2>1, <2>2, OthersReadable
<1> QED
  BY <1>1, <1>6, <1>8, <1>9, <1>10, <1>11 DEF Inv

\* A login in plain terms: the connection that had the IMEI, if any, is
\* dropped and the one that logs in is entered.
LEMMA LoginEffect ==
  ASSUME Inv, NEW fd \in Fds, RecvLogin(fd)
  PROVE  \E i \in Imeis :
           /\ imei[by_fd[fd]] = None /\ by_imei[i] # by_fd[fd] /\ by_imei[i] \notin toadd
           /\ Dropped(by_imei[i])
           /\ imei' = [d \in Conns |-> IF d = by_fd[fd] THEN i
                                       ELSE IF d = by_imei[i] THEN None ELSE imei[d]]
           /\ by_imei' = [by_imei EXCEPT ![i] = by_fd[fd]]
           /\ \A d \in Conns : d # by_imei[i] /\ d # by_fd[fd] => wire'[d] = wire[d]
           /\ received' # <<>> /\ pmod'[by_fd[fd]] # None
           /\ \A k \in 1..Len(received') : /\ received'[k].peeraddr = by_fd[fd]
                                           /\ received'[k].pmod = pmod'[by_fd[fd]]
                                           /\ received'[k].imei \in {None, i}
<1> DEFINE c == by_fd[fd]
           pkts == Deframed(c, Head(wire[c]))
<1>1. RecvSegment(fd) /\ pmod'[c] # None
  BY DEF RecvLogin
<1>2. c \in Conns /\ pkts \in Seq(Packets)
  BY <1>1, SegmentRead, HeadOfWire DEF Inv
<1>3. PICK k \in 1..Len(pkts) :
        /\ LogsIn(c, pkts, k)
        /\ LET i == pkts[k].imei
               old == by_imei[i]
               oldfd == IF old = NoConn THEN NoFd ELSE sockfd[old]
               im == [d \in Conns |-> IF d = c THEN i
                                      ELSE IF d = old THEN None ELSE imei[d]]
               known == [j \in 1..Len(pkts) |-> IF j < k THEN None ELSE i]
           IN /\ Stop(oldfd, im, [wire EXCEPT ![c] = Tail(@)])
              /\ by_imei' = [Forget(oldfd, im) EXCEPT ![i] = c]
              /\ received' = Tagged(fd, pmod'[c], pkts, known)
  BY DEF RecvLogin
<1> DEFINE i == pkts[k].imei
           old == by_imei[i]
           oldfd == IF old = NoConn THEN NoFd ELSE sockfd[old]
           im == [d \in Conns |-> IF d = c THEN i
                                  ELSE IF d = old THEN None ELSE imei[d]]
           known == [j \in 1..Len(pkts) |-> IF j < k THEN None ELSE i]
           wr == [wire EXCEPT ![c] = Tail(@)]
<1>4. /\ Stop(oldfd, im, wr)
      /\ by_imei' = [Forget(oldfd, im) EXCEPT ![i] = c]
      /\ received' = Tagged(fd, pmod'[c], pkts, known)
  BY <1>3
<1>5. i \in Imeis /\ imei[c] = None
  <2>1. pkts[k] \in Packets
    BY <1>2
  <2> HIDE DEF pkts
  <2> QED
    BY <1>3, <2>1 DEF LogsIn, Packets
<1>6. /\ received' # <<>>
      /\ \A j \in 1..Len(received') : /\ received'[j].peeraddr = c
                                      /\ received'[j].pmod = pmod'[c]
                                      /\ received'[j].imei \in {None, i}
  <2>1. Len(pkts) \in Nat /\ known \in [1..Len(pkts) -> {None, i}]
    BY <1>2
  <2> HIDE DEF pkts, c, known, i
  <2>2. 1 \in 1..Len(pkts)
    BY <2>1, <1>3
  <2>3. received' = [j \in 1..Len(pkts) |-> [fd |-> fd, pmod |-> pmod'[c],
                                              imei |-> known[j], peeraddr |-> c,
                                              pkt |-> pkts[j]]]
    BY <1>4 DEF Tagged, c
  <2>4. Len(received') = Len(pkts)
    BY <2>1, <2>3
  <2>5. received' # <<>>
    BY <2>2, <2>4
  <2>6. \A j \in 1..Len(received') :
          received'[j].peeraddr = c /\ received'[j].pmod = pmod'[c] /\ received'[j].imei = known[j]
    BY <2>3, <2>4
  <2> QED
    BY <2>1, <2>4, <2>5, <2>6
<1> HIDE DEF pkts, i
<1>7. old # NoConn => old \in Conns /\ imei[old] = i /\ oldfd \in Fds /\ old \notin toadd
                      /\ by_fd[oldfd] = old
  BY <1>5 DEF Inv, TypeOK, RegistryExact, SocketsAccountedFor
<1>8. old # c /\ old \notin toadd
  BY <1>2, <1>5, <1>7, NullAssumption DEF Inv, TypeOK
<1>9. old = ClientAt(oldfd) /\ oldfd \in Fds \cup {NoFd}
  BY <1>7, NullAssumption DEF ClientAt
<1>10. im \in [Conns -> Imeis \cup {None}]
  BY <1>5 DEF Inv, TypeOK
<1>11. /\ Dropped(old) /\ imei' = im
       /\ \A d \in Conns : d # old => wire'[d] = wr[d]
       /\ \A j \in Imeis : Forget(oldfd, im)[j] =
            IF by_imei[j] = old /\ old # NoConn /\ im[by_imei[j]] = j THEN NoConn ELSE by_imei[j]
  <2> HIDE DEF old, oldfd, im, wr
  <2> QED
    BY <1>4, <1>9, StopDrops DEF Inv
<1>12. \A j \in Imeis : Forget(oldfd, im)[j] = by_imei[j]
  <2> SUFFICES ASSUME NEW j \in Imeis, by_imei[j] = old, old # NoConn
               PROVE  im[by_imei[j]] # j
    BY <1>11
  <2>1. im[old] = None
    BY <1>7, <1>8
  <2> QED
    BY <2>1, NullAssumption
<1>13. by_imei' = [by_imei EXCEPT ![i] = c]
  <2> HIDE DEF old, oldfd, im, c
  <2>1. Forget(oldfd, im) = by_imei
    BY <1>12 DEF Forget, Inv, TypeOK
  <2> QED
    BY <1>4, <2>1
<1>14. \A d \in Conns : d # old /\ d # c => wire'[d] = wire[d]
  BY <1>11 DEF Inv, TypeOK
<1> QED
  BY <1>1, <1>5, <1>6, <1>8, <1>11, <1>13, <1>14

\* A segment that logs a terminal in, maybe in place of an older connection.
LEMMA InvLogin ==
  ASSUME Inv, NEW fd \in Fds, RecvLogin(fd)
  PROVE  Inv'
<1> DEFINE c == by_fd[fd]
<1>1. TypeOK'
  BY InvTypes DEF Next, Iteration, Recv
<1>2. RecvSegment(fd)
  BY DEF RecvLogin
<1>3. /\ c \in Conns /\ sockfd[c] = fd
      /\ pc = "body" /\ received = <<>> /\ ~events.zpull /\ ~events.tcp
      /\ pmod' = [d \in Conns |-> IF d = c THEN pmod'[c] ELSE pmod[d]]
      /\ events'.fds = events.fds \ {fd} /\ ~events'.zpull /\ ~events'.tcp
      /\ UNCHANGED <<backlog, pc, toadd, pollingfds, poller, lastpmod>>
  BY <1>2, SegmentRead
<1>4. PICK i \in Imeis :
        /\ imei[c] = None /\ by_imei[i] # c /\ by_imei[i] \notin toadd
        /\ Dropped(by_imei[i])
        /\ imei' = [d \in Conns |-> IF d = c THEN i
                                    ELSE IF d = by_imei[i] THEN None ELSE imei[d]]
        /\ by_imei' = [by_imei EXCEPT ![i] = c]
        /\ \A d \in Conns : d # by_imei[i] /\ d # c => wire'[d] = wire[d]
        /\ received' # <<>> /\ pmod'[c] # None
        /\ \A k \in 1..Len(received') : /\ received'[k].peeraddr = c
                                        /\ received'[k].pmod = pmod'[c]
                                        /\ received'[k].imei \in {None, i}
  BY LoginEffect
<1> DEFINE old == by_imei[i]
<1>5. old \in Conns \cup {NoConn}
  BY DEF Inv, TypeOK
<1>6. RecvNeverBlocks'
  BY <1>2, <1>4, <1>5, OthersReadable
<1>7. /\ SocketsAccountedFor' /\ DistinctSockets' /\ AcceptedAreFresh' /\ BacklogWaits'
      /\ fds' \subseteq fds
  <2>1. events'.tcp = events.tcp
    BY <1>1, <1>3 DEF Inv, TypeOK
  <2> QED
    BY <1>3, <1>4, <1>5, <2>1, DropKeeps
<1>8. \A f \in Fds : by_fd'[f] = IF by_fd[f] = old THEN NoConn ELSE by_fd[f]
  BY <1>4 DEF Dropped
<1>9. c \notin toadd /\ sockfd'[c] # NoFd
  <2>1. sockfd'[c] = fd
    BY <1>3, <1>4 DEF Dropped
  <2>2. c \notin toadd
    BY <1>3, NullAssumption DEF Inv, AcceptedAreFresh
  <2> QED
    BY <2>1, <2>2, NullAssumption
<1>10. RegistryExact'
  <2>1. ASSUME NEW j \in Imeis, by_imei'[j] # NoConn
        PROVE  imei'[by_imei'[j]] = j /\ sockfd'[by_imei'[j]] # NoFd /\ by_imei'[j] \notin toadd'
    <3>1. CASE j = i
      BY <1>3, <1>4, <1>9, <3>1 DEF Inv, TypeOK
    <3>2. CASE j # i
      <4>1. by_imei'[j] = by_imei[j] /\ by_imei[j] \in Conns
        BY <1>4, <2>1, <3>2 DEF Inv, TypeOK
      <4>2. imei[by_imei[j]] = j /\ sockfd[by_imei[j]] # NoFd /\ by_imei[j] \notin toadd
        BY <2>1, <4>1 DEF Inv, RegistryExact
      <4>3. by_imei[j] # c
        BY <1>4, <4>2, NullAssumption
      <4>4. by_imei[j] # old
        BY <3>2, <4>1, <4>2, NullAssumption DEF Inv, RegistryExact
      <4> QED
        BY <1>3, <1>4, <4>1, <4>2, <4>3, <4>4 DEF Dropped
    <3> QED
      BY <3>1, <3>2
  <2>2. ASSUME NEW f \in Fds, by_fd'[f] # NoConn, imei'[by_fd'[f]] # None
        PROVE  by_imei'[imei'[by_fd'[f]]] = by_fd'[f]
    <3>1. by_fd'[f] = by_fd[f] /\ by_fd[f] # old /\ by_fd[f] \in Conns
      BY <1>8, <2>2 DEF Inv, TypeOK
    <3>2. CASE by_fd[f] = c
      BY <1>3, <1>4, <3>1, <3>2 DEF Inv, TypeOK
    <3>3. CASE by_fd[f] # c
      <4>1. imei'[by_fd[f]] = imei[by_fd[f]] /\ imei[by_fd[f]] \in Imeis
        BY <1>4, <2>2, <3>1, <3>3 DEF Inv, TypeOK
      <4>2. by_imei[imei[by_fd[f]]] = by_fd[f]
        BY <2>2, <3>1, <4>1, NullAssumption DEF Inv, RegistryExact
      <4> QED
        BY <1>4, <3>1, <4>1, <4>2 DEF Inv, TypeOK
    <3> QED
      BY <3>2, <3>3
  <2> QED
    BY <2>1, <2>2 DEF RegistryExact
<1>11. ResponseReady'
  <2> SUFFICES ASSUME NEW j \in Imeis, by_imei'[j] # NoConn
               PROVE  pmod'[by_imei'[j]] # None
    BY <1>4 DEF ResponseReady
  <2>1. CASE j = i
    BY <1>4, <2>1 DEF Inv, TypeOK
  <2>2. CASE j # i
    <3>1. by_imei'[j] = by_imei[j] /\ by_imei[j] \in Conns /\ by_imei[j] # NoConn
      BY <1>4, <2>2 DEF Inv, TypeOK
    <3>2. pmod[by_imei[j]] # None
      BY <3>1 DEF Inv, ResponseReady
    <3> QED
      BY <1>3, <1>4, <3>1, <3>2
  <2> QED
    BY <2>1, <2>2
<1>12. ReceivedTagged'
  BY <1>3, <1>4 DEF ReceivedTagged
<1>13. LoopPhases' /\ PollerTracksClients'
  BY <1>3, <1>7 DEF Inv, LoopPhases, PollerTracksClients
<1> QED
  BY <1>1, <1>6, <1>7, <1>10, <1>11, <1>12, <1>13 DEF Inv

\* Descriptors freed in this iteration are unregistered and the accepted
\* sockets registered: the poller then watches the clients exactly.
LEMMA InvSettle ==
  ASSUME Inv, Settle
  PROVE  Inv'
<1> DEFINE new == {sockfd[c] : c \in toadd}
<1>1. TypeOK'
  BY InvTypes DEF Next, Iteration
<1>2. /\ events = NoEvents /\ received = <<>> /\ toadd' = {} /\ pc' = "poll"
      /\ UNCHANGED <<by_imei, sockfd, backlog, wire, hup, events, received, lastpmod>>
      /\ imei' = [c \in Conns |-> IF c \in toadd THEN None ELSE imei[c]]
      /\ pmod' = [c \in Conns |-> IF c \in toadd THEN None ELSE pmod[c]]
      /\ poller' = (poller \ (pollingfds \ fds)) \cup (fds' \ pollingfds)
      /\ pollingfds' = fds'
  BY DEF Settle, Added, Constructed, Consumed, net
<1>3. \A c \in toadd : /\ c \in Conns /\ sockfd[c] \in Fds /\ sockfd[c] \notin pollingfds
                       /\ by_fd[sockfd[c]] = NoConn
  BY DEF Inv, TypeOK, AcceptedAreFresh
<1>4. \A f \in Fds : \/ f \in new /\ by_fd'[f] \in toadd /\ sockfd[by_fd'[f]] = f
                     \/ f \notin new /\ by_fd'[f] = by_fd[f]
  BY DEF Settle, Added, Constructed
<1>5. \A c \in toadd : by_fd'[sockfd[c]] = c
  BY <1>3, <1>4, NullAssumption, ZenonT(30) DEF Inv, TypeOK, DistinctSockets
<1>6. fds' = fds \cup new
  BY <1>3, <1>4, NullAssumption DEF fds
<1>7. new \cap pollingfds = {} /\ fds \subseteq pollingfds /\ poller = pollingfds
  BY <1>3 DEF Inv, LoopPhases, PollerTracksClients
<1>8. poller' = fds'
  BY <1>2, <1>6, <1>7
<1> HIDE DEF new
<1>9. SocketsAccountedFor'
  <2>1. \A f \in Fds : by_fd'[f] # NoConn => sockfd'[by_fd'[f]] = f
    BY <1>2, <1>4 DEF Inv, SocketsAccountedFor
  <2>2. ASSUME NEW c \in Conns, sockfd'[c] # NoFd
        PROVE  by_fd'[sockfd'[c]] = c
    <3>1. CASE c \in toadd
      BY <1>2, <1>5, <3>1
    <3>2. CASE c \notin toadd
      <4>1. by_fd[sockfd[c]] = c /\ sockfd[c] \in Fds
        BY <1>2, <2>2, <3>2 DEF Inv, TypeOK, SocketsAccountedFor
      <4>2. sockfd[c] \notin new
        BY <1>3, <4>1, NullAssumption DEF new
      <4> QED
        BY <1>2, <1>4, <4>1, <4>2
    <3> QED
      BY <3>1, <3>2
  <2> QED
    BY <2>1, <2>2 DEF SocketsAccountedFor
<1>10. RegistryExact'
  <2>1. ASSUME NEW i \in Imeis, by_imei'[i] # NoConn
        PROVE  imei'[by_imei'[i]] = i /\ sockfd'[by_imei'[i]] # NoFd /\ by_imei'[i] \notin toadd'
    BY <1>2, <2>1 DEF Inv, TypeOK, RegistryExact
  <2>2. ASSUME NEW f \in Fds, by_fd'[f] # NoConn, imei'[by_fd'[f]] # None
        PROVE  by_imei'[imei'[by_fd'[f]]] = by_fd'[f]
    <3>1. f \notin new /\ by_fd'[f] = by_fd[f] /\ by_fd[f] \in Conns /\ by_fd[f] \notin toadd
      BY <1>2, <1>3, <1>4, <2>2 DEF Inv, TypeOK
    <3>2. imei'[by_fd[f]] = imei[by_fd[f]]
      BY <1>2, <3>1
    <3> QED
      BY <1>2, <2>2, <3>1, <3>2 DEF Inv, RegistryExact
  <2> QED
    BY <2>1, <2>2 DEF RegistryExact
<1>11. ResponseReady'
  <2> SUFFICES ASSUME NEW i \in Imeis, by_imei'[i] # NoConn
               PROVE  pmod'[by_imei'[i]] # None /\ lastpmod' # None
    BY DEF ResponseReady
  <2>1. by_imei[i] \in Conns /\ by_imei[i] \notin toadd
    BY <1>2 DEF Inv, TypeOK, RegistryExact
  <2> QED
    BY <1>2, <2>1 DEF Inv, ResponseReady
<1>12. DistinctSockets' /\ BacklogWaits' /\ AcceptedAreFresh' /\ ReceivedTagged'
  BY <1>2 DEF Inv, DistinctSockets, BacklogWaits, AcceptedAreFresh, ReceivedTagged
<1>13. LoopPhases' /\ PollerTracksClients' /\ RecvNeverBlocks'
  BY <1>2, <1>8 DEF LoopPhases, PollerTracksClients, RecvNeverBlocks, NoEvents
<1> QED
  BY <1>1, <1>9, <1>10, <1>11, <1>12, <1>13 DEF Inv

\* Every step keeps Inv.
LEMMA InvStep == Inv /\ [Next]_vars => Inv'
<1> SUFFICES ASSUME Inv, [Next]_vars PROVE Inv'
  OBVIOUS
<1>1. CASE UNCHANGED vars
  <2>1. TypeOK' /\ fds' = fds
    BY <1>1, InvTypes DEF vars, clients, fds
  <2> QED
    BY <1>1, <2>1 DEF vars, clients, net, loop, Inv, SocketsAccountedFor, DistinctSockets,
       RegistryExact, ResponseReady, BacklogWaits, LoopPhases, AcceptedAreFresh,
       PollerTracksClients, RecvNeverBlocks, Readable, ReceivedTagged
<1>2. CASE Terminals \/ \E resp \in Resps : Push(resp)
  BY <1>2, InvPeers
<1>3. CASE Iteration
  <2>1. ASSUME NEW fd \in Fds, Recv(fd) PROVE Inv'
    BY <2>1, InvQuiet, InvEof, InvPlain, InvLogin DEF Recv
  <2> QED
    BY <1>1, <1>3, <2>1, InvQuiet, InvAccept, InvPublish, InvSettle DEF Iteration, ZpullEndless
<1>4. CASE Restart
  <2>1. Init'
    BY <1>4, RestartInit
  <2>2. (Init => Inv)'
    BY InvInit, PTL
  <2> QED
    BY <2>1, <2>2
<1> QED
  BY <1>1, <1>2, <1>3, <1>4 DEF Next

\* The inductive invariant holds in every reachable state.
THEOREM Invariance == Spec => []Inv
BY InvInit, InvStep, PTL DEF Spec

\* Clients.by_fd and the open sockets agree: stop(fd) closes the right socket
\* and no socket is leaked.
THEOREM SocketsAccounted == Spec => []SocketsAccountedFor
<1>1. Inv => SocketsAccountedFor
  BY DEF Inv
<1> QED
  BY <1>1, Invariance, PTL

\* by_imei holds exactly the served clients that have logged in: no KeyError
\* in Clients.stop, and no two served connections with one IMEI.
THEOREM RegistryCorrect == Spec => []RegistryExact
<1>1. Inv => RegistryExact
  BY DEF Inv
<1> QED
  BY <1>1, Invariance, PTL

\* The assertion of Client.send holds whenever a response is sent, and the
\* loop variable that names its protocol module is bound.
THEOREM SendAsserts == Spec => []ResponseReady
<1>1. Inv => ResponseReady
  BY DEF Inv
<1> QED
  BY <1>1, Invariance, PTL

\* When the loop polls, it watches the served clients and nothing else.
THEOREM PollerCorrect == Spec => []PollerTracksClients
<1>1. Inv => PollerTracksClients
  BY DEF Inv
<1> QED
  BY <1>1, Invariance, PTL

\* The loop never blocks in sock.recv.
THEOREM NeverBlocks == Spec => []RecvNeverBlocks
<1>1. Inv => RecvNeverBlocks
  BY DEF Inv
<1> QED
  BY <1>1, Invariance, PTL

=============================================================================
