---------------------- MODULE CollectorRefinementProofs ----------------------
(***************************************************************************)
(* Collector implements TerminalDirectory, and its action properties hold. *)
(***************************************************************************)
EXTENDS CollectorProofs

\* The steps that leave both dictionaries alone.
LEMMA OtherSteps ==
  ASSUME Terminals \/ (\E resp \in Resps : Push(resp)) \/ Poll \/ TakeZpull \/ ZpullAgain
           \/ ZpullEndless \/ AcceptFails \/ Respond \/ RespondFails
           \/ \E fd \in Fds : Accept(fd) \/ RecvGone(fd) \/ RecvUnknown(fd) \/ RecvPlain(fd)
  PROVE  UNCHANGED <<by_fd, by_imei, imei>>
BY DEF Terminals, Connect, TermSend, Hangup, Push, Poll, TakeZpull, ZpullAgain, ZpullEndless,
   AcceptFails, Accept, Respond, RespondFails, RecvGone, RecvUnknown, RecvPlain, clients, vars

\* Stopping the client at a descriptor closes one connection of the directory.
LEMMA StopCloses ==
  ASSUME Inv, NEW fd \in Fds, Stop(fd, imei, wire), by_imei' = Forget(fd, imei)
  PROVE  \/ \E c \in Conns : Directory!Close(c)
         \/ UNCHANGED <<served, by_imei>>
<1> DEFINE old == by_fd[fd]
<1>1. old \in Conns \cup {NoConn} /\ old = ClientAt(fd)
  BY DEF Inv, TypeOK, ClientAt
<1>2. /\ Dropped(old)
      /\ \A i \in Imeis : by_imei'[i] =
           IF by_imei[i] = old /\ old # NoConn /\ imei[by_imei[i]] = i
           THEN NoConn ELSE by_imei[i]
  BY <1>1, StopDrops DEF Inv
<1>3. by_imei' = [i \in Imeis |-> by_imei'[i]] /\ by_imei = [i \in Imeis |-> by_imei[i]]
  BY DEF Forget, Inv, TypeOK
<1> HIDE DEF old
<1>4. \A f \in Fds : by_fd'[f] = IF by_fd[f] = old THEN NoConn ELSE by_fd[f]
  BY <1>2 DEF Dropped
<1>5. CASE old = NoConn
  <2>1. served' = served
    BY <1>4, <1>5 DEF served, fds
  <2>2. by_imei' = by_imei
    BY <1>2, <1>3, <1>5
  <2> QED
    BY <2>1, <2>2
<1>6. CASE old # NoConn
  <2>1. old \in served
    BY <1>6 DEF served, fds, old
  <2>2. served' = served \ {old}
    BY <1>4 DEF served, fds
  <2>3. by_imei' = [i \in Imeis |-> IF by_imei[i] = old THEN NoConn ELSE by_imei[i]]
    <3>1. \A i \in Imeis : by_imei[i] = old => imei[by_imei[i]] = i
      BY <1>6 DEF Inv, RegistryExact
    <3> QED
      BY <1>2, <1>3, <1>6, <3>1
  <2> QED
    BY <1>1, <1>6, <2>1, <2>2, <2>3 DEF Directory!Close
<1> QED
  BY <1>5, <1>6

\* A login of the collector is one of the directory.
LEMMA LoginLogsIn ==
  ASSUME Inv, NEW fd \in Fds, RecvLogin(fd)
  PROVE  \E c \in Conns : \E i \in Imeis : Directory!Login(c, i)
<1> DEFINE c == by_fd[fd]
<1>1. c \in Conns
  BY SegmentRead DEF RecvLogin
<1>2. PICK i \in Imeis :
        /\ imei[c] = None /\ by_imei[i] # c
        /\ Dropped(by_imei[i])
        /\ by_imei' = [by_imei EXCEPT ![i] = c]
  BY LoginEffect
<1>3. c \in served
  BY <1>1, NullAssumption DEF served, fds
<1>4. \A j \in Imeis : by_imei[j] # c
  BY <1>1, <1>2, NullAssumption DEF Inv, RegistryExact
<1>5. \A f \in Fds : by_fd'[f] = IF by_fd[f] = by_imei[i] THEN NoConn ELSE by_fd[f]
  BY <1>2 DEF Dropped
<1>6. served' = served \ {by_imei[i]}
  BY <1>5 DEF served, fds
<1> HIDE DEF c
<1>7. Directory!Login(c, i)
  BY <1>2, <1>3, <1>4, <1>6 DEF Directory!Login
<1> QED
  BY <1>1, <1>7

\* At the end of an iteration the accepted connections are opened.
LEMMA SettleOpens ==
  ASSUME Inv, Settle
  PROVE  \E new \in SUBSET Conns : Directory!Open(new)
<1>1. toadd \in SUBSET Conns
  BY DEF Inv, TypeOK
<1>2. \A c \in toadd : sockfd[c] \in Fds /\ by_fd[sockfd[c]] = NoConn
  BY DEF Inv, AcceptedAreFresh
<1>3. \A f \in Fds : \/ by_fd'[f] \in toadd /\ sockfd[by_fd'[f]] = f
                     \/ by_fd'[f] = by_fd[f] /\ \A c \in toadd : sockfd[c] # f
  BY DEF Settle, Added, Constructed
<1>4. \A c \in toadd : by_fd'[sockfd[c]] = c
  <2> SUFFICES ASSUME NEW c \in toadd PROVE by_fd'[sockfd[c]] = c
    OBVIOUS
  <2>1. by_fd'[sockfd[c]] \in toadd /\ sockfd[by_fd'[sockfd[c]]] = sockfd[c]
    BY <1>2, <1>3
  <2>2. sockfd[c] # NoFd
    BY <1>2, NullAssumption
  <2> QED
    BY <1>1, <2>1, <2>2 DEF Inv, DistinctSockets
<1>5. served \cap toadd = {}
  <2>1. \A f \in Fds : by_fd[f] # NoConn => sockfd[by_fd[f]] = f
    BY DEF Inv, SocketsAccountedFor
  <2> QED
    BY <1>2, <2>1 DEF served, fds
<1>6. served' = served \cup toadd
  <2>1. served' \subseteq served \cup toadd
    BY <1>3 DEF served, fds
  <2>2. toadd \subseteq served'
    BY <1>1, <1>2, <1>4, NullAssumption DEF served, fds
  <2>3. served \subseteq served'
    <3> SUFFICES ASSUME NEW f \in Fds, by_fd[f] # NoConn PROVE by_fd[f] \in served'
      BY DEF served, fds
    <3>1. by_fd'[f] = by_fd[f]
      BY <1>2, <1>3
    <3> QED
      BY <3>1 DEF served, fds
  <2> QED
    BY <2>1, <2>2, <2>3
<1>7. by_imei' = by_imei
  BY DEF Settle, Added, Constructed
<1> QED
  BY <1>1, <1>5, <1>6, <1>7 DEF Directory!Open

\* Initial states map to initial states.
LEMMA DirectoryInit == Init => Directory!Init
BY DEF Init, Directory!Init, served, fds

\* Every step maps to a step of the directory or leaves it alone.
LEMMA DirectoryStep == Inv /\ [Next]_vars => [Directory!Next]_(Directory!dirvars)
<1> SUFFICES ASSUME Inv, [Next]_vars
             PROVE  Directory!Next \/ UNCHANGED <<served, by_imei>>
  BY DEF Directory!dirvars
<1>1. CASE UNCHANGED <<by_fd, by_imei, imei>>
  BY <1>1 DEF served, fds
<1>2. ASSUME NEW fd \in Fds, RecvEof(fd)
      PROVE  Directory!Next \/ UNCHANGED <<served, by_imei>>
  BY <1>2, StopCloses DEF RecvEof, Directory!Next
<1>3. CASE Publish
  <2> DEFINE r == Head(received)
  <2>1. r.fd \in Fds
    <3> DEFINE Rec == [fd : Fds, pmod : Pmods, imei : Imeis \cup {None}, peeraddr : Conns, pkt : Packets]
    <3>1. received \in Seq(Rec) /\ received # <<>>
      BY <1>3 DEF Publish, Inv, TypeOK
    <3>2. r \in Rec
      <4> HIDE DEF Rec
      <4> QED
        BY <3>1
    <3> QED
      BY <3>2
  <2>2. CASE Stop(r.fd, imei, wire) /\ by_imei' = Forget(r.fd, imei)
    <3> HIDE DEF r
    <3> QED
      BY <2>1, <2>2, StopCloses DEF Directory!Next
  <2>3. CASE UNCHANGED <<by_fd, by_imei, imei>>
    BY <1>1, <2>3
  <2> QED
    BY <1>3, <2>2, <2>3 DEF Publish
<1>4. ASSUME NEW fd \in Fds, RecvLogin(fd) PROVE Directory!Next
  BY <1>4, LoginLogsIn DEF Directory!Next
<1>5. CASE Settle
  BY <1>5, SettleOpens DEF Directory!Next
<1>6. CASE Restart
  <2>1. served' = {} /\ by_imei' = [i \in Imeis |-> NoConn]
    BY <1>6 DEF Restart, served, fds
  <2> QED
    BY <2>1 DEF Directory!Next, Directory!Reset
<1>7. CASE UNCHANGED vars
  BY <1>1, <1>7 DEF vars, clients
<1> QED
  BY <1>1, <1>2, <1>3, <1>4, <1>5, <1>6, <1>7, OtherSteps DEF Next, Iteration, Recv

\* The two dictionaries of Clients implement the directory of terminals: the
\* newest login of an IMEI owns it, and closes the older connection.
THEOREM CollectorImplementsDirectory == Spec => ImplementsDirectory
BY DirectoryInit, DirectoryStep, Invariance, PTL DEF Spec, Directory!Spec, ImplementsDirectory

-----------------------------------------------------------------------------
\* A served connection keeps its IMEI until it is closed.
THEOREM StickyImei == Spec => ImeiIsSticky
<1> DEFINE A == \A c \in Conns :
                  (imei[c] # None /\ sockfd[c] # NoFd /\ c \notin toadd /\ imei'[c] # imei[c])
                    => sockfd'[c] = NoFd
<1>1. Inv /\ [Next]_vars => [A]_vars
  <2> SUFFICES ASSUME Inv, Next, NEW c \in Conns, imei[c] # None, sockfd[c] # NoFd,
                      c \notin toadd, imei'[c] # imei[c]
               PROVE  sockfd'[c] = NoFd
    OBVIOUS
  <2>1. CASE UNCHANGED <<by_fd, by_imei, imei>>
    BY <2>1
  <2>2. ASSUME NEW fd \in Fds, RecvEof(fd) PROVE FALSE
    BY <2>2 DEF RecvEof, Stop, Close
  <2>3. CASE Publish
    BY <2>3 DEF Publish, Stop, Close
  <2>4. ASSUME NEW fd \in Fds, RecvLogin(fd) PROVE sockfd'[c] = NoFd
    BY <2>4, LoginEffect DEF Dropped
  <2>5. CASE Settle
    BY <2>5 DEF Settle, Added, Constructed
  <2>6. CASE Restart
    BY <2>6 DEF Restart
  <2> QED
    BY <2>1, <2>2, <2>3, <2>4, <2>5, <2>6, OtherSteps DEF Next, Iteration, Recv
<1> QED
  BY <1>1, Invariance, PTL DEF Spec, ImeiIsSticky

\* What is broadcast bears the module and the IMEI of the connection it came in on.
THEOREM NoImpersonation == Spec => []PublishedAsSender
<1>1. Init => PublishedAsSender
  BY DEF Init, PublishedAsSender
<1>2. Inv /\ PublishedAsSender /\ [Next]_vars => PublishedAsSender'
  <2> SUFFICES ASSUME Inv, PublishedAsSender, [Next]_vars PROVE PublishedAsSender'
    OBVIOUS
  <2>1. CASE UNCHANGED <<zpub, imei, pmod>>
    BY <2>1 DEF PublishedAsSender
  <2>2. CASE zpub' = NoMsg
    BY <2>2 DEF PublishedAsSender
  <2>3. CASE Publish
    <3> DEFINE r == Head(received)
               Rec == [fd : Fds, pmod : Pmods, imei : Imeis \cup {None}, peeraddr : Conns,
                       pkt : Packets]
    <3>1. received \in Seq(Rec) /\ received # <<>>
      BY <2>3 DEF Publish, Inv, TypeOK
    <3>2. r = received[1] /\ 1 \in 1..Len(received)
      <4> HIDE DEF Rec
      <4> QED
        BY <3>1
    <3>3. r.pmod = pmod[r.peeraddr] /\ r.imei \in {None, imei[r.peeraddr]}
      BY <3>2 DEF Inv, ReceivedTagged
    <3>4. zpub' = Incoming(r) /\ imei' = imei /\ pmod' = pmod
      BY <2>3 DEF Publish, Stop
    <3> HIDE DEF r
    <3> QED
      BY <3>3, <3>4 DEF PublishedAsSender, Incoming
  <2>4. CASE Respond
    <3>1. zpub' = NoMsg \/ zpub'.dir = "out"
      BY <2>4 DEF Respond
    <3> QED
      BY <3>1 DEF PublishedAsSender
  <2>5. CASE Terminals \/ \E resp \in Resps : Push(resp)
    BY <2>1, <2>5 DEF Terminals, Connect, TermSend, Hangup, Push, clients
  <2>6. ASSUME NEW fd \in Fds, Accept(fd) \/ Recv(fd) PROVE zpub' = NoMsg
    BY <2>6 DEF Accept, Recv, RecvGone, RecvEof, RecvUnknown, RecvPlain, RecvLogin, RecvSegment
  <2>7. Poll \/ TakeZpull \/ ZpullAgain \/ AcceptFails \/ RespondFails \/ Settle \/ Restart
          => zpub' = NoMsg
    BY DEF Poll, TakeZpull, ZpullAgain, AcceptFails, RespondFails, Settle, Restart
  <2>8. CASE UNCHANGED vars
    BY <2>1, <2>8 DEF vars, clients
  <2> QED
    BY <2>2, <2>3, <2>4, <2>5, <2>6, <2>7, <2>8 DEF Next, Iteration, ZpullEndless
<1> QED
  BY <1>1, <1>2, Invariance, PTL DEF Spec

=============================================================================
