--------------------------- MODULE WsgatewayProofs ---------------------------
(***************************************************************************)
(* Proofs about Wsgateway, for any connections, descriptors, terminals,    *)
(* segments and bounds.                                                    *)
(***************************************************************************)
EXTENDS Wsgateway, SequenceFacts

Messages == [to : Conns \cup {NoConn}, item : Items]

\* What the locals of runserver are outside the part of the loop that uses them, and
\* what poll says of the listening socket.
LoopInv ==
  /\ pc \in {"poll", "write"} => /\ events = NoEvents /\ tosend = <<>>
                                 /\ topoll = {} /\ tostop = {} /\ towrite = {}
  /\ pc # "write" => trywrite = {} /\ writing = {} /\ morewait = {} /\ sending = NoFd
  /\ events.tcp => backlogged # <<>>

\* Clients.by_fd, the sockets and the poller agree: a descriptor of by_fd is that of its
\* client, an open socket is in by_fd or accepted in this iteration, no two sockets share
\* a descriptor, and a connection that waits for accept() has none.
TableInv ==
  /\ \A fd \in Fds : by_fd[fd] # NoConn => sockfd[by_fd[fd]] = fd
  /\ \A c \in Conns : sockfd[c] # NoFd => by_fd[sockfd[c]] = IF c \in topoll THEN NoConn ELSE c
  /\ \A c \in topoll : sockfd[c] # NoFd
  /\ \A c, d \in Conns : sockfd[c] = sockfd[d] /\ sockfd[c] # NoFd => c = d
  /\ \A k \in DOMAIN backlogged : sockfd[backlogged[k]] = NoFd
  /\ \A j, k \in DOMAIN backlogged : backlogged[j] = backlogged[k] => j = k
  /\ poller = {fd \in Fds : by_fd[fd] # NoConn}

\* The sets of descriptors that the loop keeps are of served clients; what is still to
\* be read is in no other set, and what is to be stopped is not to be written.
SetsInv ==
  /\ events.fds \cup events.out \cup tostop \cup towrite \cup towait \cup trywrite \cup pollout
       \subseteq poller
  /\ writing \subseteq trywrite /\ morewait \subseteq trywrite
  /\ sending # NoFd => sending \in trywrite
  /\ events.fds \cap (events.out \cup towrite \cup tostop) = {}
  /\ tostop \cap (events.out \cup towrite \cup towait) = {}

\* A client that is not served is as new; one that has not upgraded has had nothing but,
\* once it is to be stopped, the response to plain http; frames come from upgraded ones.
SlotInv ==
  \A c \in Conns :
    /\ c \notin served => ws[c] = "new" /\ wire[c] = <<>>
    /\ ws[c] = "new" => ws_data[c] = <<>>
    /\ ws[c] = "new" /\ sockfd[c] \notin tostop => out[c] = 0
    /\ \/ wire[c] = <<>>
       \/ \E seg \in Segments : wire[c] = <<seg>> /\ (seg.kind # "bad" => (seg.kind = "frames" <=> ws[c] # "new"))

\* Whose data waits is to be written in this iteration, unless the browser is gone; only
\* those of browsers that are gone are found busy.
PendingInv ==
  /\ \A c \in Conns : ws_data[c] # <<>> /\ ~hup[c] =>
       CASE pc = "body" -> sockfd[c] \in towrite
         [] pc = "write" -> sockfd[c] \in writing \cup {sending}
         [] pc = "poll" -> FALSE
         [] pc = "dead" -> TRUE
  /\ \A fd \in towait \cup morewait : hup[by_fd[fd]]

\* Who asked for an item is who it is for.
AskerInv ==
  /\ \A k \in DOMAIN zsub : zsub[k].asker = NoConn
  /\ \A k \in DOMAIN tosend : tosend[k].item.asker = tosend[k].to
  /\ AskedForByRecipient

\* The inductive invariant of the gateway.
IInv == GwTypeOK /\ LoopInv /\ TableInv /\ SetsInv /\ SlotInv /\ PendingInv /\ AskerInv

-----------------------------------------------------------------------------
(* The messages made of frames.                                            *)

USE GwInputs

\* A non-empty set of positions of a sequence has a last one.
LEMMA LastPosition ==
  ASSUME NEW n \in Nat, NEW P \in SUBSET (1..n), P # {}
  PROVE  Max(P) \in P
<1> DEFINE T == {n - k : k \in P}
           R == OpToRel(<, Nat)
<1>1. T \subseteq Nat /\ T # {}
  <2>1. \A k \in P : n - k \in Nat
    OBVIOUS
  <2> QED
    BY <2>1
<1>2. IsWellFoundedOn(R, Nat)
  BY NatLessThanWellFounded
<1>3. \A x, y \in Nat : y < x => <<y, x>> \in R
  BY DEF OpToRel
<1> HIDE DEF R, T
<1>4. PICK x \in T : \A y \in T : ~ (<<y, x>> \in R)
  BY <1>1, <1>2, WFMin
<1>5. PICK k \in P : x = n - k
  BY DEF T
<1>6. ASSUME NEW j \in P PROVE k >= j
  <2>1. n - j \in T /\ n - j \in Nat /\ n - k \in Nat /\ j \in Nat /\ k \in Nat
    BY DEF T
  <2>2. ~ (n - j < n - k)
    BY <1>3, <1>4, <1>5, <2>1
  <2> QED
    BY <2>1, <2>2
<1>7. \E m \in P : \A j \in P : m >= j
  BY <1>6
<1> QED
  BY <1>7 DEF Max

\* What the gateway answers to messages is for the browser that sent them.
LEMMA AnswersType ==
  ASSUME GwTypeOK, NEW frames \in Seq(Frames), NEW c \in Conns
  PROVE  Answers(frames, c) \in Seq({m \in Messages : m.to = c /\ m.item.asker = c})
<1> DEFINE For == {m \in Messages : m.to = c /\ m.item.asker = c}
<1>1. ASSUME NEW i \in Imeis PROVE Backlog(i, c) \in Seq(For)
  <2>1. stored[i] \in Nat
    BY DEF GwTypeOK
  <2> DEFINE first == IF stored[i] > Numback THEN stored[i] - Numback ELSE 0
  <2>2. first \in Nat /\ stored[i] - first \in Nat
    BY <2>1
  <2>3. \A k \in 1..(stored[i] - first) : [to |-> c, item |-> Report(i, first + k, c)] \in For
    BY <2>2 DEF Report, Messages, Items
  <2> QED
    BY <2>2, <2>3 DEF Backlog
<1>2. ASSUME NEW i \in Imeis PROVE Result(i, c) \in Seq(For)
  <2>1. [to |-> c, item |-> [kind |-> "result", imei |-> i, n |-> 0, asker |-> c]] \in For
    BY DEF Messages, Items
  <2> QED
    BY <2>1 DEF Result
<1> HIDE DEF For
<1>3. ASSUME NEW f \in Frames PROVE Answer(f, c) \in Seq(For)
  <2>1. CASE f.kind = "subscribe"
    <3>1. f.imeis \in Seq(Imeis)
      BY <2>1 DEF Frames
    <3>2. [k \in 1..Len(f.imeis) |-> Backlog(f.imeis[k], c)] \in Seq(Seq(For))
      BY <1>1, <3>1
    <3> QED
      BY <2>1, <3>2, FlattenType DEF Answer
  <2>2. CASE f.kind = "command"
    <3>1. PICK i \in Imeis : f.imeis = <<i>>
      BY <2>2 DEF Frames
    <3> QED
      BY <1>2, <2>2, <3>1 DEF Answer
  <2>3. CASE f.kind \notin {"subscribe", "command"}
    <3>1. <<>> \in Seq(For)
      OBVIOUS
    <3> QED
      BY <2>3, <3>1 DEF Answer
  <2> QED
    BY <2>1, <2>2, <2>3
<1>4. [k \in 1..Len(frames) |-> Answer(frames[k], c)] \in Seq(Seq(For))
  BY <1>3
<1>5. Answers(frames, c) \in Seq(For)
  BY <1>4, FlattenType DEF Answers
<1> QED
  BY <1>5 DEF For

\* Replies to control frames are about no terminal and asked for by nobody.
LEMMA RepliesType ==
  ASSUME NEW frames \in Seq(Frames)
  PROVE  Replies(frames) \in Seq({Reply("pong"), Reply("close")})
<1>1. ASSUME NEW f \in Frames PROVE Control(f) \in Seq({Reply("pong"), Reply("close")})
  <2>1. \A x \in {Reply("pong"), Reply("close")} : <<x>> \in Seq({Reply("pong"), Reply("close")})
    OBVIOUS
  <2>2. <<>> \in Seq({Reply("pong"), Reply("close")})
    OBVIOUS
  <2> QED
    BY <2>1, <2>2 DEF Control
<1>2. [k \in 1..Len(frames) |-> Control(frames[k])] \in Seq(Seq({Reply("pong"), Reply("close")}))
  BY <1>1
<1> QED
  BY <1>2, FlattenType DEF Replies

\* What recv makes of the set of IMEIs is a set of IMEIs.
LEMMA SubscribedType ==
  ASSUME NEW frames \in Seq(Frames), NEW old \in SUBSET Imeis
  PROVE  Subscribed(frames, old) \in SUBSET Imeis
<1> DEFINE at == {k \in 1..Len(frames) : frames[k].kind = "subscribe"}
<1>1. CASE at = {}
  BY <1>1 DEF Subscribed
<1>2. CASE at # {}
  <2>1. Max(at) \in at
    <3>1. at \in SUBSET (1..Len(frames)) /\ Len(frames) \in Nat
      OBVIOUS
    <3> HIDE DEF at
    <3> QED
      BY <1>2, <3>1, LastPosition
  <2>2. frames[Max(at)] \in Frames /\ frames[Max(at)].kind = "subscribe"
    BY <2>1
  <2>3. frames[Max(at)].imeis \in Seq(Imeis)
    BY <2>2 DEF Frames
  <2>4. Range(frames[Max(at)].imeis) \subseteq Imeis
    BY <2>3 DEF Range
  <2> QED
    BY <1>2, <2>4 DEF Subscribed
<1> QED
  BY <1>1, <1>2

\* A reply is an item that nobody asked for, of a terminal that does not exist.
LEMMA ReplyType ==
  ASSUME NEW k \in {"accept", "pong", "close"}
  PROVE  Reply(k) \in Items /\ Reply(k).asker = NoConn /\ Reply(k).kind \notin {"report", "result"}
BY DEF Reply, Items

-----------------------------------------------------------------------------
(* The initial states, the browsers, the rest of the system.               *)

USE DEF clientvars, netvars, busvars, iteration, writevars

\* A new Client object, a new process: nothing is served, nothing waits.
LEMMA InitIInv == Init => IInv
<1> SUFFICES ASSUME Init PROVE IInv
  OBVIOUS
<1>1. <<>> \in Seq(Items) /\ <<>> \in Seq(Conns) /\ <<>> \in Seq(Segments)
      /\ <<>> \in Seq(Messages) /\ DOMAIN <<>> = {} /\ Len(<<>>) = 0
  OBVIOUS
<1>2. GwTypeOK
  BY <1>1 DEF Init, GwTypeOK, NoEvents, Messages
<1>3. LoopInv /\ SetsInv
  BY DEF Init, LoopInv, SetsInv, NoEvents
<1>4. TableInv
  BY <1>1 DEF Init, TableInv
<1>5. SlotInv /\ PendingInv
  BY <1>1 DEF Init, SlotInv, PendingInv, served
<1>6. AskerInv
  BY <1>1 DEF Init, AskerInv, AskedForByRecipient
<1> QED
  BY <1>2, <1>3, <1>4, <1>5, <1>6 DEF IInv

\* A connection request waits behind those that wait already.
LEMMA ConnectIInv ==
  ASSUME IInv, NEW c \in Conns, Connect(c)
  PROVE  IInv'
<1>1. /\ backlogged \in Seq(Conns) /\ backlogged' = Append(backlogged, c)
      /\ sockfd[c] = NoFd /\ c \notin Range(backlogged)
  BY DEF IInv, GwTypeOK, Connect, Live
<1>2. /\ backlogged' \in Seq(Conns) /\ backlogged' # <<>>
      /\ DOMAIN backlogged = 1..Len(backlogged) /\ Len(backlogged) \in Nat
      /\ DOMAIN backlogged' = 1..(Len(backlogged) + 1)
      /\ backlogged'[Len(backlogged) + 1] = c
      /\ \A k \in DOMAIN backlogged : backlogged'[k] = backlogged[k] /\ backlogged[k] # c
  BY <1>1 DEF Range
<1>3. \A k \in DOMAIN backlogged' : k \in DOMAIN backlogged \/ k = Len(backlogged) + 1
  BY <1>2
<1>4. GwTypeOK'
  BY <1>2 DEF IInv, GwTypeOK, Connect
<1>5. LoopInv'
  BY <1>2 DEF IInv, LoopInv, Connect
<1>6. TableInv'
  <2>1. UNCHANGED <<by_fd, sockfd, topoll, poller>>
    BY DEF Connect
  <2>2. \A k \in DOMAIN backlogged' : sockfd[backlogged'[k]] = NoFd
    BY <1>1, <1>2, <1>3 DEF IInv, TableInv
  <2>3. \A j, k \in DOMAIN backlogged' : backlogged'[j] = backlogged'[k] => j = k
    BY <1>2, <1>3 DEF IInv, TableInv
  <2> QED
    BY <2>1, <2>2, <2>3 DEF IInv, TableInv
<1>7. SetsInv' /\ SlotInv' /\ PendingInv' /\ AskerInv'
  BY DEF IInv, SetsInv, SlotInv, PendingInv, AskerInv, AskedForByRecipient, Connect, served
<1> QED
  BY <1>4, <1>5, <1>6, <1>7 DEF IInv

\* A browser sends what its state allows.
LEMMA BrowserSendIInv ==
  ASSUME IInv, NEW c \in Conns, NEW seg \in Segments, BrowserSend(c, seg)
  PROVE  IInv'
<1>1. /\ wire' = [wire EXCEPT ![c] = <<seg>>] /\ c \in served
      /\ UNCHANGED <<clientvars, backlogged, hup, out, busvars, activesubs, pc, events, iteration,
                     writevars>>
      /\ seg.kind # "bad" => (seg.kind = "frames" <=> ws[c] # "new")
  BY DEF BrowserSend, IInv, GwTypeOK
<1>2. <<seg>> \in Seq(Segments)
  OBVIOUS
<1>3. GwTypeOK'
  BY <1>1, <1>2 DEF IInv, GwTypeOK
<1>4. SlotInv'
  BY <1>1 DEF IInv, GwTypeOK, SlotInv, served
<1>5. LoopInv' /\ TableInv' /\ SetsInv' /\ PendingInv' /\ AskerInv'
  BY <1>1 DEF IInv, LoopInv, TableInv, SetsInv, PendingInv, AskerInv, AskedForByRecipient
<1> QED
  BY <1>3, <1>4, <1>5 DEF IInv

\* A browser goes away, or reads.
LEMMA HangupDrainIInv ==
  ASSUME IInv, NEW c \in Conns, Hangup(c) \/ Drain(c)
  PROVE  IInv'
<1>1. /\ UNCHANGED <<clientvars, backlogged, wire, busvars, activesubs, pc, events, iteration,
                     writevars>>
      /\ hup' = hup \/ hup' = [hup EXCEPT ![c] = TRUE]
      /\ \/ out' = [out EXCEPT ![c] = 0]
         \/ out[c] > 0 /\ out' = [out EXCEPT ![c] = @ - 1]
  BY DEF Hangup, Drain
<1>2. GwTypeOK'
  <2>1. out \in [Conns -> 0..SndBuf] /\ hup \in [Conns -> BOOLEAN]
    BY DEF IInv, GwTypeOK
  <2>2. hup' \in [Conns -> BOOLEAN]
    BY <1>1, <2>1
  <2>3. 0 \in 0..SndBuf /\ (out[c] > 0 => out[c] - 1 \in 0..SndBuf)
    BY <2>1
  <2>4. out' \in [Conns -> 0..SndBuf]
    BY <1>1, <2>1, <2>3
  <2> QED
    BY <1>1, <2>2, <2>4 DEF IInv, GwTypeOK
<1>3. \A d \in Conns : (out[d] = 0 => out'[d] = 0) /\ (hup[d] => hup'[d])
  BY <1>1 DEF IInv, GwTypeOK
<1>4. SlotInv'
  BY <1>1, <1>3 DEF IInv, SlotInv, served
<1>5. PendingInv'
  <2>1. \A fd \in towait \cup morewait : by_fd[fd] \in Conns
    BY DEF IInv, GwTypeOK, SetsInv, TableInv
  <2> QED
    BY <1>1, <1>3, <2>1 DEF IInv, PendingInv
<1>6. LoopInv' /\ TableInv' /\ SetsInv' /\ AskerInv'
  BY <1>1 DEF IInv, LoopInv, TableInv, SetsInv, AskerInv, AskedForByRecipient
<1> QED
  BY <1>2, <1>4, <1>5, <1>6 DEF IInv

\* Reports are published and stored; nobody asked for what comes from the SUB socket.
LEMMA PublishStoreIInv ==
  ASSUME IInv, NEW i \in Imeis, Publish(i) \/ Store(i)
  PROVE  IInv'
<1>1. UNCHANGED <<clientvars, netvars, activesubs, pc, events, iteration, writevars>>
  BY DEF Publish, Store
<1>2. /\ published' \in [Imeis -> 0..MaxReports] /\ stored' \in [Imeis -> 0..MaxReports]
  <2>1. /\ published \in [Imeis -> 0..MaxReports] /\ stored \in [Imeis -> 0..MaxReports]
        /\ published[i] \in 0..MaxReports /\ stored[i] \in 0..MaxReports
    BY DEF IInv, GwTypeOK
  <2>2. CASE Publish(i)
    <3>1. published[i] + 1 \in 0..MaxReports
      BY <2>1, <2>2 DEF Publish
    <3> QED
      BY <2>1, <2>2, <3>1 DEF Publish
  <2>3. CASE Store(i)
    <3>1. stored[i] + 1 \in 0..MaxReports
      BY <2>1, <2>3 DEF Store
    <3> QED
      BY <2>1, <2>3, <3>1 DEF Store
  <2> QED
    BY <2>2, <2>3
<1>3. zsub' = zsub \/ zsub' = Append(zsub, Report(i, published'[i], NoConn))
  BY DEF Publish, Store
<1>4. Report(i, published'[i], NoConn) \in Items /\ Report(i, published'[i], NoConn).asker = NoConn
  BY <1>2 DEF Report, Items
<1>5. zsub \in Seq(Items) /\ \A k \in DOMAIN zsub : zsub[k].asker = NoConn
  BY DEF IInv, GwTypeOK, AskerInv
<1>6. zsub' \in Seq(Items) /\ \A k \in DOMAIN zsub' : zsub'[k].asker = NoConn
  <2> DEFINE r == Report(i, published'[i], NoConn)
  <2> HIDE DEF r
  <2>1. r \in Items /\ r.asker = NoConn /\ (zsub' = zsub \/ zsub' = Append(zsub, r))
    BY <1>3, <1>4 DEF r
  <2>2. Append(zsub, r) \in Seq(Items) /\ \A k \in DOMAIN Append(zsub, r) : Append(zsub, r)[k].asker = NoConn
    BY <1>5, <2>1
  <2> QED
    BY <1>5, <2>1, <2>2
<1>7. GwTypeOK'
  BY <1>1, <1>2, <1>6 DEF IInv, GwTypeOK
<1>8. AskerInv'
  BY <1>1, <1>6 DEF IInv, AskerInv, AskedForByRecipient
<1>9. LoopInv' /\ TableInv' /\ SetsInv' /\ SlotInv' /\ PendingInv'
  BY <1>1 DEF IInv, LoopInv, TableInv, SetsInv, SlotInv, PendingInv, served
<1> QED
  BY <1>7, <1>8, <1>9 DEF IInv

-----------------------------------------------------------------------------
(* The loop up to where the poll queue is consumed.                        *)

\* poll returns descriptors of served clients, each for one thing.
LEMMA PollIInv ==
  ASSUME IInv, Poll
  PROVE  IInv'
<1>1. /\ pc = "poll" /\ pc' = "body"
      /\ UNCHANGED <<clientvars, netvars, busvars, activesubs, iteration, writevars>>
  BY DEF Poll
<1>2. /\ events' \in [zsub : BOOLEAN, tcp : BOOLEAN, fds : SUBSET Fds, out : SUBSET Fds]
      /\ events'.tcp => backlogged # <<>>
      /\ events'.fds \subseteq poller /\ events'.out \subseteq pollout
      /\ events'.fds \cap events'.out = {}
  BY DEF Poll, IInv, GwTypeOK
<1>3. GwTypeOK'
  BY <1>1, <1>2 DEF IInv, GwTypeOK
<1>4. LoopInv'
  BY <1>1, <1>2 DEF IInv, LoopInv
<1>5. SetsInv'
  BY <1>1, <1>2 DEF IInv, SetsInv, LoopInv
<1>6. PendingInv'
  BY <1>1 DEF IInv, PendingInv
<1>7. TableInv' /\ SlotInv' /\ AskerInv'
  BY <1>1 DEF IInv, TableInv, SlotInv, AskerInv, AskedForByRecipient, served
<1> QED
  BY <1>3, <1>4, <1>5, <1>6, <1>7 DEF IInv

\* All reports of the SUB socket are taken, each for whoever wants it.
LEMMA TakeZsubIInv ==
  ASSUME IInv, TakeZsub
  PROVE  IInv'
<1> DEFINE taken == [k \in 1..Len(zsub) |-> [to |-> NoConn, item |-> zsub[k]]]
<1>1. /\ pc = "body" /\ zsub' = <<>> /\ tosend' = tosend \o taken
      /\ events' = [events EXCEPT !.zsub = FALSE]
      /\ UNCHANGED <<clientvars, netvars, published, stored, activesubs, pc, topoll, tostop, towrite,
                     towait, writevars>>
  BY DEF TakeZsub
<1>2. /\ events' \in [zsub : BOOLEAN, tcp : BOOLEAN, fds : SUBSET Fds, out : SUBSET Fds]
      /\ events'.tcp = events.tcp /\ events'.fds = events.fds /\ events'.out = events.out
  BY <1>1 DEF IInv, GwTypeOK
<1> DEFINE Right == {m \in Messages : m.item.asker = m.to}
<1>3. tosend \in Seq(Right)
  <2>1. tosend \in Seq(Messages) /\ \A k \in DOMAIN tosend : tosend[k].item.asker = tosend[k].to
    BY DEF IInv, GwTypeOK, AskerInv, Messages
  <2> QED
    BY <2>1
<1>4. taken \in Seq(Right)
  <2>1. zsub \in Seq(Items) /\ \A k \in DOMAIN zsub : zsub[k].asker = NoConn
    BY DEF IInv, GwTypeOK, AskerInv
  <2>2. \A k \in 1..Len(zsub) : [to |-> NoConn, item |-> zsub[k]] \in Right
    BY <2>1 DEF Messages
  <2> QED
    BY <2>1, <2>2
<1>5. tosend' \in Seq(Right)
  BY <1>1, <1>3, <1>4
<1>6. tosend' \in Seq(Messages) /\ \A k \in DOMAIN tosend' : tosend'[k].item.asker = tosend'[k].to
  BY <1>5
<1>7. <<>> \in Seq(Items) /\ DOMAIN <<>> = {}
  OBVIOUS
<1>8. GwTypeOK'
  BY <1>1, <1>2, <1>6, <1>7 DEF IInv, GwTypeOK, Messages
<1>9. LoopInv' /\ SetsInv'
  BY <1>1, <1>2 DEF IInv, LoopInv, SetsInv
<1>10. AskerInv'
  BY <1>1, <1>6, <1>7 DEF IInv, AskerInv, AskedForByRecipient
<1>11. TableInv' /\ SlotInv' /\ PendingInv'
  BY <1>1 DEF IInv, TableInv, SlotInv, PendingInv, served
<1> QED
  BY <1>8, <1>9, <1>10, <1>11 DEF IInv

\* What nothing catches ends the loop where it is.
LEMMA DeadIInv ==
  ASSUME IInv, AcceptFails \/ SendFails \/ \E fd \in Fds : RecvBad(fd)
  PROVE  IInv'
<1>1. /\ pc = "body" /\ pc' = "dead"
      /\ UNCHANGED <<clientvars, backlogged, hup, out, busvars, activesubs, events, iteration, writevars>>
      /\ \/ wire' = wire
         \/ \E fd \in Fds : /\ fd \in events.fds /\ wire[by_fd[fd]] # <<>>
                            /\ wire' = [wire EXCEPT ![by_fd[fd]] = Tail(@)]
  BY DEF AcceptFails, AcceptTurn, SendFails, SendTurn, Consumed, RecvBad, RecvSegment, ReadTurn
<1>2. wire' \in [Conns -> Seq(Segments)] /\ \A c \in Conns : wire'[c] = wire[c] \/ wire'[c] = <<>>
  <2>1. CASE wire' = wire
    BY <2>1 DEF IInv, GwTypeOK
  <2>2. ASSUME NEW fd \in Fds, wire[by_fd[fd]] # <<>>, fd \in events.fds,
               wire' = [wire EXCEPT ![by_fd[fd]] = Tail(@)]
        PROVE  wire' \in [Conns -> Seq(Segments)] /\ \A c \in Conns : wire'[c] = wire[c] \/ wire'[c] = <<>>
    <3>1. by_fd[fd] \in Conns
      BY <2>2 DEF IInv, GwTypeOK, SetsInv, TableInv
    <3>2. \E seg \in Segments : wire[by_fd[fd]] = <<seg>>
      BY <2>2, <3>1 DEF IInv, SlotInv
    <3>3. Tail(wire[by_fd[fd]]) = <<>> /\ <<>> \in Seq(Segments)
      BY <3>2
    <3> QED
      BY <2>2, <3>1, <3>3 DEF IInv, GwTypeOK
  <2> QED
    BY <1>1, <2>1, <2>2
<1>3. GwTypeOK'
  BY <1>1, <1>2 DEF IInv, GwTypeOK
<1>4. LoopInv' /\ PendingInv'
  BY <1>1 DEF IInv, LoopInv, PendingInv
<1>5. SlotInv'
  BY <1>1, <1>2 DEF IInv, SlotInv, served
<1>6. TableInv' /\ SetsInv' /\ AskerInv'
  BY <1>1 DEF IInv, TableInv, SetsInv, AskerInv, AskedForByRecipient
<1> QED
  BY <1>3, <1>4, <1>5, <1>6 DEF IInv

\* accept(): a descriptor that no socket has goes to the connection that waits longest.
LEMMA AcceptIInv ==
  ASSUME IInv, NEW fd \in Fds, Accept(fd)
  PROVE  IInv'
<1> DEFINE c == Head(backlogged)
<1>1. backlogged \in Seq(Conns) /\ backlogged # <<>>
  BY DEF IInv, GwTypeOK, LoopInv, Accept, AcceptTurn
<1>2. /\ c \in Conns /\ c = backlogged[1] /\ 1 \in DOMAIN backlogged
      /\ backlogged' = Tail(backlogged) /\ Tail(backlogged) \in Seq(Conns)
      /\ \A k \in DOMAIN Tail(backlogged) :
           /\ Tail(backlogged)[k] = backlogged[k + 1]
           /\ k + 1 \in DOMAIN backlogged /\ k \in Nat /\ k + 1 # 1
  BY <1>1 DEF Accept
<1>3. /\ pc = "body" /\ \A d \in Conns : sockfd[d] # fd
      /\ sockfd' = [sockfd EXCEPT ![c] = fd] /\ topoll' = topoll \cup {c}
      /\ events' = [events EXCEPT !.tcp = FALSE]
      /\ UNCHANGED <<by_fd, ws, imeis, ws_data, wire, hup, out, busvars, activesubs, pc, tosend,
                     tostop, towrite, towait, writevars>>
  BY DEF Accept, AcceptTurn
<1> HIDE DEF c
<1>4. sockfd[c] = NoFd /\ \A k \in DOMAIN backlogged' : sockfd[backlogged'[k]] = NoFd
  BY <1>2 DEF IInv, TableInv
<1>5. /\ events' \in [zsub : BOOLEAN, tcp : BOOLEAN, fds : SUBSET Fds, out : SUBSET Fds]
      /\ ~events'.tcp /\ events'.fds = events.fds /\ events'.out = events.out
  BY <1>3 DEF IInv, GwTypeOK
<1>6. GwTypeOK'
  BY <1>2, <1>3, <1>5 DEF IInv, GwTypeOK
<1>7. LoopInv' /\ SetsInv'
  BY <1>3, <1>5 DEF IInv, LoopInv, SetsInv
<1>8. /\ sockfd'[c] = fd /\ by_fd[fd] = NoConn /\ c \notin topoll
      /\ \A d \in Conns : d # c => sockfd'[d] = sockfd[d]
  BY <1>2, <1>3, <1>4 DEF IInv, GwTypeOK, TableInv
<1>9. TableInv'
  <2>1. \A g \in Fds : by_fd'[g] # NoConn => sockfd'[by_fd'[g]] = g
    BY <1>3, <1>4, <1>8 DEF IInv, GwTypeOK, TableInv
  <2>2. \A d \in Conns : sockfd'[d] # NoFd => by_fd'[sockfd'[d]] = IF d \in topoll' THEN NoConn ELSE d
    BY <1>2, <1>3, <1>8 DEF IInv, TableInv
  <2>3. \A d \in topoll' : sockfd'[d] # NoFd
    BY <1>3, <1>8 DEF IInv, GwTypeOK, TableInv
  <2>4. \A d, e \in Conns : sockfd'[d] = sockfd'[e] /\ sockfd'[d] # NoFd => d = e
    BY <1>2, <1>3, <1>8 DEF IInv, TableInv
  <2>5. \A k \in DOMAIN backlogged' : sockfd'[backlogged'[k]] = NoFd
    <3>1. \A k \in DOMAIN backlogged' : backlogged'[k] \in Conns /\ backlogged'[k] # c
      BY <1>2 DEF IInv, TableInv
    <3> QED
      BY <1>4, <1>8, <3>1
  <2>6. \A j, k \in DOMAIN backlogged' : backlogged'[j] = backlogged'[k] => j = k
    BY <1>2 DEF IInv, TableInv
  <2>7. poller' = {g \in Fds : by_fd'[g] # NoConn}
    BY <1>3 DEF IInv, TableInv
  <2> QED
    BY <2>1, <2>2, <2>3, <2>4, <2>5, <2>6, <2>7 DEF TableInv
<1>10. SlotInv'
  <2>1. \A d \in Conns : d \in served' <=> d \in served
    BY <1>2, <1>3, <1>4, <1>8 DEF served
  <2>2. sockfd[c] \notin tostop
    BY <1>4 DEF IInv, GwTypeOK
  <2> QED
    BY <1>2, <1>3, <1>8, <2>1, <2>2 DEF IInv, SlotInv
<1>11. PendingInv'
  <2>1. ws_data[c] = <<>>
    BY <1>2, <1>4 DEF IInv, SlotInv, served
  <2> QED
    BY <1>3, <1>8, <2>1 DEF IInv, PendingInv
<1>12. AskerInv'
  BY <1>3 DEF IInv, AskerInv, AskedForByRecipient
<1> QED
  BY <1>6, <1>7, <1>9, <1>10, <1>11, <1>12 DEF IInv

\* Who is read from is served, and is in no other set.
LEMMA ReadFrom ==
  ASSUME IInv, NEW fd \in Fds, ReadTurn(fd)
  PROVE  /\ pc = "body" /\ fd \in events.fds /\ fd \in poller
         /\ by_fd[fd] \in Conns /\ sockfd[by_fd[fd]] = fd /\ by_fd[fd] \in served
         /\ fd \notin tostop /\ fd \notin towrite /\ fd \notin events.out
<1>1. pc = "body" /\ fd \in events.fds /\ fd \in poller
  BY DEF ReadTurn, IInv, SetsInv
<1>2. by_fd[fd] \in Conns /\ sockfd[by_fd[fd]] = fd
  BY <1>1 DEF IInv, GwTypeOK, TableInv
<1> QED
  BY <1>1, <1>2 DEF IInv, SetsInv, served

\* The descriptor's turn is over: the rest of the queue is as it was.
LEMMA TurnOver ==
  ASSUME IInv, NEW fd \in Fds, events' = [events EXCEPT !.fds = @ \ {fd}]
  PROVE  /\ events' \in [zsub : BOOLEAN, tcp : BOOLEAN, fds : SUBSET Fds, out : SUBSET Fds]
         /\ events'.tcp = events.tcp /\ events'.fds = events.fds \ {fd} /\ events'.out = events.out
BY DEF IInv, GwTypeOK

\* What is read is one segment, of a kind that fits the state of the browser.
LEMMA SegmentRead ==
  ASSUME IInv, NEW fd \in Fds, NEW kind, RecvSegment(fd, kind)
  PROVE  /\ Head(wire[by_fd[fd]]) \in Segments
         /\ Head(wire[by_fd[fd]]).frames \in Seq(Frames)
         /\ kind # "bad" => (kind = "frames" <=> ws[by_fd[fd]] # "new")
         /\ wire' \in [Conns -> Seq(Segments)]
         /\ wire'[by_fd[fd]] = <<>>
         /\ \A c \in Conns : c # by_fd[fd] => wire'[c] = wire[c]
<1> DEFINE b == by_fd[fd]
<1>1. b \in Conns /\ wire[b] # <<>> /\ Head(wire[b]).kind = kind
      /\ wire' = [wire EXCEPT ![b] = Tail(@)]
  BY ReadFrom DEF RecvSegment
<1> HIDE DEF b
<1>2. PICK seg \in Segments : wire[b] = <<seg>> /\ (seg.kind # "bad" => (seg.kind = "frames" <=> ws[b] # "new"))
  BY <1>1 DEF IInv, SlotInv
<1>3. Head(wire[b]) = seg /\ Tail(wire[b]) = <<>> /\ <<>> \in Seq(Segments)
  BY <1>2
<1>4. seg.frames \in Seq(Frames)
  OBVIOUS
<1>5. wire \in [Conns -> Seq(Segments)]
  BY DEF IInv, GwTypeOK
<1> QED
  BY <1>1, <1>2, <1>3, <1>4, <1>5 DEF b

\* EOF: the descriptor goes to tostop.
LEMMA RecvEofIInv ==
  ASSUME IInv, NEW fd \in Fds, RecvEof(fd)
  PROVE  IInv'
<1>1. ReadTurn(fd)
  BY DEF RecvEof
<1>2. /\ tostop' = tostop \cup {fd} /\ towait' = towait \ {fd}
      /\ events' = [events EXCEPT !.fds = @ \ {fd}]
      /\ UNCHANGED <<clientvars, netvars, busvars, activesubs, pc, tosend, topoll, towrite, writevars>>
  BY DEF RecvEof
<1>3. GwTypeOK'
  <2>1. events' \in [zsub : BOOLEAN, tcp : BOOLEAN, fds : SUBSET Fds, out : SUBSET Fds]
    BY <1>2, TurnOver
  <2>2. tostop' \subseteq Fds /\ towait' \subseteq Fds
    BY <1>2 DEF IInv, GwTypeOK
  <2> QED
    BY <1>2, <2>1, <2>2 DEF IInv, GwTypeOK
<1>4. LoopInv' /\ SetsInv'
  BY <1>1, <1>2, ReadFrom, TurnOver DEF IInv, LoopInv, SetsInv
<1>5. SlotInv'
  BY <1>2 DEF IInv, SlotInv, served
<1>6. PendingInv'
  BY <1>2 DEF IInv, PendingInv
<1>7. TableInv' /\ AskerInv'
  BY <1>2 DEF IInv, TableInv, AskerInv, AskedForByRecipient
<1> QED
  BY <1>3, <1>4, <1>5, <1>6, <1>7 DEF IInv

\* An upgrade is answered, and the answer is to be written.
LEMMA RecvUpgradeIInv ==
  ASSUME IInv, NEW fd \in Fds, RecvUpgrade(fd)
  PROVE  IInv'
<1> DEFINE b == by_fd[fd]
           more == Append(ws_data[b], Reply("accept"))
<1>1. RecvSegment(fd, "upgrade") /\ ReadTurn(fd)
  BY DEF RecvUpgrade, RecvSegment
<1>2. /\ ws' = [ws EXCEPT ![b] = "open"] /\ ws_data' = [ws_data EXCEPT ![b] = more]
      /\ towrite' = towrite \cup {fd} /\ events' = [events EXCEPT !.fds = @ \ {fd}]
      /\ UNCHANGED <<by_fd, sockfd, imeis, backlogged, hup, out, busvars, activesubs, pc, tosend,
                     topoll, tostop, towait, writevars>>
  BY DEF RecvUpgrade, RecvSegment
<1>3. b \in Conns /\ sockfd[b] = fd
  BY <1>1, ReadFrom
<1>4. ws_data[b] \in Seq(Items) /\ \A k \in DOMAIN ws_data[b] : ws_data[b][k].asker \in {b, NoConn}
  BY <1>3 DEF IInv, GwTypeOK, AskerInv, AskedForByRecipient
<1>5. /\ more \in Seq(Items) /\ more # <<>>
      /\ \A k \in 1..Len(more) : more[k].asker \in {b, NoConn}
  <2> DEFINE r == Reply("accept")
  <2>1. r \in Items /\ r.asker = NoConn
    BY ReplyType
  <2> HIDE DEF r
  <2>2. /\ Append(ws_data[b], r) \in Seq(Items) /\ Append(ws_data[b], r) # <<>>
        /\ DOMAIN ws_data[b] = 1..Len(ws_data[b]) /\ Len(ws_data[b]) \in Nat
        /\ Len(Append(ws_data[b], r)) = Len(ws_data[b]) + 1
        /\ Append(ws_data[b], r)[Len(ws_data[b]) + 1] = r
        /\ \A k \in 1..Len(ws_data[b]) : Append(ws_data[b], r)[k] = ws_data[b][k]
    BY <1>4, <2>1
  <2>3. \A k \in 1..(Len(ws_data[b]) + 1) : k \in 1..Len(ws_data[b]) \/ k = Len(ws_data[b]) + 1
    BY <2>2
  <2>4. \A k \in 1..(Len(ws_data[b]) + 1) : Append(ws_data[b], r)[k].asker \in {b, NoConn}
    BY <1>4, <2>1, <2>2, <2>3
  <2> QED
    BY <2>2, <2>4 DEF r
<1> HIDE DEF more, b
<1>6. GwTypeOK'
  <2>1. events' \in [zsub : BOOLEAN, tcp : BOOLEAN, fds : SUBSET Fds, out : SUBSET Fds]
        /\ wire' \in [Conns -> Seq(Segments)]
    BY <1>1, <1>2, TurnOver, SegmentRead
  <2>2. towrite' \subseteq Fds
    BY <1>2 DEF IInv, GwTypeOK
  <2>3. ws' \in [Conns -> {"new", "open", "closed"}] /\ ws_data' \in [Conns -> Seq(Items)]
    BY <1>2, <1>3, <1>5 DEF IInv, GwTypeOK
  <2> QED
    BY <1>2, <2>1, <2>2, <2>3 DEF IInv, GwTypeOK
<1>7. LoopInv' /\ SetsInv'
  BY <1>1, <1>2, ReadFrom, TurnOver DEF IInv, LoopInv, SetsInv
<1>8. SlotInv'
  <2>1. b \in served /\ wire'[b] = <<>> /\ \A c \in Conns : c # b => wire'[c] = wire[c]
    BY <1>1, ReadFrom, SegmentRead DEF b
  <2>2. served' = served /\ ws'[b] = "open"
    BY <1>2, <1>3 DEF served, IInv, GwTypeOK
  <2>3. \A c \in Conns : c # b => ws'[c] = ws[c] /\ ws_data'[c] = ws_data[c]
    BY <1>2, <1>3 DEF IInv, GwTypeOK
  <2> QED
    BY <1>2, <2>1, <2>2, <2>3 DEF IInv, SlotInv
<1>9. PendingInv'
  <2>1. pc = "body" /\ \A c \in Conns : c # b => ws_data'[c] = ws_data[c]
    BY <1>1, <1>2, ReadFrom DEF IInv, GwTypeOK
  <2> QED
    BY <1>2, <1>3, <2>1 DEF IInv, PendingInv
<1>10. AskerInv'
  <2>1. \A c \in Conns : ws_data'[c] = IF c = b THEN more ELSE ws_data[c]
    BY <1>2, <1>3 DEF IInv, GwTypeOK
  <2> QED
    BY <1>2, <1>5, <2>1 DEF IInv, AskerInv, AskedForByRecipient
<1>11. TableInv'
  BY <1>2 DEF IInv, TableInv
<1> QED
  BY <1>6, <1>7, <1>8, <1>9, <1>10, <1>11 DEF IInv

\* Plain http: there is room for the response, as nothing was written before.
LEMMA RecvHttpIInv ==
  ASSUME IInv, NEW fd \in Fds, RecvHttp(fd)
  PROVE  IInv'
<1> DEFINE b == by_fd[fd]
<1>1. RecvSegment(fd, "http") /\ ReadTurn(fd)
  BY DEF RecvHttp, RecvSegment
<1>2. /\ out' = [out EXCEPT ![b] = IF hup[b] THEN @ ELSE @ + 1]
      /\ tostop' = tostop \cup {fd} /\ towait' = towait \ {fd}
      /\ events' = [events EXCEPT !.fds = @ \ {fd}]
      /\ UNCHANGED <<clientvars, backlogged, hup, busvars, activesubs, pc, tosend, topoll, towrite,
                     writevars>>
  BY DEF RecvHttp, RecvSegment
<1>3. b \in Conns /\ sockfd[b] = fd /\ ws[b] = "new" /\ out[b] = 0
  BY <1>1, ReadFrom, SegmentRead DEF IInv, SlotInv
<1> HIDE DEF b
<1>4. out' \in [Conns -> 0..SndBuf] /\ \A c \in Conns : c # b => out'[c] = out[c]
  <2>1. out \in [Conns -> 0..SndBuf] /\ out[b] + 1 \in 0..SndBuf
    BY <1>3 DEF IInv, GwTypeOK
  <2> QED
    BY <1>2, <2>1
<1>5. GwTypeOK'
  <2>1. events' \in [zsub : BOOLEAN, tcp : BOOLEAN, fds : SUBSET Fds, out : SUBSET Fds]
        /\ wire' \in [Conns -> Seq(Segments)]
    BY <1>1, <1>2, TurnOver, SegmentRead
  <2>2. tostop' \subseteq Fds /\ towait' \subseteq Fds
    BY <1>2 DEF IInv, GwTypeOK
  <2> QED
    BY <1>2, <1>4, <2>1, <2>2 DEF IInv, GwTypeOK
<1>6. LoopInv' /\ SetsInv'
  BY <1>1, <1>2, ReadFrom, TurnOver DEF IInv, LoopInv, SetsInv
<1>7. SlotInv'
  <2>1. b \in served /\ wire'[b] = <<>> /\ \A c \in Conns : c # b => wire'[c] = wire[c]
    BY <1>1, ReadFrom, SegmentRead DEF b
  <2>2. served' = served /\ sockfd'[b] \in tostop'
    BY <1>2, <1>3 DEF served
  <2> QED
    BY <1>2, <1>4, <2>1, <2>2 DEF IInv, SlotInv
<1>8. PendingInv'
  BY <1>2 DEF IInv, PendingInv
<1>9. TableInv' /\ AskerInv'
  BY <1>2 DEF IInv, TableInv, AskerInv, AskedForByRecipient
<1> QED
  BY <1>5, <1>6, <1>7, <1>8, <1>9 DEF IInv

\* Frames: replies to control frames are to be written, answers to messages to be sent.
LEMMA RecvFramesIInv ==
  ASSUME IInv, NEW fd \in Fds, RecvFrames(fd)
  PROVE  IInv'
<1> DEFINE b == by_fd[fd]
           frames == Head(wire[b]).frames
           more == ws_data[b] \o Replies(frames)
           asked == tosend \o Answers(frames, b)
<1>1. RecvSegment(fd, "frames") /\ ReadTurn(fd)
  BY DEF RecvFrames, RecvSegment
<1>2. /\ ws' = [ws EXCEPT ![b] = IF Closes(frames) THEN "closed" ELSE @]
      /\ ws_data' = [ws_data EXCEPT ![b] = more]
      /\ imeis' = [imeis EXCEPT ![b] = Subscribed(frames, @)]
      /\ tosend' = asked
      /\ towrite' = towrite \cup {fd} /\ events' = [events EXCEPT !.fds = @ \ {fd}]
      /\ UNCHANGED <<by_fd, sockfd, backlogged, hup, out, busvars, activesubs, pc, topoll, tostop,
                     towait, writevars>>
  BY DEF RecvFrames, RecvSegment
<1>3. b \in Conns /\ sockfd[b] = fd /\ frames \in Seq(Frames) /\ ws[b] # "new"
  BY <1>1, ReadFrom, SegmentRead
<1> HIDE DEF b, frames
<1>4. /\ more \in Seq(Items)
      /\ \A k \in 1..Len(more) : more[k].asker \in {b, NoConn}
  <2> DEFINE Mine == {x \in Items : x.asker \in {b, NoConn}}
  <2>1. ws_data[b] \in Seq(Items) /\ \A k \in 1..Len(ws_data[b]) : ws_data[b][k].asker \in {b, NoConn}
    BY <1>3 DEF IInv, GwTypeOK, AskerInv, AskedForByRecipient
  <2>2. ws_data[b] \in Seq(Mine)
    BY <2>1
  <2>3. {Reply("pong"), Reply("close")} \subseteq Mine
    BY ReplyType
  <2>4. Replies(frames) \in Seq(Mine)
    <3>1. Replies(frames) \in Seq({Reply("pong"), Reply("close")})
      BY <1>3, RepliesType
    <3> HIDE DEF Mine
    <3> QED
      BY <2>3, <3>1
  <2>5. more \in Seq(Mine)
    <3> HIDE DEF Mine
    <3> QED
      BY <2>2, <2>4
  <2> HIDE DEF more
  <2> QED
    BY <2>5
<1>5. /\ asked \in Seq(Messages)
      /\ \A k \in DOMAIN asked : asked[k].item.asker = asked[k].to
  <2> DEFINE Right == {m \in Messages : m.item.asker = m.to}
  <2>1. tosend \in Seq(Right)
    <3>1. tosend \in Seq(Messages) /\ \A k \in DOMAIN tosend : tosend[k].item.asker = tosend[k].to
      BY DEF IInv, GwTypeOK, AskerInv, Messages
    <3> QED
      BY <3>1
  <2>2. Answers(frames, b) \in Seq(Right)
    <3> DEFINE For == {m \in Messages : m.to = b /\ m.item.asker = b}
    <3>1. Answers(frames, b) \in Seq(For)
      BY <1>3, AnswersType DEF IInv
    <3>2. For \subseteq Right
      OBVIOUS
    <3> HIDE DEF For, Right
    <3> QED
      BY <3>1, <3>2
  <2>3. asked \in Seq(Right)
    <3> HIDE DEF Right
    <3> QED
      BY <2>1, <2>2
  <2> HIDE DEF asked
  <2> QED
    BY <2>3
<1>6. imeis' \in [Conns -> SUBSET Imeis]
  <2>1. imeis \in [Conns -> SUBSET Imeis]
    BY DEF IInv, GwTypeOK
  <2>2. Subscribed(frames, imeis[b]) \in SUBSET Imeis
    BY <1>3, <2>1, SubscribedType
  <2> QED
    BY <1>2, <2>1, <2>2
<1> HIDE DEF more, asked
<1>7. GwTypeOK'
  <2>1. ws' \in [Conns -> {"new", "open", "closed"}] /\ ws_data' \in [Conns -> Seq(Items)]
    BY <1>2, <1>3, <1>4 DEF IInv, GwTypeOK
  <2>2. events' \in [zsub : BOOLEAN, tcp : BOOLEAN, fds : SUBSET Fds, out : SUBSET Fds]
        /\ wire' \in [Conns -> Seq(Segments)]
    BY <1>1, <1>2, TurnOver, SegmentRead
  <2>3. towrite' \subseteq Fds
    BY <1>2 DEF IInv, GwTypeOK
  <2> QED
    BY <1>2, <1>5, <1>6, <2>1, <2>2, <2>3 DEF IInv, GwTypeOK, Messages
<1>8. LoopInv' /\ SetsInv'
  BY <1>1, <1>2, ReadFrom, TurnOver DEF IInv, LoopInv, SetsInv
<1>9. SlotInv'
  <2>1. b \in served /\ wire'[b] = <<>> /\ \A c \in Conns : c # b => wire'[c] = wire[c]
    BY <1>1, ReadFrom, SegmentRead DEF b
  <2>2. served' = served /\ ws'[b] # "new"
    BY <1>2, <1>3 DEF served, IInv, GwTypeOK
  <2>3. \A c \in Conns : c # b => ws'[c] = ws[c] /\ ws_data'[c] = ws_data[c]
    BY <1>2, <1>3 DEF IInv, GwTypeOK
  <2> QED
    BY <1>2, <2>1, <2>2, <2>3 DEF IInv, SlotInv
<1>10. PendingInv'
  <2>1. pc = "body" /\ \A c \in Conns : c # b => ws_data'[c] = ws_data[c]
    BY <1>1, <1>2, ReadFrom DEF IInv, GwTypeOK
  <2> QED
    BY <1>2, <1>3, <2>1 DEF IInv, PendingInv
<1>11. AskerInv'
  <2>1. \A c \in Conns : ws_data'[c] = IF c = b THEN more ELSE ws_data[c]
    BY <1>2, <1>3 DEF IInv, GwTypeOK
  <2> QED
    BY <1>2, <1>4, <1>5, <2>1 DEF IInv, AskerInv, AskedForByRecipient
<1>12. TableInv'
  BY <1>2 DEF IInv, TableInv
<1> QED
  BY <1>7, <1>8, <1>9, <1>10, <1>11, <1>12 DEF IInv

-----------------------------------------------------------------------------
(* "poll queue consumed, make changes now"                                 *)

\* Clients.stop for all of tostop: their slots are as new, the others are untouched.
LEMMA StopIInv ==
  ASSUME IInv, Stop
  PROVE  IInv'
<1> DEFINE gone == {by_fd[fd] : fd \in tostop}
<1>1. /\ pc = "body" /\ events.fds = {} /\ tostop' = {}
      /\ sockfd' = [c \in Conns |-> IF c \in gone THEN NoFd ELSE sockfd[c]]
      /\ wire' = [c \in Conns |-> IF c \in gone THEN <<>> ELSE wire[c]]
      /\ hup' = [c \in Conns |-> IF c \in gone THEN FALSE ELSE hup[c]]
      /\ out' = [c \in Conns |-> IF c \in gone THEN 0 ELSE out[c]]
      /\ ws' = [c \in Conns |-> IF c \in gone THEN "new" ELSE ws[c]]
      /\ imeis' = [c \in Conns |-> IF c \in gone THEN {} ELSE imeis[c]]
      /\ ws_data' = [c \in Conns |-> IF c \in gone THEN <<>> ELSE ws_data[c]]
      /\ by_fd' = [fd \in Fds |-> IF fd \in tostop THEN NoConn ELSE by_fd[fd]]
      /\ poller' = poller \ tostop /\ pollout' = pollout \ tostop
      /\ UNCHANGED <<backlogged, busvars, activesubs, pc, events, tosend, topoll, towrite, towait,
                     trywrite, writing, sending, morewait>>
  BY DEF Stop, Consumed, Construct
<1>2. tostop \subseteq Fds /\ tostop \subseteq poller /\ NoFd \notin tostop
  BY DEF IInv, GwTypeOK, SetsInv
<1>3. \A c \in Conns : c \in gone <=> sockfd[c] \in tostop
  <2>1. ASSUME NEW fd \in tostop PROVE sockfd[by_fd[fd]] = fd /\ by_fd[fd] # NoConn
    BY <1>2 DEF IInv, TableInv
  <2>2. ASSUME NEW c \in Conns, sockfd[c] \in tostop PROVE by_fd[sockfd[c]] = c
    BY <1>2, <2>1, <2>2 DEF IInv, TableInv
  <2> QED
    BY <2>1, <2>2
<1> HIDE DEF gone
<1>4. GwTypeOK'
  <2>1. <<>> \in Seq(Segments) /\ <<>> \in Seq(Items) /\ 0 \in 0..SndBuf
    OBVIOUS
  <2>2. /\ by_fd' \in [Fds -> Conns \cup {NoConn}]
        /\ sockfd' \in [Conns -> Fds \cup {NoFd}]
        /\ ws' \in [Conns -> {"new", "open", "closed"}]
        /\ imeis' \in [Conns -> SUBSET Imeis]
    BY <1>1 DEF IInv, GwTypeOK
  <2>3. /\ ws_data' \in [Conns -> Seq(Items)] /\ wire' \in [Conns -> Seq(Segments)]
        /\ hup' \in [Conns -> BOOLEAN] /\ out' \in [Conns -> 0..SndBuf]
    BY <1>1, <2>1 DEF IInv, GwTypeOK
  <2>4. poller' \subseteq Fds /\ pollout' \subseteq Fds /\ tostop' \subseteq Fds
    BY <1>1 DEF IInv, GwTypeOK
  <2> QED
    BY <1>1, <2>2, <2>3, <2>4 DEF IInv, GwTypeOK
<1>5. LoopInv' /\ SetsInv'
  BY <1>1 DEF IInv, LoopInv, SetsInv
<1>6. TableInv'
  <2>1. \A fd \in Fds : by_fd'[fd] # NoConn => /\ fd \notin tostop /\ by_fd'[fd] = by_fd[fd]
                                               /\ sockfd'[by_fd'[fd]] = fd
    BY <1>1, <1>3 DEF IInv, GwTypeOK, TableInv
  <2>2. \A c \in Conns : sockfd'[c] # NoFd => sockfd'[c] = sockfd[c] /\ by_fd'[sockfd'[c]] = by_fd[sockfd[c]]
    BY <1>1, <1>3 DEF IInv, GwTypeOK
  <2>3. \A c \in topoll : c \in Conns /\ c \notin gone /\ sockfd'[c] = sockfd[c]
    BY <1>1, <1>2, <1>3 DEF IInv, GwTypeOK, TableInv
  <2>4. \A k \in DOMAIN backlogged : backlogged[k] \in Conns /\ sockfd'[backlogged[k]] = NoFd
    BY <1>1 DEF IInv, GwTypeOK, TableInv
  <2>5. poller' = {fd \in Fds : by_fd'[fd] # NoConn}
    BY <1>1 DEF IInv, TableInv
  <2>6. \A c \in Conns : sockfd'[c] # NoFd => by_fd'[sockfd'[c]] = IF c \in topoll THEN NoConn ELSE c
    BY <2>2 DEF IInv, TableInv
  <2>7. \A c, d \in Conns : sockfd'[c] = sockfd'[d] /\ sockfd'[c] # NoFd => c = d
    BY <2>2 DEF IInv, TableInv
  <2>8. \A c \in topoll : sockfd'[c] # NoFd
    BY <2>3 DEF IInv, TableInv
  <2>9. topoll' = topoll /\ backlogged' = backlogged
        /\ \A j, k \in DOMAIN backlogged : backlogged[j] = backlogged[k] => j = k
    BY <1>1 DEF IInv, TableInv
  <2> QED
    BY <2>1, <2>4, <2>5, <2>6, <2>7, <2>8, <2>9 DEF TableInv
<1>7. SlotInv'
  <2>1. \A c \in Conns : c \notin gone => (c \in served' <=> c \in served)
    BY <1>1, <1>3 DEF served, IInv, GwTypeOK
  <2> QED
    BY <1>1, <1>3, <2>1 DEF IInv, SlotInv
<1>8. PendingInv'
  <2>1. \A fd \in towait \cup morewait : /\ fd \in Fds /\ fd \notin tostop /\ by_fd[fd] \in Conns
                                         /\ by_fd[fd] \notin gone
    BY <1>1, <1>3 DEF IInv, GwTypeOK, LoopInv, SetsInv, TableInv
  <2> QED
    BY <1>1, <2>1 DEF IInv, PendingInv
<1>9. AskerInv'
  <2>1. \A c \in Conns : ws_data'[c] = <<>> \/ ws_data'[c] = ws_data[c]
    BY <1>1
  <2>2. Len(<<>>) = 0
    OBVIOUS
  <2> QED
    BY <1>1, <2>1, <2>2 DEF IInv, AskerInv, AskedForByRecipient
<1> QED
  BY <1>4, <1>5, <1>6, <1>7, <1>8, <1>9 DEF IInv

\* Who is sent to is served, and has its descriptor in towrite then.
LEMMA SendIInv ==
  ASSUME IInv, Send
  PROVE  IInv'
<1> DEFINE msg == Head(tosend)
<1>1. /\ pc = "body" /\ events.fds = {} /\ tostop = {} /\ tosend # <<>>
      /\ ws_data' = [c \in Conns |-> IF c \in Takers(msg) THEN Append(ws_data[c], msg.item)
                                     ELSE ws_data[c]]
      /\ towrite' = towrite \cup {sockfd[c] : c \in Recipients(msg)}
      /\ tosend' = Tail(tosend)
      /\ UNCHANGED <<by_fd, sockfd, ws, imeis, netvars, busvars, activesubs, pc, events, topoll,
                     tostop, towait, writevars>>
  BY DEF Send, SendTurn, Consumed
<1>2. tosend \in Seq(Messages) /\ \A k \in DOMAIN tosend : tosend[k].item.asker = tosend[k].to
  BY DEF IInv, GwTypeOK, AskerInv, Messages
<1>3. msg \in Messages /\ msg.item \in Items /\ msg.item.asker = msg.to
  <2>1. msg \in Messages /\ 1 \in DOMAIN tosend /\ msg = tosend[1]
    BY <1>1, <1>2
  <2> QED
    BY <1>2, <2>1 DEF Messages
<1>4. /\ tosend' \in Seq(Messages)
      /\ \A k \in DOMAIN tosend' : tosend'[k].item.asker = tosend'[k].to
  BY <1>1, <1>2
<1> HIDE DEF msg
<1>5. /\ Takers(msg) \subseteq Recipients(msg) /\ Recipients(msg) \subseteq served
      /\ \A c \in Takers(msg) : ws[c] # "new" /\ msg.item.asker \in {c, NoConn}
  BY <1>3 DEF Takers, Takes, Recipients
<1>6. \A c \in served : c \in Conns /\ sockfd[c] \in poller /\ sockfd[c] \in Fds
  BY DEF served, IInv, GwTypeOK, TableInv
<1>7. ASSUME NEW c \in Conns
      PROVE  /\ ws_data'[c] \in Seq(Items)
             /\ \A k \in 1..Len(ws_data'[c]) : ws_data'[c][k].asker \in {c, NoConn}
  <2>1. ws_data[c] \in Seq(Items) /\ \A k \in 1..Len(ws_data[c]) : ws_data[c][k].asker \in {c, NoConn}
    BY DEF IInv, GwTypeOK, AskerInv, AskedForByRecipient
  <2>2. CASE c \in Takers(msg)
    <3>1. ws_data'[c] = Append(ws_data[c], msg.item) /\ msg.item \in Items
          /\ msg.item.asker \in {c, NoConn}
      BY <1>1, <1>3, <1>5, <2>2
    <3> QED
      BY <2>1, <3>1
  <2>3. CASE c \notin Takers(msg)
    BY <1>1, <2>1, <2>3
  <2> QED
    BY <2>2, <2>3
<1>8. GwTypeOK'
  <2>1. ws_data' \in [Conns -> Seq(Items)]
    BY <1>1, <1>7
  <2>2. towrite' \subseteq Fds
    BY <1>1, <1>5, <1>6 DEF IInv, GwTypeOK
  <2> QED
    BY <1>1, <1>4, <2>1, <2>2 DEF IInv, GwTypeOK, Messages
<1>9. LoopInv' /\ SetsInv'
  BY <1>1, <1>5, <1>6 DEF IInv, LoopInv, SetsInv
<1>10. SlotInv'
  BY <1>1, <1>5 DEF IInv, SlotInv, served
<1>11. PendingInv'
  BY <1>1, <1>5 DEF IInv, PendingInv
<1>12. AskerInv'
  BY <1>1, <1>4, <1>7 DEF IInv, AskerInv, AskedForByRecipient
<1>13. TableInv'
  BY <1>1 DEF IInv, TableInv
<1> QED
  BY <1>8, <1>9, <1>10, <1>11, <1>12, <1>13 DEF IInv

\* Clients.add for the accepted sockets; whoever has data and is not gone is to be written.
LEMMA BeginWriteIInv ==
  ASSUME IInv, BeginWrite
  PROVE  IInv'
<1>1. /\ pc = "body" /\ pc' = "write" /\ tostop = {} /\ tosend = <<>>
      /\ by_fd' = [fd \in Fds |-> IF \E c \in topoll : sockfd[c] = fd
                                  THEN CHOOSE c \in topoll : sockfd[c] = fd ELSE by_fd[fd]]
      /\ ws' = [c \in Conns |-> IF c \in topoll THEN "new" ELSE ws[c]]
      /\ imeis' = [c \in Conns |-> IF c \in topoll THEN {} ELSE imeis[c]]
      /\ ws_data' = [c \in Conns |-> IF c \in topoll THEN <<>> ELSE ws_data[c]]
      /\ poller' = poller \cup {sockfd[c] : c \in topoll}
      /\ towait' = towait \ events.out
      /\ trywrite' = (towrite \cup events.out) \ towait' /\ writing' = trywrite'
      /\ towrite' = {} /\ topoll' = {} /\ events' = NoEvents
      /\ UNCHANGED <<sockfd, netvars, busvars, activesubs, tosend, tostop, sending, morewait, pollout>>
  BY DEF BeginWrite, Consumed, Construct
<1>2. /\ topoll \subseteq Conns
      /\ \A c \in topoll : /\ sockfd[c] \in Fds /\ by_fd[sockfd[c]] = NoConn
                           /\ c \notin served /\ by_fd'[sockfd[c]] = c
  <2>1. topoll \subseteq Conns /\ \A c \in topoll : sockfd[c] \in Fds /\ by_fd[sockfd[c]] = NoConn
    BY DEF IInv, GwTypeOK, TableInv
  <2>2. ASSUME NEW c \in topoll PROVE by_fd'[sockfd[c]] = c
    <3>1. by_fd'[sockfd[c]] = CHOOSE d \in topoll : sockfd[d] = sockfd[c]
      BY <1>1, <2>1
    <3>2. \A d \in topoll : sockfd[d] = sockfd[c] => d = c
      BY <2>1 DEF IInv, TableInv
    <3> QED
      BY <3>1, <3>2
  <2> QED
    BY <2>1, <2>2 DEF served
<1>3. /\ \A fd \in Fds : (by_fd[fd] # NoConn \/ by_fd'[fd] = NoConn) => by_fd'[fd] = by_fd[fd]
      /\ \A fd \in Fds : by_fd'[fd] = by_fd[fd] \/ \E c \in topoll : sockfd[c] = fd /\ by_fd'[fd] = c
  <2>1. ASSUME NEW fd \in Fds, ~ \E c \in topoll : sockfd[c] = fd PROVE by_fd'[fd] = by_fd[fd]
    BY <1>1, <2>1
  <2>2. ASSUME NEW fd \in Fds, NEW c \in topoll, sockfd[c] = fd
        PROVE  by_fd'[fd] = c /\ by_fd[fd] = NoConn /\ c # NoConn
    BY <1>2, <2>2
  <2> QED
    BY <2>1, <2>2
<1>4. GwTypeOK'
  <2>1. <<>> \in Seq(Items)
    OBVIOUS
  <2>2. /\ by_fd' \in [Fds -> Conns \cup {NoConn}]
    <3>1. ASSUME NEW fd \in Fds PROVE by_fd'[fd] \in Conns \cup {NoConn}
      <4>1. CASE by_fd'[fd] = by_fd[fd]
        BY <4>1 DEF IInv, GwTypeOK
      <4>2. CASE \E c \in topoll : sockfd[c] = fd /\ by_fd'[fd] = c
        BY <1>2, <4>2
      <4> QED
        BY <1>3, <4>1, <4>2
    <3> QED
      BY <1>1, <3>1
  <2>3. /\ ws' \in [Conns -> {"new", "open", "closed"}]
        /\ imeis' \in [Conns -> SUBSET Imeis]
        /\ ws_data' \in [Conns -> Seq(Items)]
    BY <1>1, <2>1 DEF IInv, GwTypeOK
  <2>4. /\ poller' \subseteq Fds /\ towait' \subseteq Fds /\ trywrite' \subseteq Fds
        /\ writing' \subseteq Fds /\ towrite' \subseteq Fds
    <3>1. events.out \subseteq Fds /\ poller \subseteq Fds /\ towait \subseteq Fds /\ towrite \subseteq Fds
      BY DEF IInv, GwTypeOK
    <3>2. \A c \in topoll : sockfd[c] \in Fds
      BY <1>2
    <3>3. poller' \subseteq Fds
      BY <1>1, <3>1, <3>2
    <3> QED
      BY <1>1, <3>1, <3>3
  <2>5. /\ events' \in [zsub : BOOLEAN, tcp : BOOLEAN, fds : SUBSET Fds, out : SUBSET Fds]
        /\ topoll' \subseteq Conns
    BY <1>1 DEF NoEvents
  <2> QED
    BY <1>1, <2>2, <2>3, <2>4, <2>5 DEF IInv, GwTypeOK
<1>5. LoopInv'
  BY <1>1 DEF IInv, LoopInv, NoEvents
<1>6. SetsInv'
  BY <1>1 DEF IInv, LoopInv, SetsInv, NoEvents
<1>7. TableInv'
  <2>1. \A fd \in Fds : by_fd'[fd] # NoConn => sockfd[by_fd'[fd]] = fd
    BY <1>3 DEF IInv, TableInv
  <2>2. ASSUME NEW c \in Conns, sockfd[c] # NoFd PROVE by_fd'[sockfd[c]] = c
    <3>1. CASE c \in topoll
      BY <1>2, <3>1
    <3>2. CASE c \notin topoll
      <4>1. sockfd[c] \in Fds /\ by_fd[sockfd[c]] = c /\ c # NoConn
        BY <2>2, <3>2 DEF IInv, GwTypeOK, TableInv
      <4> QED
        BY <1>3, <4>1
    <3> QED
      BY <3>1, <3>2
  <2>3. poller' = {fd \in Fds : by_fd'[fd] # NoConn}
    BY <1>1, <1>2, <1>3 DEF IInv, TableInv
  <2> QED
    BY <1>1, <2>1, <2>2, <2>3 DEF IInv, TableInv
<1>8. SlotInv'
  <2>1. ASSUME NEW c \in served PROVE c \in served'
    <3>1. c \in Conns /\ sockfd[c] \in Fds /\ by_fd[sockfd[c]] = c /\ c # NoConn
      BY DEF served, IInv, GwTypeOK
    <3>2. by_fd'[sockfd[c]] = c /\ sockfd'[c] = sockfd[c] /\ sockfd[c] # NoFd
      BY <1>1, <1>3, <3>1
    <3> QED
      BY <3>1, <3>2 DEF served
  <2> QED
    BY <1>1, <1>2, <2>1 DEF IInv, SlotInv
<1>9. PendingInv'
  <2>1. \A fd \in towait : fd \in Fds /\ by_fd[fd] # NoConn /\ by_fd'[fd] = by_fd[fd] /\ hup[by_fd[fd]]
    BY <1>3 DEF IInv, GwTypeOK, SetsInv, TableInv, PendingInv
  <2>2. ASSUME NEW c \in Conns, ws_data'[c] # <<>>, ~hup'[c]
        PROVE  sockfd'[c] \in writing'
    <3>1. c \notin topoll /\ ws_data[c] # <<>> /\ sockfd[c] \in towrite
      BY <1>1, <2>2 DEF IInv, PendingInv
    <3>2. by_fd[sockfd[c]] = c
      BY <3>1, ZenonT(30) DEF IInv, GwTypeOK, TableInv
    <3>3. sockfd[c] \notin towait
      BY <1>1, <2>1, <2>2, <3>2
    <3> QED
      BY <1>1, <3>1, <3>3
  <2>3. morewait' = {}
    BY <1>1 DEF IInv, LoopInv
  <2> QED
    BY <1>1, <2>1, <2>2, <2>3 DEF PendingInv
<1>10. AskerInv'
  <2>1. \A c \in Conns : ws_data'[c] = <<>> \/ ws_data'[c] = ws_data[c]
    BY <1>1
  <2>2. Len(<<>>) = 0
    OBVIOUS
  <2> QED
    BY <1>1, <2>1, <2>2 DEF IInv, AskerInv, AskedForByRecipient
<1> QED
  BY <1>4, <1>5, <1>6, <1>7, <1>8, <1>9, <1>10 DEF IInv

\* The client whose turn it is to be written is served.
LEMMA WriteTo ==
  ASSUME IInv, NEW fd \in Fds, WriteTurn(fd)
  PROVE  /\ pc = "write" /\ fd \in trywrite
         /\ by_fd[fd] \in Conns /\ Pending(fd) = ws_data[by_fd[fd]]
         /\ \A c \in Conns : sockfd[c] = fd <=> c = by_fd[fd]
         /\ sending # NoFd => sending = fd
<1>1. pc = "write" /\ fd \in trywrite /\ (sending # NoFd => sending = fd)
  BY DEF WriteTurn, IInv, SetsInv
<1>2. fd \in poller /\ by_fd[fd] # NoConn /\ by_fd[fd] \in Conns
  BY <1>1 DEF IInv, SetsInv, GwTypeOK, TableInv
<1>3. topoll = {} /\ sockfd[by_fd[fd]] = fd
  BY <1>1, <1>2 DEF IInv, LoopInv, TableInv
<1>4. \A c \in Conns : sockfd[c] = fd => c = by_fd[fd]
  BY <1>3 DEF IInv, TableInv
<1> QED
  BY <1>1, <1>2, <1>3, <1>4 DEF Pending

\* One client of trywrite is written: what is left is waited for, or the browser is gone.
LEMMA WriteIInv ==
  ASSUME IInv, NEW fd \in Fds, Write(fd)
  PROVE  IInv'
<1> DEFINE b == by_fd[fd]
<1>1. WriteTurn(fd)
  BY DEF Write, WriteNothing, WriteSome, WriteFails, WriteCutShort
<1>2. /\ pc = "write" /\ fd \in trywrite /\ b \in Conns /\ Pending(fd) = ws_data[b]
      /\ \A c \in Conns : sockfd[c] = fd <=> c = b
      /\ sending # NoFd => sending = fd
  BY <1>1, WriteTo
<1>3. /\ writing' = writing \ {fd}
      /\ UNCHANGED <<by_fd, sockfd, ws, imeis, backlogged, wire, hup, busvars, activesubs, pc, events,
                     iteration, trywrite, poller, pollout>>
  BY <1>1 DEF WriteTurn
<1> DEFINE rest == ws_data'[b]
<1>4. /\ ws_data' \in [Conns -> Seq(Items)]
      /\ \A c \in Conns : c # b => ws_data'[c] = ws_data[c]
      /\ \A k \in 1..Len(rest) : \E j \in 1..Len(ws_data[b]) : rest[k] = ws_data[b][j]
      /\ ws_data[b] = <<>> => rest = <<>>
      /\ rest # <<>> /\ ~hup[b] => sending' = fd
      /\ sending' \in {fd, NoFd}
      /\ out' \in [Conns -> 0..SndBuf]
      /\ \A c \in Conns : out'[c] = out[c] \/ (c = b /\ ws_data[b] # <<>>)
      /\ morewait' = morewait \/ (morewait' = morewait \cup {fd} /\ hup[b])
  <2>1. /\ ws_data \in [Conns -> Seq(Items)] /\ out \in [Conns -> 0..SndBuf]
        /\ ws_data[b] \in Seq(Items) /\ out[b] \in 0..SndBuf
    BY <1>2 DEF IInv, GwTypeOK
  <2> HIDE DEF b
  <2>2. CASE WriteNothing(fd)
    BY <1>2, <2>1, <2>2 DEF WriteNothing
  <2>3. CASE WriteSome(fd)
    <3> DEFINE d == ws_data[b]
               k == Sent(b, Len(d))
    <3>1. /\ d # <<>> /\ ws_data' = [ws_data EXCEPT ![b] = SubSeq(d, k + 1, Len(d))]
          /\ out' = [out EXCEPT ![b] = @ + k] /\ morewait' = morewait
          /\ sending' = IF k < Len(d) THEN fd ELSE NoFd
      BY <1>2, <2>3 DEF WriteSome, b
    <3>2. k \in 0..Len(d) /\ Len(d) \in Nat /\ out[b] + k \in 0..SndBuf
      BY <2>1 DEF Sent, Room
    <3> HIDE DEF k
    <3>3. /\ SubSeq(d, k + 1, Len(d)) \in Seq(Items)
          /\ Len(SubSeq(d, k + 1, Len(d))) = Len(d) - k
          /\ \A m \in 1..(Len(d) - k) : SubSeq(d, k + 1, Len(d))[m] = d[m + k] /\ m + k \in 1..Len(d)
      BY <2>1, <3>2
    <3> DEFINE q == SubSeq(d, k + 1, Len(d))
    <3>4. rest = q
      BY <1>2, <2>1, <3>1 DEF b
    <3>5. k = Len(d) => q = <<>>
      BY <3>2, <3>3
    <3> HIDE DEF q
    <3>6. q \in Seq(Items) /\ Len(q) = Len(d) - k
          /\ \A m \in 1..(Len(d) - k) : q[m] = d[m + k] /\ m + k \in 1..Len(d)
      BY <3>3 DEF q
    <3>7. /\ ws_data' \in [Conns -> Seq(Items)]
          /\ \A c \in Conns : c # b => ws_data'[c] = ws_data[c]
          /\ out' \in [Conns -> 0..SndBuf]
          /\ \A c \in Conns : out'[c] = out[c] \/ (c = b /\ ws_data[b] # <<>>)
      BY <2>1, <3>1, <3>2, <3>6 DEF q
    <3>8. \A m \in 1..Len(rest) : \E j \in 1..Len(ws_data[b]) : rest[m] = ws_data[b][j]
      BY <3>4, <3>6
    <3>9. rest # <<>> => sending' = fd
      BY <3>1, <3>2, <3>4, <3>5
    <3> QED
      BY <3>1, <3>7, <3>8, <3>9
  <2>4. CASE WriteFails(fd)
    <3>1. <<>> \in Seq(Items) /\ Len(<<>>) = 0
      OBVIOUS
    <3>2. /\ ws_data[b] # <<>> /\ hup[b] /\ ws_data' = [ws_data EXCEPT ![b] = <<>>]
          /\ sending' = NoFd /\ out' = out /\ morewait' = morewait
      BY <1>2, <2>4 DEF WriteFails, b
    <3>3. rest = <<>> /\ ws_data' \in [Conns -> Seq(Items)]
          /\ \A c \in Conns : c # b => ws_data'[c] = ws_data[c]
      BY <1>2, <2>1, <3>1, <3>2 DEF b
    <3> QED
      BY <2>1, <3>1, <3>2, <3>3
  <2>5. CASE WriteCutShort(fd)
    <3>1. /\ sending' = NoFd /\ morewait' = morewait \cup {fd} /\ hup[b] /\ UNCHANGED <<ws_data, out>>
      BY <2>5 DEF WriteCutShort, b
    <3> QED
      BY <2>1, <3>1
  <2> QED
    BY <2>2, <2>3, <2>4, <2>5 DEF Write
<1> HIDE DEF b, rest
<1>5. GwTypeOK'
  <2>1. writing' \subseteq Fds /\ morewait' \subseteq Fds /\ sending' \in Fds \cup {NoFd}
    BY <1>3, <1>4 DEF IInv, GwTypeOK
  <2> QED
    BY <1>3, <1>4, <2>1 DEF IInv, GwTypeOK
<1>6. LoopInv' /\ SetsInv'
  BY <1>2, <1>3, <1>4 DEF IInv, LoopInv, SetsInv
<1>7. SlotInv'
  <2>1. served' = served
    BY <1>3 DEF served
  <2>2. ASSUME NEW c \in Conns, ws[c] = "new" PROVE ws_data'[c] = <<>> /\ out'[c] = out[c]
    <3>1. ws_data[c] = <<>>
      BY <2>2 DEF IInv, SlotInv
    <3>2. CASE c = b
      BY <1>4, <3>1, <3>2 DEF rest
    <3>3. CASE c # b
      BY <1>4, <3>1, <3>3
    <3> QED
      BY <3>2, <3>3
  <2> QED
    BY <1>3, <2>1, <2>2 DEF IInv, SlotInv
<1>8. PendingInv'
  <2>1. ASSUME NEW c \in Conns, ws_data'[c] # <<>>, ~hup'[c]
        PROVE  sockfd'[c] \in writing' \cup {sending'}
    <3>1. CASE c = b
      BY <1>2, <1>3, <1>4, <2>1, <3>1 DEF rest
    <3>2. CASE c # b
      <4>1. sockfd[c] \in writing \cup {sending} /\ sockfd[c] # fd
        BY <1>2, <1>3, <1>4, <2>1, <3>2 DEF IInv, PendingInv
      <4>2. sockfd[c] # NoFd
        BY <1>3, <1>4, <2>1, <3>2 DEF IInv, SlotInv, served, GwTypeOK
      <4> QED
        BY <1>2, <1>3, <4>1, <4>2
    <3> QED
      BY <3>1, <3>2
  <2>2. \A g \in towait' \cup morewait' : hup'[by_fd'[g]]
    BY <1>3, <1>4 DEF IInv, PendingInv, b
  <2> QED
    BY <1>2, <1>3, <2>1, <2>2 DEF PendingInv
<1>9. AskerInv'
  <2>1. ASSUME NEW c \in Conns, NEW k \in 1..Len(ws_data'[c])
        PROVE  ws_data'[c][k].asker \in {c, NoConn}
    <3>1. \A j \in 1..Len(ws_data[c]) : ws_data[c][j].asker \in {c, NoConn}
      BY DEF IInv, AskerInv, AskedForByRecipient
    <3>2. CASE c = b
      <4>1. PICK j \in 1..Len(ws_data[b]) : rest[k] = ws_data[b][j]
        BY <1>4, <3>2 DEF rest
      <4> QED
        BY <3>1, <3>2, <4>1 DEF rest
    <3>3. CASE c # b
      BY <1>4, <3>1, <3>3
    <3> QED
      BY <3>2, <3>3
  <2> QED
    BY <1>3, <2>1 DEF IInv, AskerInv, AskedForByRecipient
<1>10. TableInv'
  BY <1>3 DEF IInv, TableInv
<1> QED
  BY <1>5, <1>6, <1>7, <1>8, <1>9, <1>10 DEF IInv

\* Back at poll: whatever was found busy is of a browser that is gone, and nothing that the
\* poller is told about is of a client that is not served.
LEMMA EndWriteIInv ==
  ASSUME IInv, EndWrite
  PROVE  IInv'
<1>1. /\ pc = "write" /\ pc' = "poll" /\ writing = {} /\ sending = NoFd
      /\ poller' = poller \cup (morewait \ trywrite) \cup (trywrite \ morewait)
      /\ pollout' = (pollout \cup (morewait \ trywrite)) \ (trywrite \ morewait)
      /\ towait' = (towait \cap trywrite) \cup morewait
      /\ trywrite' = {} /\ morewait' = {}
      /\ activesubs' = SubscribedTo(activesubs, subs)
      /\ UNCHANGED <<clientvars, netvars, busvars, events, tosend, topoll, tostop, towrite,
                     writing, sending>>
  BY DEF EndWrite, NewlyWaiting, NoLongerWaiting
<1>2. /\ trywrite \subseteq poller /\ morewait \subseteq poller /\ towait \subseteq poller
      /\ pollout \subseteq poller /\ poller \subseteq Fds
  BY DEF IInv, SetsInv, GwTypeOK
<1>3. poller' = poller /\ towait' \subseteq towait \cup morewait /\ pollout' \subseteq poller
  BY <1>1, <1>2
<1>4. activesubs' \subseteq Imeis
  <2>1. subs \subseteq Imeis
    BY DEF subs, served, IInv, GwTypeOK
  <2>2. activesubs \subseteq Imeis
    BY DEF IInv, GwTypeOK
  <2> QED
    BY <1>1, <2>1, <2>2 DEF SubscribedTo
<1>5. GwTypeOK'
  <2>1. /\ towait' \subseteq Fds /\ trywrite' \subseteq Fds /\ morewait' \subseteq Fds
        /\ poller' \subseteq Fds /\ pollout' \subseteq Fds
    BY <1>1, <1>2, <1>3
  <2> QED
    BY <1>1, <1>4, <2>1 DEF IInv, GwTypeOK
<1>6. LoopInv' /\ TableInv'
  BY <1>1, <1>3 DEF IInv, LoopInv, TableInv
<1>7. SetsInv'
  <2>1. events = NoEvents /\ tostop = {} /\ towrite = {}
    BY <1>1 DEF IInv, LoopInv
  <2> QED
    BY <1>1, <1>2, <1>3, <2>1 DEF SetsInv, NoEvents
<1>8. SlotInv'
  BY <1>1 DEF IInv, SlotInv, served
<1>9. PendingInv'
  <2>1. ASSUME NEW c \in Conns, ws_data'[c] # <<>>, ~hup'[c] PROVE FALSE
    <3>1. ws_data[c] # <<>> /\ ~hup[c]
      BY <1>1, <2>1
    <3>2. sockfd[c] = NoFd
      BY <1>1, <3>1 DEF IInv, PendingInv
    <3>3. c \in served
      BY <3>1 DEF IInv, SlotInv
    <3> QED
      BY <3>2, <3>3 DEF served
  <2>2. \A fd \in towait' \cup morewait' : hup'[by_fd'[fd]]
    BY <1>1, <1>3 DEF IInv, PendingInv
  <2> QED
    BY <1>1, <2>1, <2>2 DEF PendingInv
<1>10. AskerInv'
  BY <1>1 DEF IInv, AskerInv, AskedForByRecipient
<1> QED
  BY <1>5, <1>6, <1>7, <1>8, <1>9, <1>10 DEF IInv

\* A new process knows nothing of the browsers of the one before.
LEMMA RestartIInv ==
  ASSUME IInv, Restart
  PROVE  IInv'
<1>1. <<>> \in Seq(Items) /\ <<>> \in Seq(Conns) /\ <<>> \in Seq(Segments)
      /\ <<>> \in Seq(Messages) /\ DOMAIN <<>> = {} /\ Len(<<>>) = 0
  OBVIOUS
<1>2. GwTypeOK'
  BY <1>1 DEF Restart, IInv, GwTypeOK, NoEvents, Messages
<1>3. LoopInv' /\ SetsInv'
  BY DEF Restart, LoopInv, SetsInv, NoEvents
<1>4. TableInv'
  BY <1>1 DEF Restart, TableInv
<1>5. SlotInv' /\ PendingInv'
  BY <1>1 DEF Restart, SlotInv, PendingInv, served
<1>6. AskerInv'
  BY <1>1 DEF Restart, AskerInv, AskedForByRecipient
<1> QED
  BY <1>2, <1>3, <1>4, <1>5, <1>6 DEF IInv

\* Every step keeps the invariant.
LEMMA StepIInv == IInv /\ [Next]_vars => IInv'
<1> SUFFICES ASSUME IInv, [Next]_vars PROVE IInv'
  OBVIOUS
<1>1. ASSUME NEW fd \in Fds, Recv(fd) PROVE IInv'
  BY <1>1, RecvEofIInv, RecvUpgradeIInv, RecvHttpIInv, DeadIInv, RecvFramesIInv DEF Recv
<1>2. ASSUME Loop PROVE IInv'
  BY <1>1, <1>2, PollIInv, TakeZsubIInv, DeadIInv, AcceptIInv, WriteIInv, StopIInv, SendIInv,
     BeginWriteIInv, EndWriteIInv DEF Loop
<1>3. ASSUME Browsers PROVE IInv'
  BY <1>3, ConnectIInv, BrowserSendIInv, HangupDrainIInv DEF Browsers
<1>4. CASE UNCHANGED vars
  <2>1. GwTypeOK'
    BY <1>4 DEF vars, IInv, GwTypeOK
  <2>2. LoopInv' /\ TableInv' /\ SetsInv'
    BY <1>4 DEF vars, IInv, LoopInv, TableInv, SetsInv
  <2>3. SlotInv' /\ PendingInv' /\ AskerInv'
    BY <1>4 DEF vars, IInv, SlotInv, PendingInv, AskerInv, AskedForByRecipient, served
  <2> QED
    BY <2>1, <2>2, <2>3 DEF IInv
<1> QED
  BY <1>2, <1>3, <1>4, PublishStoreIInv, RestartIInv DEF Next

-----------------------------------------------------------------------------
(* The theorems.                                                           *)

\* Every variable keeps to its type; the send buffer of the kernel is not overrun, although
\* the response to plain http is written without asking for room (wsgateway.py:111-143).
THEOREM GatewayTypes == Spec => []GwTypeOK
<1>1. IInv => GwTypeOK
  BY DEF IInv
<1> QED
  BY <1>1, InitIInv, StepIInv, PTL DEF Spec

\* At poll the poller watches the browsers that are served, and nothing else: the modify()
\* that would register a descriptor anew is never called for one that was unregistered,
\* whatever was accepted, stopped and written in one iteration (wsgateway.py:328-392).
THEOREM PollerTracksClients == Spec => []GwPollerTracksClients
<1>1. ASSUME IInv PROVE GwPollerTracksClients
  <2> SUFFICES ASSUME pc = "poll" PROVE GwPollerTracksClients
    BY DEF GwPollerTracksClients
  <2>1. topoll = {}
    BY <1>1 DEF IInv, LoopInv
  <2> QED
    BY <1>1, <2>1 DEF IInv, TableInv, SetsInv, GwPollerTracksClients
<1> QED
  BY <1>1, InitIInv, StepIInv, PTL DEF Spec

\* The loop does not go back to poll while something waits to be written to a browser that
\* is still there (wsgateway.py:361, 374, 379-392).
THEOREM NothingIsLeftBehind == Spec => []NothingLeftBehind
<1>1. ASSUME IInv PROVE NothingLeftBehind
  BY <1>1 DEF IInv, PendingInv, NothingLeftBehind, served
<1> QED
  BY <1>1, InitIInv, StepIInv, PTL DEF Spec

\* The backlog and the results of commands reach nobody but who asked for them, also when a
\* descriptor has been closed and used again in between (wsgateway.py:219-237).
THEOREM AskedForByRecipients == Spec => []AskedForByRecipient
<1>1. IInv => AskedForByRecipient
  BY DEF IInv, AskerInv
<1> QED
  BY <1>1, InitIInv, StepIInv, PTL DEF Spec

\* Whatever of a terminal is queued for a browser is of a terminal that the browser is
\* subscribed to at that moment (wsgateway.py:171-184).
THEOREM QueuedIfSubscribed == Spec => OnlyCurrentSubscription
<1> DEFINE Current(c) ==
             Len(ws_data'[c]) > Len(ws_data[c]) =>
               \A k \in (Len(ws_data[c]) + 1)..Len(ws_data'[c]) :
                 ws_data'[c][k].kind \in {"report", "result"} => ws_data'[c][k].imei \in imeis[c]
<1>1. ASSUME IInv, [Next]_vars
      PROVE  [\A c \in Conns : Current(c)]_vars
  <2>1. ASSUME NEW c \in Conns PROVE ws_data[c] \in Seq(Items) /\ Len(ws_data[c]) \in Nat
    BY <1>1 DEF IInv, GwTypeOK
  <2>2. ASSUME NEW c \in Conns, ws_data'[c] \in {ws_data[c], <<>>} PROVE Current(c)
    <3>1. Len(<<>>) = 0
      OBVIOUS
    <3> QED
      BY <2>1, <2>2, <3>1
  <2>3. ASSUME NEW c \in Conns, NEW x, ws_data'[c] = Append(ws_data[c], x),
               x.kind \in {"report", "result"} => x.imei \in imeis[c]
        PROVE  Current(c)
    <3>1. /\ Len(ws_data'[c]) = Len(ws_data[c]) + 1
          /\ ws_data'[c][Len(ws_data[c]) + 1] = x
      BY <2>1, <2>3
    <3>2. \A k \in (Len(ws_data[c]) + 1)..Len(ws_data'[c]) : k = Len(ws_data[c]) + 1
      BY <2>1, <3>1
    <3> QED
      BY <2>3, <3>1, <3>2
  <2>4. ASSUME NEW fd \in Fds, RecvUpgrade(fd) PROVE \A c \in Conns : Current(c)
    <3>1. by_fd[fd] \in Conns
      BY <1>1, <2>4, ReadFrom DEF RecvUpgrade, RecvSegment
    <3>2. ws_data'[by_fd[fd]] = Append(ws_data[by_fd[fd]], Reply("accept"))
      BY <1>1, <2>4, <3>1 DEF RecvUpgrade, IInv, GwTypeOK
    <3>3. \A c \in Conns : c # by_fd[fd] => ws_data'[c] = ws_data[c]
      BY <1>1, <2>4 DEF RecvUpgrade, IInv, GwTypeOK
    <3>4. Reply("accept").kind \notin {"report", "result"}
      BY ReplyType
    <3> HIDE DEF Current
    <3> QED
      BY <2>2, <2>3, <3>1, <3>2, <3>3, <3>4
  <2>5. ASSUME NEW fd \in Fds, RecvFrames(fd) PROVE \A c \in Conns : Current(c)
    <3> DEFINE b == by_fd[fd]
               more == Replies(Head(wire[b]).frames)
    <3>1. b \in Conns /\ Head(wire[b]).frames \in Seq(Frames)
      BY <1>1, <2>5, ReadFrom, SegmentRead DEF RecvFrames, RecvSegment
    <3>2. more \in Seq({Reply("pong"), Reply("close")})
      BY <3>1, RepliesType
    <3>3. ws_data' = [ws_data EXCEPT ![b] = @ \o more]
      BY <2>5 DEF RecvFrames
    <3> HIDE DEF b, more
    <3>4. ws_data'[b] = ws_data[b] \o more
      BY <1>1, <3>1, <3>3 DEF IInv, GwTypeOK
    <3>5. \A c \in Conns : c # b => ws_data'[c] = ws_data[c]
      BY <1>1, <3>3 DEF IInv, GwTypeOK
    <3>6. Current(b)
      <4>1. ASSUME NEW k \in (Len(ws_data[b]) + 1)..Len(ws_data'[b])
            PROVE  ws_data'[b][k].kind \notin {"report", "result"}
        <5>1. /\ Len(ws_data'[b]) = Len(ws_data[b]) + Len(more) /\ Len(more) \in Nat
              /\ Len(ws_data[b]) \in Nat
          BY <2>1, <3>1, <3>2, <3>4
        <5>2. k - Len(ws_data[b]) \in 1..Len(more)
          BY <5>1
        <5>3. ws_data'[b][k] = more[k - Len(ws_data[b])]
          BY <2>1, <3>1, <3>2, <3>4, <5>1, <5>2
        <5>4. more[k - Len(ws_data[b])] \in {Reply("pong"), Reply("close")}
          BY <3>2, <5>2
        <5> QED
          BY <5>3, <5>4, ReplyType
      <4> QED
        BY <4>1
    <3> HIDE DEF Current
    <3> QED
      BY <2>2, <3>5, <3>6
  <2>6. ASSUME Send PROVE \A c \in Conns : Current(c)
    <3> SUFFICES ASSUME NEW c \in Conns PROVE Current(c)
      OBVIOUS
    <3>1. CASE c \in Takers(Head(tosend))
      <4>1. /\ ws_data'[c] = Append(ws_data[c], Head(tosend).item)
            /\ Head(tosend).item.imei \in imeis[c]
        BY <2>6, <3>1 DEF Send, Takers, Takes
      <4> HIDE DEF Current
      <4> QED
        BY <2>3, <4>1
    <3>2. CASE c \notin Takers(Head(tosend))
      <4>1. ws_data'[c] = ws_data[c]
        BY <2>6, <3>2 DEF Send
      <4> HIDE DEF Current
      <4> QED
        BY <2>2, <4>1
    <3> HIDE DEF Current
    <3> QED
      BY <3>1, <3>2
  <2>7. ASSUME NEW fd \in Fds, WriteSome(fd) PROVE \A c \in Conns : Current(c)
    <3> DEFINE b == by_fd[fd]
               n == Sent(b, Len(ws_data[b]))
    <3>1. b \in Conns
      BY <1>1, <2>7, WriteTo DEF WriteSome
    <3>2. ws_data' = [ws_data EXCEPT ![b] = SubSeq(@, n + 1, Len(@))]
      BY <2>7 DEF WriteSome
    <3>3. n \in Nat
      <4>1. Len(ws_data[b]) \in Nat /\ out[b] \in 0..SndBuf
        BY <1>1, <2>1, <3>1 DEF IInv, GwTypeOK
      <4> QED
        BY <4>1 DEF Sent, Room
    <3> HIDE DEF b, n
    <3>4. Len(ws_data'[b]) <= Len(ws_data[b]) /\ Len(ws_data'[b]) \in Nat
      <4>1. ws_data'[b] = SubSeq(ws_data[b], n + 1, Len(ws_data[b]))
        BY <1>1, <3>1, <3>2 DEF IInv, GwTypeOK
      <4> QED
        BY <2>1, <3>1, <3>3, <4>1
    <3>5. \A c \in Conns : c # b => ws_data'[c] = ws_data[c]
      BY <1>1, <3>2 DEF IInv, GwTypeOK
    <3>6. Current(b)
      BY <2>1, <3>1, <3>4
    <3> HIDE DEF Current
    <3> QED
      BY <2>2, <3>5, <3>6
  <2>8. ASSUME \A c \in Conns : ws_data'[c] \in {ws_data[c], <<>>}
        PROVE  \A c \in Conns : Current(c)
    <3> HIDE DEF Current
    <3> QED
      BY <2>2, <2>8
  <2>9. ASSUME NEW fd \in Fds, WriteNothing(fd) \/ WriteCutShort(fd) \/ RecvEof(fd) \/ RecvHttp(fd)
                                \/ RecvBad(fd) \/ Accept(fd)
        PROVE  ws_data' = ws_data
    BY <2>9 DEF WriteNothing, WriteCutShort, RecvEof, RecvHttp, RecvBad, Accept
  <2>10. ASSUME NEW fd \in Fds, WriteFails(fd)
         PROVE  \A c \in Conns : ws_data'[c] \in {ws_data[c], <<>>}
    BY <1>1, <2>10 DEF WriteFails, IInv, GwTypeOK
  <2>11. ASSUME Stop \/ BeginWrite \/ Restart
         PROVE  \A c \in Conns : ws_data'[c] \in {ws_data[c], <<>>}
    BY <2>11 DEF Stop, BeginWrite, Restart, Construct
  <2>12. ASSUME Poll \/ TakeZsub \/ AcceptFails \/ SendFails \/ EndWrite \/ Browsers
                  \/ \E i \in Imeis : Publish(i) \/ Store(i)
         PROVE  ws_data' = ws_data
    BY <2>12 DEF Poll, TakeZsub, AcceptFails, SendFails, EndWrite, Browsers, Connect, BrowserSend,
                 Hangup, Drain, Publish, Store
  <2>13. ASSUME Next PROVE \A c \in Conns : Current(c)
    <3> HIDE DEF Current
    <3>1. ASSUME NEW fd \in Fds, Accept(fd) \/ Recv(fd) \/ Write(fd)
          PROVE  \A c \in Conns : Current(c)
      BY <2>4, <2>5, <2>7, <2>8, <2>9, <2>10, <3>1 DEF Recv, Write
    <3> QED
      BY <2>6, <2>8, <2>11, <2>12, <2>13, <3>1 DEF Next, Loop
  <2> QED
    BY <1>1, <2>13
<1> QED
  BY <1>1, InitIInv, StepIInv, PTL DEF Spec, OnlyCurrentSubscription

=============================================================================
