--------------------------- MODULE ReliableProofs ---------------------------
(* Theorems about Reliable, for every size of its windows and lists, every *)
(* text that TLS may write, and every bound on packets and faults.         *)
EXTENDS Reliable, FiniteSetTheorems, TLAPS

\* The two ends are each other's peers.
LEMMA PeerFacts ==
    ASSUME NEW e \in Ends
    PROVE  /\ Peer(e) \in Ends /\ Peer(e) # e /\ Peer(Peer(e)) = e
           /\ \A o \in Ends : o = e \/ o = Peer(e)
BY EndsAssumption DEF Ends, Peer

\* What is in the network is a packet of one of the two kinds.
LEMMA PacketFacts ==
    ASSUME TypeOK, NEW p \in net
    PROVE  /\ p.to \in Ends /\ p.acks \in SUBSET Nat
           /\ p.op = "CONTROL" => p.id \in Nat /\ p.data \in Payload
BY DEF TypeOK, ControlPacket, AckPacket

\* Ids that an end has received are ids its peer has given away.
LEMMA ReceivedBounded ==
    ASSUME TypeOK, Matching, NEW e \in Ends, NEW id \in Nat, Received(e, id)
    PROVE  id < sendId[Peer(e)]
BY PeerFacts DEF TypeOK, Matching, Received

\* So a set of such ids is finite.
LEMMA ReceivedFinite ==
    ASSUME TypeOK, Matching, NEW e \in Ends, NEW S \in SUBSET Nat,
           \A id \in S : Received(e, id)
    PROVE  IsFiniteSet(S) /\ Cardinality(S) \in Nat
<1>1. sendId[Peer(e)] \in Nat
  BY PeerFacts DEF TypeOK
<1>2. \A id \in S : id <= sendId[Peer(e)]
  BY <1>1, ReceivedBounded
<1> QED
  BY <1>1, <1>2, FS_BoundedSetOfNaturals, FS_CardinalityType

\* Init establishes the inductive invariant.
LEMMA InitInv == Init => IInv
<1> SUFFICES ASSUME Init PROVE IInv
  OBVIOUS
<1>0. \A e \in Ends : Peer(e) \in Ends
  BY PeerFacts
<1>1. TypeOK
  <2>1. Cardinality({}) = 0
    BY FS_EmptySet
  <2>2. <<>> \in Seq(Nat) /\ Len(<<>>) = 0 /\ <<>> \in Seq(Payload) /\ DOMAIN <<>> = {}
    OBVIOUS
  <2>3. QED
    BY <2>1, <2>2, SizesAssumption, BoundsAssumption DEF Init, TypeOK
<1>2. Matching /\ NothingForgotten /\ AcksAreTrue
  BY <1>0 DEF Init, Matching, NothingForgotten, AcksAreTrue
<1>3. FrontierHeld /\ HandshakeFirst
  BY <1>0 DEF Init, FrontierHeld, HandshakeFirst
<1> QED
  BY <1>1, <1>2, <1>3 DEF IInv

\* A network with fewer packets keeps the invariant: losing one, or dropping one
\* that cannot be routed.
LEMMA FewerPacketsInv ==
    ASSUME IInv, net' \subseteq net, faults' \in 0 .. MaxFaults,
           UNCHANGED <<state, linked, reliableVars, log, got>>
    PROVE  IInv'
<1> USE DEF reliableVars
<1>1. TypeOK'
  BY DEF IInv, TypeOK
<1>2. Matching' /\ NothingForgotten'
  BY DEF IInv, Matching, NothingForgotten, Received
<1>3. AcksAreTrue' /\ FrontierHeld' /\ HandshakeFirst'
  BY DEF IInv, AcksAreTrue, FrontierHeld, HandshakeFirst, Received
<1> QED
  BY <1>1, <1>2, <1>3 DEF IInv

\* A timer only marks an entry as due.
LEMMA ExpireInv ==
    ASSUME IInv, NEW e \in Ends, NEW id \in DOMAIN sendBuf[e], Expire(e, id)
    PROVE  IInv'
<1> USE DEF IInv
<1>1. /\ DOMAIN sendBuf' = Ends
      /\ \A o \in Ends : /\ DOMAIN sendBuf'[o] = DOMAIN sendBuf[o]
                         /\ \A i \in DOMAIN sendBuf[o] :
                               /\ sendBuf'[o][i] \in Entry
                               /\ sendBuf'[o][i].data = sendBuf[o][i].data
  BY DEF Expire, TypeOK, Entry
<1>2. UNCHANGED <<state, linked, sendId, recId, recBuf, recAck, lruAcks, net, faults, log, got>>
  BY DEF Expire
<1>3. TypeOK'
  BY <1>1, <1>2 DEF TypeOK
<1>4. Matching' /\ NothingForgotten'
  BY <1>1, <1>2 DEF Matching, NothingForgotten, Received
<1>5. AcksAreTrue' /\ HandshakeFirst'
  BY <1>1, <1>2 DEF AcksAreTrue, HandshakeFirst, Received
<1>6. FrontierHeld'
  BY <1>1, <1>2, PeerFacts DEF FrontierHeld
<1> QED
  BY <1>3, <1>4, <1>5, <1>6

\* What SendPurge leaves in a send buffer.
LEMMA PurgeFacts ==
    ASSUME NEW buf, DOMAIN buf \subseteq Nat, \A i \in DOMAIN buf : buf[i] \in Entry,
           NEW acks \in SUBSET Nat, IsFiniteSet(acks)
    PROVE  /\ DOMAIN SendPurge(buf, acks) = DOMAIN buf \ acks
           /\ \A i \in DOMAIN buf \ acks :
                 /\ SendPurge(buf, acks)[i] \in Entry
                 /\ SendPurge(buf, acks)[i].data = buf[i].data
<1>1. \A i \in Nat : Cardinality({a \in acks : i < a}) \in Nat
  BY FS_Subset, FS_CardinalityType
<1>2. DOMAIN SendPurge(buf, acks) = DOMAIN buf \ acks
  BY DEF SendPurge
<1>3. ASSUME NEW i \in DOMAIN buf \ acks
      PROVE  SendPurge(buf, acks)[i] \in Entry /\ SendPurge(buf, acks)[i].data = buf[i].data
  <2> DEFINE c == Cardinality({a \in acks : i < a})
  <2>1. c \in Nat
    BY <1>1
  <2>2. SendPurge(buf, acks)[i] = [buf[i] EXCEPT !.nAcks = Lesser(NAckRetransmit, @ + c)]
    BY DEF SendPurge
  <2> HIDE DEF c
  <2>3. Lesser(NAckRetransmit, buf[i].nAcks + c) \in Nat
    BY <2>1, SizesAssumption DEF Lesser, Entry
  <2> QED
    BY <2>2, <2>3 DEF Entry
<1> QED
  BY <1>2, <1>3

\* Accept adds at most the packet's id to what e has received, and puts only ids that
\* e has received on its list.
LEMMA AcceptFacts ==
    ASSUME IInv, NEW e \in Ends, NEW p \in net, p.to = e, Accept(e, p), recId' = recId
    PROVE  /\ DOMAIN recBuf' = Ends /\ DOMAIN recAck' = Ends
           /\ \A o \in Ends \ {e} : recBuf'[o] = recBuf[o] /\ recAck'[o] = recAck[o]
           /\ DOMAIN recBuf[e] \subseteq DOMAIN recBuf'[e]
           /\ \A i \in DOMAIN recBuf[e] : recBuf'[e][i] = recBuf[e][i]
           /\ \A i \in DOMAIN recBuf'[e] \ DOMAIN recBuf[e] :
                 /\ p.op = "CONTROL" /\ i = p.id /\ recId[e] <= i
                 /\ recBuf'[e][i] = p.data
           /\ recAck'[e] \in Seq(Nat) /\ Len(recAck'[e]) <= AckSize
           /\ \A i \in 1 .. Len(recAck'[e]) : recAck'[e][i] < recId[e] \/ recAck'[e][i] \in DOMAIN recBuf'[e]
<1> USE DEF IInv
<1>0. /\ p.op = "CONTROL" => p.id \in Nat
      /\ recAck[e] \in Seq(Nat) /\ Len(recAck[e]) <= AckSize /\ recId[e] \in Nat
      /\ DOMAIN recBuf = Ends /\ DOMAIN recAck = Ends
      /\ \A i \in 1 .. Len(recAck[e]) : Received(e, recAck[e][i])
  BY PacketFacts DEF TypeOK, AcksAreTrue
<1>1. CASE UNCHANGED <<recBuf, recAck>>
  BY <1>0, <1>1 DEF Received
<1>2. CASE /\ p.op = "CONTROL"
           /\ IF NotReplay(e, p.id) THEN MarkActiveIncoming(e, p.id, p.data)
                                     ELSE UNCHANGED recBuf
           /\ AcknowledgePacketId(e, p.id)
  <2>1. /\ DOMAIN recBuf' = Ends
        /\ \A o \in Ends \ {e} : recBuf'[o] = recBuf[o]
        /\ DOMAIN recBuf[e] \subseteq DOMAIN recBuf'[e]
        /\ \A i \in DOMAIN recBuf[e] : recBuf'[e][i] = recBuf[e][i]
        /\ \A i \in DOMAIN recBuf'[e] \ DOMAIN recBuf[e] :
              i = p.id /\ recId[e] <= i /\ recBuf'[e][i] = p.data
    BY <1>0, <1>2 DEF NotReplay, MarkActiveIncoming
  <2>2. p.id < recId[e] \/ p.id \in DOMAIN recBuf'[e]
    BY <1>0, <1>2 DEF NotReplay, MarkActiveIncoming
  <2>3. \A i \in 1 .. Len(recAck[e]) : recAck[e][i] < recId[e] \/ recAck[e][i] \in DOMAIN recBuf'[e]
    BY <1>0, <2>1 DEF Received
  <2>4. CASE recAck' = recAck
    BY <1>0, <1>2, <2>1, <2>3, <2>4
  <2>5. CASE Len(recAck[e]) < AckSize /\ recAck' = [recAck EXCEPT ![e] = Append(@, p.id)]
    <3>1. /\ DOMAIN recAck' = Ends
          /\ \A o \in Ends \ {e} : recAck'[o] = recAck[o]
          /\ recAck'[e] = Append(recAck[e], p.id)
      BY <1>0, <2>5
    <3>2. recAck'[e] \in Seq(Nat) /\ Len(recAck'[e]) <= AckSize
      BY <1>0, <1>2, <2>5, <3>1, SizesAssumption
    <3>3. \A i \in 1 .. Len(recAck'[e]) : recAck'[e][i] < recId[e] \/ recAck'[e][i] \in DOMAIN recBuf'[e]
      <4>1. /\ Len(recAck'[e]) = Len(recAck[e]) + 1
            /\ \A i \in 1 .. Len(recAck[e]) : recAck'[e][i] = recAck[e][i]
            /\ recAck'[e][Len(recAck[e]) + 1] = p.id
        BY <1>0, <1>2, <3>1
      <4>2. \A i \in 1 .. Len(recAck'[e]) : i \in 1 .. Len(recAck[e]) \/ i = Len(recAck[e]) + 1
        BY <1>0, <4>1
      <4>3. \A i \in 1 .. Len(recAck[e]) :
               recAck'[e][i] < recId[e] \/ recAck'[e][i] \in DOMAIN recBuf'[e]
        BY <4>1, <2>3
      <4>4. recAck'[e][Len(recAck[e]) + 1] < recId[e]
               \/ recAck'[e][Len(recAck[e]) + 1] \in DOMAIN recBuf'[e]
        BY <4>1, <2>2
      <4> QED
        BY <4>2, <4>3, <4>4
    <3> QED
      BY <1>2, <2>1, <3>1, <3>2, <3>3
  <2> QED
    BY <1>2, <2>4, <2>5 DEF AcknowledgePacketId
<1> QED
  BY <1>1, <1>2 DEF Accept

\* tls_pre_decrypt keeps the invariant, whether the packet leaves the network or not.
LEMMA HandleInv ==
    ASSUME IInv, NEW e \in Ends, NEW p \in net, p.to = e, Handle(e, p),
           net' \subseteq net, faults' \in 0 .. MaxFaults
    PROVE  IInv'
<1> USE DEF IInv
<1> DEFINE q == Peer(e)
<1>0. /\ q \in Ends /\ q # e /\ Peer(q) = e /\ Peer(e) = q
      /\ \A o \in Ends : o = e \/ o = q
  BY PeerFacts
<1> HIDE DEF q
<1>1. /\ UNCHANGED <<state, sendId, recId, lruAcks, log, got>>
      /\ linked' = [linked EXCEPT ![e] = TRUE]
  BY DEF Handle
<1>2. p.acks \in SUBSET Nat /\ \A id \in p.acks : Received(q, id)
  BY <1>0, PacketFacts DEF AcksAreTrue
<1>3. IsFiniteSet(p.acks)
  BY <1>0, <1>2, ReceivedFinite
<1>4. /\ DOMAIN sendBuf' = Ends
      /\ sendBuf'[q] = sendBuf[q]
      /\ DOMAIN sendBuf'[e] = DOMAIN sendBuf[e] \ p.acks
      /\ \A i \in DOMAIN sendBuf'[e] :
            sendBuf'[e][i] \in Entry /\ sendBuf'[e][i].data = sendBuf[e][i].data
  <2>1. /\ DOMAIN sendBuf = Ends /\ DOMAIN sendBuf[e] \subseteq Nat /\ linked[e] \in BOOLEAN
        /\ \A i \in DOMAIN sendBuf[e] : sendBuf[e][i] \in Entry
    BY DEF TypeOK
  <2> DEFINE old == IF linked[e] THEN sendBuf[e] ELSE ScheduleNow(sendBuf[e])
  <2>2. /\ DOMAIN sendBuf' = Ends
        /\ sendBuf'[q] = sendBuf[q]
        /\ sendBuf'[e] = SendPurge(old, p.acks)
    BY <2>1, <1>0 DEF Handle
  <2>3. /\ DOMAIN old = DOMAIN sendBuf[e]
        /\ \A i \in DOMAIN old : old[i] \in Entry /\ old[i].data = sendBuf[e][i].data
    BY <2>1 DEF ScheduleNow, Entry
  <2> HIDE DEF old
  <2>4. /\ DOMAIN SendPurge(old, p.acks) = DOMAIN old \ p.acks
        /\ \A i \in DOMAIN old \ p.acks :
              /\ SendPurge(old, p.acks)[i] \in Entry
              /\ SendPurge(old, p.acks)[i].data = old[i].data
    BY <2>1, <2>3, <1>2, <1>3, PurgeFacts
  <2> QED
    BY <2>2, <2>3, <2>4
<1>5. /\ DOMAIN recBuf' = Ends /\ DOMAIN recAck' = Ends
      /\ recBuf'[q] = recBuf[q] /\ recAck'[q] = recAck[q]
      /\ DOMAIN recBuf[e] \subseteq DOMAIN recBuf'[e]
      /\ \A i \in DOMAIN recBuf[e] : recBuf'[e][i] = recBuf[e][i]
      /\ \A i \in DOMAIN recBuf'[e] \ DOMAIN recBuf[e] :
            p.op = "CONTROL" /\ i = p.id /\ recId[e] <= i /\ recBuf'[e][i] = p.data
      /\ recAck'[e] \in Seq(Nat) /\ Len(recAck'[e]) <= AckSize
      /\ \A i \in 1 .. Len(recAck'[e]) :
            recAck'[e][i] < recId[e] \/ recAck'[e][i] \in DOMAIN recBuf'[e]
  BY <1>0, <1>1, AcceptFacts DEF Handle
<1>6. ASSUME NEW i \in DOMAIN recBuf'[e]
      PROVE  i \in Nat /\ recBuf'[e][i] \in Payload
  <2>1. CASE i \in DOMAIN recBuf[e]
    BY <2>1, <1>5 DEF TypeOK
  <2>2. CASE i \notin DOMAIN recBuf[e]
    BY <2>2, <1>5, PacketFacts
  <2> QED
    BY <2>1, <2>2
<1>7. TypeOK'
  <2>1. linked' \in [Ends -> BOOLEAN]
    BY <1>1 DEF TypeOK
  <2>2. ASSUME NEW o \in Ends
        PROVE  /\ DOMAIN sendBuf'[o] \subseteq Nat
               /\ \A i \in DOMAIN sendBuf'[o] : sendBuf'[o][i] \in Entry
               /\ DOMAIN recBuf'[o] \subseteq Nat
               /\ \A i \in DOMAIN recBuf'[o] : recBuf'[o][i] \in Payload
               /\ recAck'[o] \in Seq(Nat) /\ Len(recAck'[o]) <= AckSize
    <3>1. CASE o = e
      BY <3>1, <1>4, <1>5, <1>6 DEF TypeOK
    <3>2. CASE o = q
      BY <3>2, <1>4, <1>5 DEF TypeOK
    <3> QED
      BY <3>1, <3>2, <1>0
  <2> QED
    BY <2>1, <2>2, <1>1, <1>4, <1>5 DEF TypeOK
<1>8. Matching'
  <2>1. ASSUME NEW i \in DOMAIN sendBuf'[e]
        PROVE  i < sendId[e] /\ sendBuf'[e][i].data = log[e][i + 1]
    BY <1>4 DEF Matching
  <2>2. ASSUME NEW i \in DOMAIN recBuf'[e]
        PROVE  recId[e] <= i /\ i < sendId[q] /\ recBuf'[e][i] = log[q][i + 1]
    BY <1>0, <1>5 DEF Matching
  <2> QED
    BY <1>0, <1>1, <1>4, <1>5, <2>1, <2>2 DEF Matching
<1>9. NothingForgotten'
  <2>1. ASSUME NEW id \in 0 .. sendId[e] - 1
        PROVE  id \in DOMAIN sendBuf'[e] \/ Received(q, id)
    BY <1>0, <1>2, <1>4 DEF NothingForgotten
  <2> QED
    BY <1>0, <1>1, <1>4, <1>5, <2>1 DEF NothingForgotten, Received
<1>10. AcksAreTrue'
  BY <1>0, <1>1, <1>5 DEF AcksAreTrue, Received
<1>11. FrontierHeld'
  <2>1. recId[q] < sendId[e] => recId[q] \in DOMAIN sendBuf'[e]
    BY <1>0, <1>4 DEF FrontierHeld
  <2> QED
    BY <1>0, <1>1, <1>4, <2>1 DEF FrontierHeld
<1>12. HandshakeFirst'
  BY <1>0, <1>1, <1>5 DEF HandshakeFirst, TypeOK
<1> QED
  BY <1>7, <1>8, <1>9, <1>10, <1>11, <1>12

\* Concatenation, element by element.
LEMMA ConcatFacts ==
    ASSUME NEW S, NEW s \in Seq(S), NEW u \in Seq(S)
    PROVE  /\ s \o u \in Seq(S) /\ Len(s \o u) = Len(s) + Len(u)
           /\ \A i \in 1 .. Len(s) : (s \o u)[i] = s[i]
           /\ \A i \in 1 .. Len(u) : (s \o u)[Len(s) + i] = u[i]
OBVIOUS

\* A sequence is an initial part of every longer one that begins with its elements.
LEMMA InitialPart ==
    ASSUME NEW S, NEW s \in Seq(S), NEW t \in Seq(S), Len(t) >= Len(s),
           \A i \in 1 .. Len(s) : t[i] = s[i]
    PROVE  SubSeq(t, 1, Len(s)) = s
<1>0. Len(s) \in Nat
  OBVIOUS
<1>1. \A i \in 1 .. Len(s) : t[i] \in S
  BY <1>0
<1>2. /\ SubSeq(t, 1, Len(s)) \in Seq(S)
      /\ Len(SubSeq(t, 1, Len(s))) = Len(s)
      /\ \A i \in 1 .. Len(s) : SubSeq(t, 1, Len(s))[i] = t[i]
  BY <1>0, <1>1
<1> DEFINE part == SubSeq(t, 1, Len(s))
<1> HIDE DEF part
<1>3. part \in Seq(S) /\ Len(part) = Len(s) /\ \A i \in 1 .. Len(s) : part[i] = s[i]
  BY <1>2 DEF part
<1>4. part = s
  BY <1>3
<1> QED
  BY <1>4 DEF part

\* A turn adds packets that fit the window: the reset first, TLS packets when the
\* reset is acknowledged.
LEMMA OutgoingFacts ==
    ASSUME IInv, NEW e \in Ends, NEW ps \in Outgoing(e)
    PROVE  /\ ps \in Seq(Payload)
           /\ \A i \in DOMAIN sendBuf[e] : sendId[e] + Len(ps) - i <= SendBufs
           /\ Len(ps) <= SendBufs
           /\ state[e] = "S_INITIAL" => ps = <<Reset>>
           /\ Len(ps) > 0 => state[e] = "S_INITIAL" \/ Started(e)
<1> USE DEF IInv
<1>0. sendId[e] \in Nat
  BY DEF TypeOK
<1>1. CASE state[e] = "S_INITIAL"
  <2>1. ps = <<Reset>> /\ Len(ps) = 1
    BY <1>1 DEF Outgoing
  <2>3. ps \in Seq(Payload)
    BY <2>1 DEF Payload
  <2>2. DOMAIN sendBuf[e] = {}
    BY <1>0, <1>1 DEF HandshakeFirst, Matching, TypeOK
  <2> QED
    BY <1>1, <2>1, <2>2, <2>3, SizesAssumption
<1>2. CASE state[e] # "S_INITIAL" /\ Started(e)
  <2>1. PICK n \in 0 .. SendBufs :
              /\ Room(e, n) /\ sendId[e] + n <= MaxPackets[e]
              /\ ps = [i \in 1 .. n |-> Ciphertext(e, sendId[e] + i - 1)]
    BY <1>2 DEF Outgoing
  <2>2. sendId[e] > 0
    BY <1>0, <1>2 DEF HandshakeFirst
  <2>3. MaxPackets[e] \in Nat /\ n \in Nat
    BY <2>1, BoundsAssumption, SizesAssumption
  <2>4. \A i \in 1 .. n : Ciphertext(e, sendId[e] + i - 1) \in Payload
    <3>1. \A i \in 1 .. n : sendId[e] + i - 1 \in 1 .. MaxPackets[e] - 1
      BY <1>0, <2>1, <2>2, <2>3
    <3> QED
      BY <3>1, DataAssumption DEF Payload
  <2>5. ps \in Seq(Payload) /\ Len(ps) = n
    BY <2>1, <2>3, <2>4
  <2> QED
    BY <1>2, <2>1, <2>5 DEF Room
<1>3. CASE state[e] # "S_INITIAL" /\ ~Started(e)
  <2>1. ps = <<>> /\ Len(ps) = 0
    BY <1>3 DEF Outgoing
  <2>2. \A i \in DOMAIN sendBuf[e] : i \in Nat /\ sendId[e] - i <= SendBufs
    BY DEF FrontierHeld, TypeOK
  <2>3. \A i \in DOMAIN sendBuf[e] : sendId[e] + Len(ps) - i <= SendBufs
    BY <1>0, <2>1, <2>2
  <2> QED
    BY <1>3, <2>1, <2>3, SizesAssumption
<1> QED
  BY <1>1, <1>2, <1>3

\* The send buffer after the turn's packets are marked active.
LEMMA MarkActiveFacts ==
    ASSUME IInv, NEW e \in Ends, NEW ps \in Outgoing(e)
    PROVE  LET buf == MarkActiveOutgoing(e, ps)
           IN /\ DOMAIN buf = DOMAIN sendBuf[e] \cup (sendId[e] .. sendId[e] + Len(ps) - 1)
              /\ DOMAIN buf \subseteq Nat
              /\ \A i \in DOMAIN buf : /\ buf[i] \in Entry
                                       /\ i < sendId[e] + Len(ps)
                                       /\ buf[i].data = (log[e] \o ps)[i + 1]
<1> USE DEF IInv
<1> DEFINE buf == MarkActiveOutgoing(e, ps)
<1>1. /\ sendId[e] \in Nat /\ log[e] \in Seq(Payload) /\ Len(log[e]) = sendId[e]
      /\ ps \in Seq(Payload) /\ Len(ps) \in Nat
  BY OutgoingFacts DEF TypeOK, Matching
<1>0. /\ \A i \in 1 .. sendId[e] : (log[e] \o ps)[i] = log[e][i]
      /\ \A i \in 1 .. Len(ps) : (log[e] \o ps)[sendId[e] + i] = ps[i]
  <2> HIDE DEF IInv
  <2> DEFINE s == log[e]
  <2>0. s \in Seq(Payload) /\ ps \in Seq(Payload)
    BY <1>1
  <2> HIDE DEF s
  <2>1. /\ \A i \in 1 .. Len(s) : (s \o ps)[i] = s[i]
        /\ \A i \in 1 .. Len(ps) : (s \o ps)[Len(s) + i] = ps[i]
    BY <2>0, ConcatFacts
  <2> USE DEF s
  <2> QED
    BY <1>1, <2>1
<1>2. DOMAIN buf = DOMAIN sendBuf[e] \cup (sendId[e] .. sendId[e] + Len(ps) - 1)
  BY DEF MarkActiveOutgoing
<1>3. ASSUME NEW i \in DOMAIN sendBuf[e]
      PROVE  /\ i \in Nat /\ i < sendId[e] /\ buf[i] \in Entry
             /\ buf[i].data = (log[e] \o ps)[i + 1]
  <2>1. i \in Nat /\ i < sendId[e] /\ sendBuf[e][i] \in Entry /\ sendBuf[e][i].data = log[e][i + 1]
    BY DEF TypeOK, Matching
  <2>2. buf[i] = sendBuf[e][i]
    BY DEF MarkActiveOutgoing
  <2>3. (log[e] \o ps)[i + 1] = log[e][i + 1]
    <3>1. i + 1 \in 1 .. sendId[e]
      BY <1>1, <2>1
    <3> QED
      BY <1>0, <3>1
  <2> QED
    BY <2>1, <2>2, <2>3
<1>4. ASSUME NEW i \in sendId[e] .. sendId[e] + Len(ps) - 1, i \notin DOMAIN sendBuf[e]
      PROVE  /\ i \in Nat /\ i < sendId[e] + Len(ps) /\ buf[i] \in Entry
             /\ buf[i].data = (log[e] \o ps)[i + 1]
  <2>0. sendId[e] \in Nat /\ Len(ps) \in Nat
    BY <1>1
  <2>1. i \in Nat /\ i < sendId[e] + Len(ps) /\ i - sendId[e] + 1 \in 1 .. Len(ps)
    BY <2>0
  <2>2. buf[i] = [data |-> ps[i - sendId[e] + 1], due |-> TRUE, nAcks |-> 0]
    BY <1>4 DEF MarkActiveOutgoing
  <2>3. ps[i - sendId[e] + 1] \in Payload
    BY <1>1, <2>1
  <2>4. (log[e] \o ps)[i + 1] = ps[i - sendId[e] + 1]
    <3> DEFINE k == i - sendId[e] + 1
    <3>1. k \in 1 .. Len(ps) /\ sendId[e] + k = i + 1
      BY <2>0, <2>1
    <3> HIDE DEF k
    <3>2. (log[e] \o ps)[sendId[e] + k] = ps[k]
      BY <1>0, <3>1
    <3> QED
      BY <3>1, <3>2 DEF k
  <2> QED
    BY <2>1, <2>2, <2>3, <2>4 DEF Entry
<1> HIDE DEF buf
<1>5. \A i \in DOMAIN sendBuf[e] : i < sendId[e] + Len(ps)
  BY <1>1, <1>3
<1> QED
  BY <1>2, <1>3, <1>4, <1>5 DEF buf

\* What the turn's acknowledgements are made of: ids that e has received.
LEMMA AckWriteFacts ==
    ASSUME IInv, NEW e \in Ends, NEW max \in Nat, NEW acks, AckWrite(e, max, acks)
    PROVE  /\ acks \in SUBSET Nat /\ \A id \in acks : Received(e, id)
           /\ DOMAIN lruAcks' = Ends /\ lruAcks'[Peer(e)] = lruAcks[Peer(e)]
           /\ lruAcks'[e] \in SUBSET Nat /\ \A id \in lruAcks'[e] : Received(e, id)
           /\ Cardinality(lruAcks'[e]) <= AckSize
           /\ DOMAIN recAck' = Ends /\ recAck'[Peer(e)] = recAck[Peer(e)]
           /\ recAck'[e] \in Seq(Nat) /\ Len(recAck'[e]) <= AckSize
           /\ \A i \in 1 .. Len(recAck'[e]) : \E j \in 1 .. Len(recAck[e]) : recAck'[e][i] = recAck[e][j]
<1> USE DEF IInv
<1> DEFINE n == Lesser(Len(recAck[e]), max)
           known == lruAcks[e] \cup {recAck[e][i] : i \in 1 .. n}
<1>1. /\ recAck[e] \in Seq(Nat) /\ Len(recAck[e]) \in Nat /\ Len(recAck[e]) <= AckSize
      /\ n \in 0 .. Len(recAck[e])
      /\ DOMAIN lruAcks = Ends /\ DOMAIN recAck = Ends
      /\ Peer(e) \in Ends /\ Peer(e) # e
  BY PeerFacts DEF TypeOK, Lesser
<1>2. PICK lru \in SUBSET known :
           /\ acks \subseteq lru
           /\ Cardinality(lru) = Lesser(AckSize, Cardinality(known))
           /\ lruAcks' = [lruAcks EXCEPT ![e] = lru]
           /\ recAck' = [recAck EXCEPT ![e] = SubSeq(@, n + 1, Len(@))]
  BY DEF AckWrite
<1>3. known \in SUBSET Nat /\ \A id \in known : Received(e, id)
  <2>1. \A i \in 1 .. Len(recAck[e]) : recAck[e][i] \in Nat /\ Received(e, recAck[e][i])
    BY <1>1 DEF AcksAreTrue
  <2>2. lruAcks[e] \in SUBSET Nat /\ \A id \in lruAcks[e] : Received(e, id)
    BY DEF AcksAreTrue, TypeOK
  <2>3. 1 .. n \subseteq 1 .. Len(recAck[e])
    BY <1>1
  <2> HIDE DEF n
  <2> QED
    BY <2>1, <2>2, <2>3
<1>4. Cardinality(known) \in Nat
  BY <1>3, ReceivedFinite
<1>5. Cardinality(lru) <= AckSize
  BY <1>2, <1>4, SizesAssumption DEF Lesser
<1>6. /\ SubSeq(recAck[e], n + 1, Len(recAck[e])) \in Seq(Nat)
      /\ Len(SubSeq(recAck[e], n + 1, Len(recAck[e]))) = Len(recAck[e]) - n
      /\ \A i \in 1 .. Len(recAck[e]) - n :
            SubSeq(recAck[e], n + 1, Len(recAck[e]))[i] = recAck[e][i + n]
  <2> HIDE DEF n
  <2> QED
    BY <1>1
<1>7. /\ recAck'[e] \in Seq(Nat) /\ Len(recAck'[e]) <= AckSize
      /\ \A i \in 1 .. Len(recAck'[e]) : i + n \in 1 .. Len(recAck[e]) /\ recAck'[e][i] = recAck[e][i + n]
  <2>1. recAck'[e] = SubSeq(recAck[e], n + 1, Len(recAck[e]))
    BY <1>1, <1>2
  <2> HIDE DEF n
  <2> QED
    BY <1>1, <1>6, <2>1, SizesAssumption
<1> QED
  BY <1>1, <1>2, <1>3, <1>5, <1>7

\* Taking what is in sequence to TLS: the end has received the same ids as before, and
\* not the one it now waits for.
LEMMA DeliverFacts ==
    ASSUME IInv, NEW e \in Ends, DeliverInSequence(e)
    PROVE  /\ recId' \in [Ends -> Nat] /\ recId'[Peer(e)] = recId[Peer(e)]
           /\ recId[e] <= recId'[e] /\ recId'[e] <= sendId[Peer(e)]
           /\ ~Received(e, recId'[e])
           /\ DOMAIN recBuf' = Ends /\ recBuf'[Peer(e)] = recBuf[Peer(e)]
           /\ DOMAIN recBuf'[e] \subseteq DOMAIN recBuf[e]
           /\ \A i \in DOMAIN recBuf'[e] : recId'[e] <= i /\ recBuf'[e][i] = recBuf[e][i]
           /\ \A i \in Nat : Received(e, i) => i < recId'[e] \/ i \in DOMAIN recBuf'[e]
           /\ recId'[e] > recId[e] => DOMAIN recBuf[e] # {}
           /\ got' \in [Ends -> Seq(Payload)] /\ got'[Peer(e)] = got[Peer(e)]
           /\ Len(got'[e]) = recId'[e]
           /\ \A i \in 1 .. recId'[e] : got'[e][i] = log[Peer(e)][i]
<1> USE DEF IInv
<1> DEFINE q == Peer(e)
<1>0. /\ q \in Ends /\ q # e
      /\ recId \in [Ends -> Nat] /\ recId[e] \in Nat /\ sendId[q] \in Nat /\ recId[e] <= sendId[q]
      /\ DOMAIN recBuf = Ends /\ DOMAIN recBuf[e] \subseteq Nat
      /\ got \in [Ends -> Seq(Payload)] /\ got[e] \in Seq(Payload) /\ Len(got[e]) = recId[e]
      /\ \A i \in 1 .. recId[e] : got[e][i] = log[q][i]
      /\ \A i \in DOMAIN recBuf[e] : /\ recId[e] <= i /\ i < sendId[q]
                                     /\ recBuf[e][i] = log[q][i + 1] /\ recBuf[e][i] \in Payload
  BY PeerFacts DEF TypeOK, Matching
<1> HIDE DEF q
<1> DEFINE new(r) == [i \in 1 .. r - recId[e] |-> recBuf[e][recId[e] + i - 1]]
<1>1. PICK r \in recId[e] .. recId[e] + RecBufs :
           /\ recId[e] .. r - 1 \subseteq DOMAIN recBuf[e]
           /\ r \notin DOMAIN recBuf[e]
           /\ recId' = [recId EXCEPT ![e] = r]
           /\ recBuf' = [recBuf EXCEPT ![e] = [i \in {j \in DOMAIN @ : j >= r} |-> @[i]]]
           /\ got' = [got EXCEPT ![e] = @ \o new(r)]
  BY DEF DeliverInSequence
<1>2. r \in Nat /\ recId[e] <= r
  BY <1>0, <1>1, SizesAssumption
<1>3. r <= sendId[q]
  <2>1. CASE r > recId[e]
    <3>1. r - 1 \in recId[e] .. r - 1
      BY <1>0, <1>2, <2>1
    <3>2. r - 1 \in DOMAIN recBuf[e]
      BY <1>1, <3>1
    <3>3. r - 1 < sendId[q]
      BY <1>0, <3>2
    <3> QED
      BY <1>0, <1>2, <3>3
  <2>2. CASE ~(r > recId[e])
    BY <1>0, <1>2, <2>2
  <2> QED
    BY <2>1, <2>2
<1>4. new(r) \in Seq(Payload) /\ Len(new(r)) = r - recId[e]
  <2>1. \A i \in 1 .. r - recId[e] : recId[e] + i - 1 \in recId[e] .. r - 1
    BY <1>0, <1>2
  <2>2. \A i \in 1 .. r - recId[e] : recBuf[e][recId[e] + i - 1] \in Payload
    BY <2>1, <1>0, <1>1
  <2>3. r - recId[e] \in Nat
    BY <1>0, <1>2
  <2> QED
    BY <2>2, <2>3
<1>5. \A i \in 1 .. r - recId[e] : new(r)[i] = log[q][recId[e] + i]
  <2> SUFFICES ASSUME NEW i \in 1 .. r - recId[e] PROVE new(r)[i] = log[q][recId[e] + i]
    OBVIOUS
  <2>1. recId[e] + i - 1 \in DOMAIN recBuf[e] /\ (recId[e] + i - 1) + 1 = recId[e] + i
    <3>1. recId[e] + i - 1 \in recId[e] .. r - 1 /\ (recId[e] + i - 1) + 1 = recId[e] + i
      BY <1>0, <1>2
    <3> QED
      BY <1>1, <3>1
  <2> QED
    BY <1>0, <2>1
<1> HIDE DEF new
<1>6. got' \in [Ends -> Seq(Payload)] /\ got'[q] = got[q] /\ got'[e] = got[e] \o new(r)
  <2>1. got'[q] = got[q] /\ got'[e] = got[e] \o new(r) /\ got' = [got EXCEPT ![e] = got[e] \o new(r)]
    BY <1>0, <1>1
  <2>2. got[e] \o new(r) \in Seq(Payload)
    BY <1>0, <1>4, ConcatFacts
  <2> QED
    BY <1>0, <2>1, <2>2
<1>7. Len(got'[e]) = r
  <2>1. Len(got[e] \o new(r)) = Len(got[e]) + Len(new(r))
    BY <1>0, <1>4, ConcatFacts
  <2> QED
    BY <1>0, <1>2, <1>4, <1>6, <2>1
<1>8. ASSUME NEW i \in 1 .. r
      PROVE  got'[e][i] = log[q][i]
  <2>1. CASE i \in 1 .. recId[e]
    BY <1>0, <1>4, <1>6, <2>1, ConcatFacts
  <2>2. CASE i \notin 1 .. recId[e]
    <3>1. i - recId[e] \in 1 .. r - recId[e] /\ recId[e] + (i - recId[e]) = i
      BY <1>0, <1>2, <2>2
    <3> DEFINE k == i - recId[e]
    <3>2. k \in 1 .. r - recId[e] /\ recId[e] + k = i
      BY <3>1
    <3> HIDE DEF k
    <3>3. (got[e] \o new(r))[recId[e] + k] = new(r)[k]
      BY <1>0, <1>4, <3>2, ConcatFacts
    <3> QED
      BY <1>5, <1>6, <3>2, <3>3
  <2> QED
    BY <2>1, <2>2
<1>9. /\ recId' \in [Ends -> Nat] /\ recId'[e] = r /\ recId'[q] = recId[q]
      /\ DOMAIN recBuf' = Ends /\ recBuf'[q] = recBuf[q]
      /\ DOMAIN recBuf'[e] = {j \in DOMAIN recBuf[e] : j >= r}
      /\ \A i \in DOMAIN recBuf'[e] : recBuf'[e][i] = recBuf[e][i]
  BY <1>0, <1>1, <1>2
<1>10. \A i \in DOMAIN recBuf'[e] : r <= i
  BY <1>0, <1>2, <1>9
<1>11. \A i \in Nat : Received(e, i) => i < r \/ i \in DOMAIN recBuf'[e]
  BY <1>0, <1>2, <1>9 DEF Received
<1>12. r > recId[e] => DOMAIN recBuf[e] # {}
  <2>1. r > recId[e] => recId[e] \in recId[e] .. r - 1
    BY <1>0, <1>2
  <2> QED
    BY <1>1, <2>1
<1>13. ~Received(e, r)
  BY <1>0, <1>1, <1>2 DEF Received
<1> QED
  BY <1>0, <1>2, <1>3, <1>6, <1>7, <1>8, <1>9, <1>10, <1>11, <1>12, <1>13 DEF q

\* What a turn sends: an entry of the send buffer or nothing but acknowledgements, and
\* in both cases acknowledgements of what e has received.
LEMMA SendFacts ==
    ASSUME IInv, NEW e \in Ends, NEW buf, DOMAIN buf \subseteq Nat,
           \A i \in DOMAIN buf : buf[i] \in Entry,
           Transmit(e, buf) \/ Acknowledge(e, buf)
    PROVE  /\ DOMAIN sendBuf' = Ends /\ sendBuf'[Peer(e)] = sendBuf[Peer(e)]
           /\ DOMAIN sendBuf'[e] = DOMAIN buf
           /\ \A i \in DOMAIN buf : sendBuf'[e][i] \in Entry /\ sendBuf'[e][i].data = buf[i].data
           /\ \A p \in net' \ net :
                 /\ p \in ControlPacket \cup AckPacket /\ p.to = Peer(e)
                 /\ \A id \in p.acks : Received(e, id)
                 /\ p.op = "CONTROL" => p.id \in DOMAIN buf /\ p.data = buf[p.id].data
           /\ DOMAIN lruAcks' = Ends /\ lruAcks'[Peer(e)] = lruAcks[Peer(e)]
           /\ lruAcks'[e] \in SUBSET Nat /\ \A id \in lruAcks'[e] : Received(e, id)
           /\ Cardinality(lruAcks'[e]) <= AckSize
           /\ DOMAIN recAck' = Ends /\ recAck'[Peer(e)] = recAck[Peer(e)]
           /\ recAck'[e] \in Seq(Nat) /\ Len(recAck'[e]) <= AckSize
           /\ \A i \in 1 .. Len(recAck'[e]) : \E j \in 1 .. Len(recAck[e]) : recAck'[e][i] = recAck[e][j]
<1> USE DEF IInv
<1>0. /\ Peer(e) \in Ends /\ Peer(e) # e /\ DOMAIN sendBuf = Ends
      /\ AckSize \in Nat /\ SendAckMax \in Nat
  BY PeerFacts, SizesAssumption DEF TypeOK
<1>1. CASE Transmit(e, buf)
  <2>0. PICK id \in Due(buf) :
            \E acks :
               /\ AckWrite(e, SendAckMax, acks)
               /\ net' = net \cup {[to |-> Peer(e), op |-> "CONTROL", id |-> id,
                                    data |-> buf[id].data, acks |-> acks]}
               /\ sendBuf' = [sendBuf EXCEPT ![e] = Sent(buf, id)]
    BY <1>1 DEF Transmit
  <2>1. PICK acks :
             /\ AckWrite(e, SendAckMax, acks)
             /\ net' = net \cup {[to |-> Peer(e), op |-> "CONTROL", id |-> id,
                                  data |-> buf[id].data, acks |-> acks]}
             /\ sendBuf' = [sendBuf EXCEPT ![e] = Sent(buf, id)]
    BY <2>0
  <2>2. id \in DOMAIN buf /\ buf[id] \in Entry /\ id \in Nat
    BY <2>0 DEF Due
  <2>3. /\ DOMAIN Sent(buf, id) = DOMAIN buf
        /\ \A i \in DOMAIN buf : Sent(buf, id)[i] \in Entry /\ Sent(buf, id)[i].data = buf[i].data
    BY <2>2 DEF Sent, Entry
  <2>4. /\ DOMAIN sendBuf' = Ends /\ sendBuf'[Peer(e)] = sendBuf[Peer(e)]
        /\ DOMAIN sendBuf'[e] = DOMAIN buf
        /\ \A i \in DOMAIN buf : sendBuf'[e][i] \in Entry /\ sendBuf'[e][i].data = buf[i].data
    BY <1>0, <2>1, <2>3
  <2>5. /\ acks \in SUBSET Nat /\ \A a \in acks : Received(e, a)
        /\ DOMAIN lruAcks' = Ends /\ lruAcks'[Peer(e)] = lruAcks[Peer(e)]
        /\ lruAcks'[e] \in SUBSET Nat /\ \A a \in lruAcks'[e] : Received(e, a)
        /\ Cardinality(lruAcks'[e]) <= AckSize
        /\ DOMAIN recAck' = Ends /\ recAck'[Peer(e)] = recAck[Peer(e)]
        /\ recAck'[e] \in Seq(Nat) /\ Len(recAck'[e]) <= AckSize
        /\ \A i \in 1 .. Len(recAck'[e]) : \E j \in 1 .. Len(recAck[e]) : recAck'[e][i] = recAck[e][j]
    BY <1>0, <2>1, AckWriteFacts
  <2>6. ASSUME NEW p \in net' \ net
        PROVE  /\ p \in ControlPacket \cup AckPacket /\ p.to = Peer(e)
               /\ \A a \in p.acks : Received(e, a)
               /\ p.op = "CONTROL" => p.id \in DOMAIN buf /\ p.data = buf[p.id].data
    <3>1. p = [to |-> Peer(e), op |-> "CONTROL", id |-> id, data |-> buf[id].data, acks |-> acks]
      BY <2>1
    <3>2. p.to = Peer(e) /\ p.acks = acks /\ p.id = id /\ p.data = buf[id].data
      BY <3>1
    <3>3. buf[id].data \in Payload
      BY <2>2 DEF Entry
    <3>4. p \in ControlPacket
      BY <1>0, <2>2, <2>5, <3>1, <3>3 DEF ControlPacket
    <3> QED
      BY <2>2, <2>5, <3>2, <3>4
  <2> QED
    BY <2>4, <2>5, <2>6
<1>2. CASE Acknowledge(e, buf)
  <2>1. /\ DOMAIN sendBuf' = Ends /\ sendBuf'[Peer(e)] = sendBuf[Peer(e)]
        /\ DOMAIN sendBuf'[e] = DOMAIN buf
        /\ \A i \in DOMAIN buf : sendBuf'[e][i] \in Entry /\ sendBuf'[e][i].data = buf[i].data
    BY <1>0, <1>2 DEF Acknowledge
  <2>2. CASE recAck[e] # <<>>
    <3>1. PICK acks : /\ AckWrite(e, AckSize, acks)
                      /\ net' = net \cup {[to |-> Peer(e), op |-> "ACK", acks |-> acks]}
      BY <1>2, <2>2 DEF Acknowledge
    <3>2. /\ acks \in SUBSET Nat /\ \A a \in acks : Received(e, a)
          /\ DOMAIN lruAcks' = Ends /\ lruAcks'[Peer(e)] = lruAcks[Peer(e)]
          /\ lruAcks'[e] \in SUBSET Nat /\ \A a \in lruAcks'[e] : Received(e, a)
          /\ Cardinality(lruAcks'[e]) <= AckSize
          /\ DOMAIN recAck' = Ends /\ recAck'[Peer(e)] = recAck[Peer(e)]
          /\ recAck'[e] \in Seq(Nat) /\ Len(recAck'[e]) <= AckSize
          /\ \A i \in 1 .. Len(recAck'[e]) : \E j \in 1 .. Len(recAck[e]) : recAck'[e][i] = recAck[e][j]
      BY <1>0, <3>1, AckWriteFacts
    <3>3. ASSUME NEW p \in net' \ net
          PROVE  /\ p \in AckPacket /\ p.to = Peer(e) /\ p.op # "CONTROL"
                 /\ \A a \in p.acks : Received(e, a)
      <4>1. p = [to |-> Peer(e), op |-> "ACK", acks |-> acks]
        BY <3>1
      <4> QED
        BY <1>0, <3>2, <4>1 DEF AckPacket
    <3> QED
      BY <2>1, <3>2, <3>3
  <2>3. CASE recAck[e] = <<>>
    <3>1. UNCHANGED <<recAck, lruAcks, net>>
      BY <1>2, <2>3 DEF Acknowledge
    <3> QED
      BY <1>0, <2>1, <3>1 DEF TypeOK, AcksAreTrue
  <2> QED
    BY <2>2, <2>3
<1> QED
  BY <1>1, <1>2

\* A turn of tls_process keeps the invariant.
LEMMA ProcessInv ==
    ASSUME IInv, NEW e \in Ends, Process(e)
    PROVE  IInv'
<1> USE DEF IInv
<1> DEFINE q == Peer(e)
<1>0. /\ q \in Ends /\ q # e /\ Peer(q) = e /\ Peer(e) = q
      /\ \A o \in Ends : o = e \/ o = q
  BY PeerFacts
<1> HIDE DEF q
<1>1. PICK ps \in Outgoing(e) :
         /\ sendId' = [sendId EXCEPT ![e] = @ + Len(ps)]
         /\ log' = [log EXCEPT ![e] = @ \o ps]
         /\ Transmit(e, MarkActiveOutgoing(e, ps)) \/ Acknowledge(e, MarkActiveOutgoing(e, ps))
  BY DEF Process
<1> DEFINE n == Len(ps)
           buf == MarkActiveOutgoing(e, ps)
           r == recId'[e]
<1>2. /\ state' = [state EXCEPT ![e] =
                      IF @ = "S_INITIAL" THEN "S_PRE_START" ELSE IF Started(e) THEN "S_START" ELSE @]
      /\ UNCHANGED <<linked, faults>>
  BY DEF Process
<1>3. /\ ps \in Seq(Payload) /\ n \in Nat /\ n <= SendBufs
      /\ \A i \in DOMAIN sendBuf[e] : sendId[e] + n - i <= SendBufs
      /\ state[e] = "S_INITIAL" => ps = <<Reset>>
      /\ n > 0 => state[e] = "S_INITIAL" \/ Started(e)
  BY OutgoingFacts
<1>4. /\ DOMAIN buf = DOMAIN sendBuf[e] \cup (sendId[e] .. sendId[e] + n - 1)
      /\ DOMAIN buf \subseteq Nat
      /\ \A i \in DOMAIN buf : /\ buf[i] \in Entry /\ i < sendId[e] + n
                               /\ buf[i].data = (log[e] \o ps)[i + 1]
  BY MarkActiveFacts
<1> HIDE DEF n, buf
<1>5. /\ DOMAIN sendBuf' = Ends /\ sendBuf'[q] = sendBuf[q]
      /\ DOMAIN sendBuf'[e] = DOMAIN buf
      /\ \A i \in DOMAIN buf : sendBuf'[e][i] \in Entry /\ sendBuf'[e][i].data = buf[i].data
      /\ \A p \in net' \ net :
            /\ p \in ControlPacket \cup AckPacket /\ p.to = q
            /\ \A id \in p.acks : Received(e, id)
            /\ p.op = "CONTROL" => p.id \in DOMAIN buf /\ p.data = buf[p.id].data
      /\ DOMAIN lruAcks' = Ends /\ lruAcks'[q] = lruAcks[q]
      /\ lruAcks'[e] \in SUBSET Nat /\ \A id \in lruAcks'[e] : Received(e, id)
      /\ Cardinality(lruAcks'[e]) <= AckSize
      /\ DOMAIN recAck' = Ends /\ recAck'[q] = recAck[q]
      /\ recAck'[e] \in Seq(Nat) /\ Len(recAck'[e]) <= AckSize
      /\ \A i \in 1 .. Len(recAck'[e]) : \E j \in 1 .. Len(recAck[e]) : recAck'[e][i] = recAck[e][j]
  BY <1>0, <1>1, <1>4, SendFacts DEF buf
<1>6. /\ recId' \in [Ends -> Nat] /\ recId'[q] = recId[q]
      /\ recId[e] <= r /\ r <= sendId[q] /\ ~Received(e, r)
      /\ DOMAIN recBuf' = Ends /\ recBuf'[q] = recBuf[q]
      /\ DOMAIN recBuf'[e] \subseteq DOMAIN recBuf[e]
      /\ \A i \in DOMAIN recBuf'[e] : r <= i /\ recBuf'[e][i] = recBuf[e][i]
      /\ \A i \in Nat : Received(e, i) => i < r \/ i \in DOMAIN recBuf'[e]
      /\ r > recId[e] => DOMAIN recBuf[e] # {}
      /\ got' \in [Ends -> Seq(Payload)] /\ got'[q] = got[q]
      /\ Len(got'[e]) = r
      /\ \A i \in 1 .. r : got'[e][i] = log[q][i]
  BY <1>0, DeliverFacts DEF Process
<1>7. /\ sendId[e] \in Nat /\ sendId[q] \in Nat /\ recId[e] \in Nat /\ recId[q] \in Nat /\ r \in Nat
      /\ sendId' \in [Ends -> Nat] /\ sendId'[e] = sendId[e] + n /\ sendId'[q] = sendId[q]
  <2>1. sendId \in [Ends -> Nat] /\ recId \in [Ends -> Nat]
    BY DEF TypeOK
  <2>2. sendId[e] \in Nat /\ sendId[q] \in Nat /\ recId[e] \in Nat /\ recId[q] \in Nat /\ r \in Nat
    BY <1>0, <1>6, <2>1
  <2>3. sendId' = [sendId EXCEPT ![e] = @ + n]
    BY <1>1 DEF n
  <2>4. sendId' \in [Ends -> Nat] /\ sendId'[e] = sendId[e] + n /\ sendId'[q] = sendId[q]
    <3> HIDE DEF IInv
    <3> QED
      BY <1>0, <1>3, <2>1, <2>2, <2>3
  <2> QED
    BY <2>2, <2>4
<1>8. /\ log' \in [Ends -> Seq(Payload)] /\ log'[q] = log[q] /\ log'[e] = log[e] \o ps
      /\ Len(log'[e]) = sendId[e] + n
      /\ \A i \in 1 .. sendId[e] : log'[e][i] = log[e][i]
      /\ \A i \in 1 .. n : log'[e][sendId[e] + i] = ps[i]
  <2>1. /\ log[e] \in Seq(Payload) /\ Len(log[e]) = sendId[e] /\ log \in [Ends -> Seq(Payload)]
    BY DEF TypeOK, Matching
  <2>2. /\ log[e] \o ps \in Seq(Payload)
        /\ Len(log[e] \o ps) = sendId[e] + n
        /\ \A i \in 1 .. sendId[e] : (log[e] \o ps)[i] = log[e][i]
        /\ \A i \in 1 .. n : (log[e] \o ps)[sendId[e] + i] = ps[i]
    <3> DEFINE longer == log[e] \o ps
    <3>1. /\ log[e] \o ps \in Seq(Payload)
          /\ Len(log[e] \o ps) = Len(log[e]) + Len(ps)
          /\ \A i \in 1 .. Len(log[e]) : (log[e] \o ps)[i] = log[e][i]
          /\ \A i \in 1 .. Len(ps) : (log[e] \o ps)[Len(log[e]) + i] = ps[i]
      <4>1. log[e] \in Seq(Payload) /\ ps \in Seq(Payload)
        BY <2>1, <1>3
      <4> QED
        BY <4>1, ConcatFacts
    <3>2. Len(log[e]) = sendId[e] /\ Len(ps) = n
      BY <2>1 DEF n
    <3> HIDE DEF longer
    <3>3. /\ longer \in Seq(Payload)
          /\ Len(longer) = sendId[e] + n
          /\ \A i \in 1 .. sendId[e] : longer[i] = log[e][i]
          /\ \A i \in 1 .. n : longer[sendId[e] + i] = ps[i]
      BY <3>1, <3>2, Zenon DEF longer
    <3> QED
      BY <3>3 DEF longer
  <2>3. log'[q] = log[q] /\ log'[e] = log[e] \o ps /\ log' \in [Ends -> Seq(Payload)]
    BY <1>0, <1>1, <2>1, <2>2
  <2> QED
    BY <2>2, <2>3
<1> HIDE DEF r
<1>9. \A i \in Nat : Received(q, i)' <=> Received(q, i)
  BY <1>6 DEF Received
<1>10. \A i \in Nat : Received(e, i) => Received(e, i)'
  BY <1>6 DEF Received, r
<1>11. TypeOK'
  <2>1. state' \in [Ends -> {"S_INITIAL", "S_PRE_START", "S_START"}]
    BY <1>2 DEF TypeOK
  <2>2. net' \subseteq ControlPacket \cup AckPacket
    BY <1>5 DEF TypeOK
  <2>3. ASSUME NEW o \in Ends
        PROVE  /\ DOMAIN sendBuf'[o] \subseteq Nat
               /\ \A i \in DOMAIN sendBuf'[o] : sendBuf'[o][i] \in Entry
               /\ DOMAIN recBuf'[o] \subseteq Nat
               /\ \A i \in DOMAIN recBuf'[o] : recBuf'[o][i] \in Payload
               /\ recAck'[o] \in Seq(Nat) /\ Len(recAck'[o]) <= AckSize
               /\ lruAcks'[o] \in SUBSET Nat /\ Cardinality(lruAcks'[o]) <= AckSize
    <3>1. CASE o = e
      BY <3>1, <1>4, <1>5, <1>6 DEF TypeOK
    <3>2. CASE o = q
      BY <3>2, <1>0, <1>5, <1>6 DEF TypeOK
    <3> QED
      BY <3>1, <3>2, <1>0
  <2> QED
    BY <2>1, <2>2, <2>3, <1>2, <1>5, <1>6, <1>7, <1>8 DEF TypeOK
<1>12. Matching'
  <2>1. /\ Len(log'[e]) = sendId'[e]
        /\ Len(got'[e]) = recId'[e] /\ recId'[e] <= sendId'[q]
        /\ \A i \in 1 .. recId'[e] : got'[e][i] = log'[q][i]
        /\ \A i \in DOMAIN sendBuf'[e] : i < sendId'[e] /\ sendBuf'[e][i].data = log'[e][i + 1]
    BY <1>4, <1>5, <1>6, <1>7, <1>8 DEF r
  <2>2. \A i \in DOMAIN recBuf'[e] :
           recId'[e] <= i /\ i < sendId'[q] /\ recBuf'[e][i] = log'[q][i + 1]
    BY <1>0, <1>6, <1>7, <1>8 DEF Matching, r
  <2>3. ASSUME NEW p \in net', p.to = e, p.op = "CONTROL"
        PROVE  p.id < sendId'[q] /\ p.data = log'[q][p.id + 1]
    <3>1. p \in net
      BY <2>3, <1>0, <1>5
    <3> QED
      BY <2>3, <3>1, <1>0, <1>7, <1>8 DEF Matching
  <2>4. /\ Len(log'[q]) = sendId'[q]
        /\ Len(got'[q]) = recId'[q] /\ recId'[q] <= sendId'[e]
        /\ \A i \in DOMAIN sendBuf'[q] : i < sendId'[q] /\ sendBuf'[q][i].data = log'[q][i + 1]
    BY <1>0, <1>3, <1>5, <1>6, <1>7, <1>8 DEF Matching
  <2>5. \A i \in 1 .. recId'[q] : got'[q][i] = log'[e][i]
    <3>1. recId[q] <= sendId[e] /\ \A i \in 1 .. recId[q] : got[q][i] = log[e][i]
      BY <1>0 DEF Matching
    <3>2. \A i \in 1 .. recId[q] : i \in 1 .. sendId[e]
      BY <3>1, <1>7
    <3> QED
      BY <3>1, <3>2, <1>6, <1>8
  <2>6. ASSUME NEW i \in DOMAIN recBuf'[q]
        PROVE  recId'[q] <= i /\ i < sendId'[e] /\ recBuf'[q][i] = log'[e][i + 1]
    <3>1. /\ i \in Nat /\ recId[q] <= i /\ i < sendId[e] /\ recBuf[q][i] = log[e][i + 1]
      BY <1>0, <1>6 DEF TypeOK, Matching
    <3>2. i + 1 \in 1 .. sendId[e]
      BY <3>1, <1>7
    <3>3. log'[e][i + 1] = log[e][i + 1]
      BY <3>2, <1>8
    <3>4. i < sendId'[e]
      BY <3>1, <1>3, <1>7
    <3> QED
      BY <3>1, <3>3, <3>4, <1>6
  <2>7. ASSUME NEW p \in net', p.to = q, p.op = "CONTROL"
        PROVE  p.id < sendId'[e] /\ p.data = log'[e][p.id + 1]
    <3>1. CASE p \in net
      <4>1. p.id \in Nat /\ p.id < sendId[e] /\ p.data = log[e][p.id + 1]
        BY <2>7, <3>1, <1>0, PacketFacts DEF Matching
      <4>2. p.id + 1 \in 1 .. sendId[e]
        BY <4>1, <1>7
      <4>3. log'[e][p.id + 1] = log[e][p.id + 1]
        BY <4>2, <1>8
      <4>4. p.id < sendId'[e]
        BY <4>1, <1>3, <1>7
      <4> QED
        BY <4>1, <4>3, <4>4
    <3>2. CASE p \notin net
      BY <2>7, <3>2, <1>4, <1>5, <1>7, <1>8
    <3> QED
      BY <3>1, <3>2
  <2>8. ASSUME NEW o \in Ends
        PROVE  /\ Len(log'[o]) = sendId'[o]
               /\ Len(got'[o]) = recId'[o] /\ recId'[o] <= sendId'[Peer(o)]
               /\ \A i \in 1 .. recId'[o] : got'[o][i] = log'[Peer(o)][i]
               /\ \A i \in DOMAIN sendBuf'[o] : i < sendId'[o] /\ sendBuf'[o][i].data = log'[o][i + 1]
               /\ \A i \in DOMAIN recBuf'[o] :
                     recId'[o] <= i /\ i < sendId'[Peer(o)] /\ recBuf'[o][i] = log'[Peer(o)][i + 1]
               /\ \A p \in net' : p.to = o /\ p.op = "CONTROL" =>
                     p.id < sendId'[Peer(o)] /\ p.data = log'[Peer(o)][p.id + 1]
    <3>1. CASE o = e
      BY <3>1, <1>0, <2>1, <2>2, <2>3
    <3>2. CASE o = q
      BY <3>2, <1>0, <2>4, <2>5, <2>6, <2>7
    <3> QED
      BY <3>1, <3>2, <1>0
  <2> QED
    BY <2>8 DEF Matching
<1>13. NothingForgotten'
  <2>1. ASSUME NEW id \in 0 .. sendId'[e] - 1
        PROVE  id \in DOMAIN sendBuf'[e] \/ Received(q, id)'
    <3>1. id \in Nat /\ (id \in 0 .. sendId[e] - 1 \/ id \in sendId[e] .. sendId[e] + n - 1)
      BY <1>3, <1>7
    <3> QED
      BY <3>1, <1>0, <1>4, <1>5, <1>9 DEF NothingForgotten
  <2>2. ASSUME NEW id \in 0 .. sendId'[q] - 1
        PROVE  id \in DOMAIN sendBuf'[q] \/ Received(e, id)'
    BY <1>0, <1>5, <1>7, <1>10 DEF NothingForgotten
  <2> QED
    BY <2>1, <2>2, <1>0 DEF NothingForgotten
<1>14. AcksAreTrue'
  <2>1. ASSUME NEW i \in 1 .. Len(recAck'[e])
        PROVE  recAck'[e][i] < recId'[e] \/ recAck'[e][i] \in DOMAIN recBuf'[e]
    <3>1. PICK j \in 1 .. Len(recAck[e]) : recAck'[e][i] = recAck[e][j]
      BY <1>5
    <3>2. recAck[e][j] \in Nat /\ Received(e, recAck[e][j])
      BY DEF AcksAreTrue, TypeOK
    <3> QED
      BY <3>1, <3>2, <1>6 DEF r
  <2>2. \A id \in lruAcks'[e] : Received(e, id)'
    BY <1>5, <1>10
  <2>3. ASSUME NEW p \in net', p.to = q, NEW id \in p.acks
        PROVE  Received(e, id)'
    <3>1. id \in Nat /\ Received(e, id)
      <4>1. CASE p \in net
        BY <2>3, <4>1, <1>0, PacketFacts DEF AcksAreTrue
      <4>2. CASE p \notin net
        <5>1. p \in ControlPacket \cup AckPacket
          BY <4>2, <1>5
        <5> QED
          BY <4>2, <5>1, <1>5 DEF ControlPacket, AckPacket
      <4> QED
        BY <4>1, <4>2
    <3> QED
      BY <3>1, <1>10
  <2>4. /\ \A i \in 1 .. Len(recAck'[q]) :
              recAck'[q][i] < recId'[q] \/ recAck'[q][i] \in DOMAIN recBuf'[q]
        /\ \A id \in lruAcks'[q] : Received(q, id)'
    BY <1>0, <1>5, <1>6 DEF AcksAreTrue, Received
  <2>5. ASSUME NEW p \in net', p.to = e, NEW id \in p.acks
        PROVE  Received(q, id)'
    <3>1. p \in net
      BY <2>5, <1>0, <1>5
    <3>2. id \in Nat /\ Received(q, id)
      BY <2>5, <3>1, <1>0, PacketFacts DEF AcksAreTrue
    <3> QED
      BY <3>2, <1>9
  <2> QED
    BY <2>1, <2>2, <2>3, <2>4, <2>5, <1>0 DEF AcksAreTrue, Received
<1>15. FrontierHeld'
  <2>1. recId'[e] \notin lruAcks'[e]
    BY <1>5, <1>6 DEF r
  <2>2. ASSUME NEW p \in net', p.to = q PROVE recId'[e] \notin p.acks
    <3>1. CASE p \in net
      BY <2>2, <3>1, <1>0, <1>6 DEF AcksAreTrue, r
    <3>2. CASE p \notin net
      BY <3>2, <1>5, <1>6 DEF r
    <3> QED
      BY <3>1, <3>2
  <2>3. recId'[e] < sendId'[q] => recId'[e] \in DOMAIN sendBuf'[q]
    <3>1. ASSUME r < sendId[q] PROVE r \in DOMAIN sendBuf[q]
      <4>1. r \in 0 .. sendId[q] - 1
        BY <3>1, <1>7
      <4> QED
        BY <4>1, <1>0, <1>6 DEF NothingForgotten
    <3> QED
      BY <3>1, <1>5, <1>7 DEF r
  <2>4. ASSUME NEW i \in DOMAIN sendBuf'[e] PROVE sendId'[e] - i <= SendBufs
    <3>1. CASE i \in DOMAIN sendBuf[e]
      <4>1. sendId[e] + n - i <= SendBufs /\ i \in Nat
        BY <3>1, <1>3, <1>4
      <4>2. sendId'[e] = sendId[e] + n /\ sendId[e] \in Nat /\ n \in Nat
        BY <1>3, <1>7
      <4> QED
        BY <4>1, <4>2
    <3>2. CASE i \in sendId[e] .. sendId[e] + n - 1
      BY <3>2, <1>3, <1>7, SizesAssumption
    <3> QED
      BY <3>1, <3>2, <1>4, <1>5
  <2>5. recId'[q] \notin lruAcks'[q] /\ \A p \in net' : p.to = e => recId'[q] \notin p.acks
    BY <1>0, <1>5, <1>6 DEF FrontierHeld
  <2>6. recId'[q] < sendId'[e] => recId'[q] \in DOMAIN sendBuf'[e]
    <3>1. recId[q] <= sendId[e] /\ (recId[q] < sendId[e] => recId[q] \in DOMAIN sendBuf[e])
      BY <1>0 DEF Matching, FrontierHeld
    <3>2. recId[q] < sendId[e] + n => recId[q] < sendId[e] \/ recId[q] \in sendId[e] .. sendId[e] + n - 1
      BY <3>1, <1>3, <1>7
    <3> QED
      BY <3>1, <3>2, <1>4, <1>5, <1>6, <1>7
  <2>7. \A i \in DOMAIN sendBuf'[q] : sendId'[q] - i <= SendBufs
    BY <1>0, <1>5, <1>7 DEF FrontierHeld
  <2> QED
    BY <2>1, <2>2, <2>3, <2>4, <2>5, <2>6, <2>7, <1>0 DEF FrontierHeld
<1>16. HandshakeFirst'
  <2>1. /\ state'[e] # "S_INITIAL" /\ sendId'[e] # 0
        /\ state'[e] = "S_PRE_START" => sendId'[e] = 1
    <3>1. CASE state[e] = "S_INITIAL"
      <4>1. state'[e] = "S_PRE_START" /\ n = 1 /\ sendId[e] = 0
        BY <3>1, <1>2, <1>3 DEF TypeOK, HandshakeFirst, n
      <4> QED
        BY <4>1, <1>7
    <3>2. CASE state[e] # "S_INITIAL" /\ Started(e)
      <4>1. state'[e] = "S_START" /\ sendId[e] # 0
        BY <3>2, <1>2 DEF TypeOK, HandshakeFirst
      <4> QED
        BY <4>1, <1>3, <1>7
    <3>3. CASE state[e] # "S_INITIAL" /\ ~Started(e)
      <4>1. state'[e] = state[e] /\ n = 0 /\ sendId[e] # 0
        BY <3>3, <1>2, <1>3 DEF TypeOK, HandshakeFirst
      <4> QED
        BY <3>3, <4>1, <1>7 DEF HandshakeFirst
    <3> QED
      BY <3>1, <3>2, <3>3
  <2>2. log'[e][1] = Reset
    <3>1. CASE state[e] = "S_INITIAL"
      <4>1. sendId[e] = 0 /\ n = 1 /\ ps[1] = Reset
        BY <3>1, <1>3 DEF HandshakeFirst, n
      <4> QED
        BY <4>1, <1>8
    <3>2. CASE state[e] # "S_INITIAL"
      <4>1. sendId[e] > 0 /\ log[e][1] = Reset
        BY <3>2, <1>7 DEF HandshakeFirst
      <4>2. 1 \in 1 .. sendId[e]
        BY <4>1, <1>7
      <4> QED
        BY <4>1, <4>2, <1>8
    <3> QED
      BY <3>1, <3>2
  <2>3. state'[e] = "S_START" => linked[q]
    <3>1. CASE state[e] = "S_START"
      BY <3>1, <1>0 DEF HandshakeFirst
    <3>2. CASE state[e] = "S_PRE_START" /\ DOMAIN sendBuf[e] = {}
      <4>1. 0 \in 0 .. sendId[e] - 1
        BY <3>2 DEF HandshakeFirst
      <4>2. Received(q, 0)
        BY <3>2, <4>1, <1>0 DEF NothingForgotten
      <4> QED
        BY <4>2, <1>0 DEF Received, HandshakeFirst
    <3>3. state'[e] = "S_START" => state[e] = "S_START" \/ Started(e)
      BY <1>2 DEF TypeOK
    <3> QED
      BY <3>1, <3>2, <3>3 DEF Started
  <2>4. recId'[e] > 0 \/ DOMAIN recBuf'[e] # {} => linked[e]
    <3>1. recId'[e] > 0 => recId[e] > 0 \/ DOMAIN recBuf[e] # {}
      BY <1>6, <1>7 DEF r
    <3> QED
      BY <3>1, <1>6 DEF HandshakeFirst
  <2>5. /\ state'[q] = state[q] /\ linked' = linked /\ sendId'[q] = sendId[q] /\ log'[q] = log[q]
        /\ recId'[q] = recId[q] /\ recBuf'[q] = recBuf[q]
    BY <1>0, <1>2, <1>6, <1>7, <1>8 DEF TypeOK
  <2>6. /\ state'[q] = "S_INITIAL" <=> sendId'[q] = 0
        /\ sendId'[q] > 0 => log'[q][1] = Reset
        /\ state'[q] = "S_PRE_START" => sendId'[q] = 1
        /\ state'[q] = "S_START" => linked'[e]
        /\ recId'[q] > 0 \/ DOMAIN recBuf'[q] # {} => linked'[q]
    BY <2>5, <1>0 DEF HandshakeFirst
  <2> QED
    BY <2>1, <2>2, <2>3, <2>4, <2>5, <2>6, <1>0 DEF HandshakeFirst
<1> QED
  BY <1>11, <1>12, <1>13, <1>14, <1>15, <1>16

\* Every step keeps the invariant.
LEMMA StepInv == IInv /\ [Next]_vars => IInv'
<1> SUFFICES ASSUME IInv, [Next]_vars PROVE IInv'
  OBVIOUS
<1>0. faults \in 0 .. MaxFaults /\ MaxFaults \in Nat
  BY BoundsAssumption DEF IInv, TypeOK
<1>1. CASE UNCHANGED vars
  BY <1>0, <1>1, FewerPacketsInv DEF vars
<1>2. ASSUME NEW e \in Ends, Process(e) PROVE IInv'
  BY <1>2, ProcessInv
<1>3. ASSUME NEW e \in Ends, NEW p \in net, Receive(e, p) PROVE IInv'
  <2>1. p.to = e /\ net' \subseteq net /\ faults' \in 0 .. MaxFaults
    BY <1>0, <1>3 DEF Receive
  <2>2. CASE Handle(e, p)
    BY <2>1, <2>2, HandleInv
  <2>3. CASE Drop(e, p)
    BY <2>1, <2>3, FewerPacketsInv DEF Drop
  <2> QED
    BY <1>3, <2>2, <2>3 DEF Receive
<1>4. ASSUME NEW e \in Ends, NEW p \in net, ReceiveCopy(e, p) PROVE IInv'
  <2>1. p.to = e /\ net' \subseteq net /\ faults' \in 0 .. MaxFaults /\ Handle(e, p)
    BY <1>0, <1>4 DEF ReceiveCopy
  <2> QED
    BY <2>1, HandleInv
<1>5. ASSUME NEW e \in Ends, NEW id \in DOMAIN sendBuf[e], Expire(e, id) PROVE IInv'
  BY <1>5, ExpireInv
<1>6. ASSUME NEW p \in net, Lose(p) PROVE IInv'
  <2>1. /\ net' \subseteq net /\ faults' \in 0 .. MaxFaults
        /\ UNCHANGED <<state, linked, reliableVars, log, got>>
    BY <1>0, <1>6 DEF Lose
  <2> QED
    BY <2>1, FewerPacketsInv
<1> QED
  BY <1>1, <1>2, <1>3, <1>4, <1>5, <1>6 DEF Next

\* The invariant holds always, with or without fairness.
THEOREM Inductive == Spec => []IInv
BY InitInv, StepInv, PTL DEF Spec

\* Every variable keeps its type.
THEOREM TypeCorrect == Spec => []TypeOK
<1>1. IInv => TypeOK
  BY DEF IInv
<1> QED
  BY <1>1, Inductive, PTL

\* An entry leaves the send buffer (reliable_send_purge) only for a packet that the
\* peer has received.
THEOREM NoneForgotten == Spec => []NothingForgotten
<1>1. IInv => NothingForgotten
  BY DEF IInv
<1> QED
  BY <1>1, Inductive, PTL

\* reliable_wont_break_sequentiality never turns away a packet of a peer that follows
\* the protocol, and there is always a buffer for the packet TLS waits for.
THEOREM NoneClogged == Spec => []NeverClogged
<1>1. ASSUME IInv PROVE NeverClogged
  <2> SUFFICES ASSUME NEW e \in Ends
               PROVE  /\ \A p \in net : p.to = e /\ p.op = "CONTROL" => WontBreakSequentiality(e, p.id)
                      /\ recId[e] \notin DOMAIN recBuf[e] => CanGet(e)
    BY DEF NeverClogged
  <2> DEFINE s == sendId[Peer(e)]
  <2>1. /\ Peer(e) \in Ends /\ recId[e] \in Nat /\ s \in Nat /\ recId[e] <= s
        /\ SendBufs \in Nat /\ RecBufs \in Nat \ {0} /\ SendBufs <= RecBufs
    BY <1>1, PeerFacts, SizesAssumption DEF IInv, TypeOK, Matching
  <2>2. s <= recId[e] + RecBufs
    <3>1. CASE recId[e] = s
      BY <2>1, <3>1
    <3>2. CASE recId[e] < s
      <4>1. s - recId[e] <= SendBufs
        BY <1>1, <2>1, <3>2 DEF IInv, FrontierHeld
      <4> QED
        BY <2>1, <4>1
    <3> QED
      BY <2>1, <3>1, <3>2
  <2>3. ASSUME NEW p \in net, p.to = e, p.op = "CONTROL"
        PROVE  WontBreakSequentiality(e, p.id)
    <3>1. p.id \in Nat /\ p.id < s
      BY <1>1, <2>3, PacketFacts DEF IInv, Matching
    <3> QED
      BY <2>1, <2>2, <3>1 DEF WontBreakSequentiality
  <2>4. ASSUME recId[e] \notin DOMAIN recBuf[e] PROVE CanGet(e)
    <3>1. DOMAIN recBuf[e] \subseteq recId[e] + 1 .. s - 1
      <4> SUFFICES ASSUME NEW i \in DOMAIN recBuf[e] PROVE i \in recId[e] + 1 .. s - 1
        OBVIOUS
      <4>1. i \in Nat /\ recId[e] <= i /\ i < s /\ i # recId[e]
        BY <1>1, <2>4 DEF IInv, TypeOK, Matching
      <4> QED
        BY <2>1, <4>1
    <3>2. /\ IsFiniteSet(recId[e] + 1 .. s - 1)
          /\ Cardinality(recId[e] + 1 .. s - 1) = IF recId[e] + 1 > s - 1 THEN 0
                                                  ELSE s - 1 - (recId[e] + 1) + 1
      <4>1. recId[e] + 1 \in Int /\ s - 1 \in Int
        BY <2>1
      <4> QED
        BY <4>1, FS_Interval
    <3>3. Cardinality(recId[e] + 1 .. s - 1) < RecBufs
      BY <2>1, <2>2, <3>2
    <3>4. /\ Cardinality(DOMAIN recBuf[e]) <= Cardinality(recId[e] + 1 .. s - 1)
          /\ IsFiniteSet(DOMAIN recBuf[e])
      BY <3>1, <3>2, FS_Subset
    <3>5. Cardinality(DOMAIN recBuf[e]) \in Nat /\ Cardinality(recId[e] + 1 .. s - 1) \in Nat
      BY <3>2, <3>4, FS_CardinalityType
    <3> QED
      BY <2>1, <3>3, <3>4, <3>5 DEF CanGet
  <2> QED
    BY <2>3, <2>4
<1> QED
  BY <1>1, Inductive, PTL

\* An end that has not heard its peer's reset, and so cannot route its packets, is
\* never sent a packet of TLS (tls_process_state, tls_pre_decrypt).
THEOREM NoneUnroutable == Spec => []NothingUnroutable
<1>1. ASSUME IInv PROVE NothingUnroutable
  <2> SUFFICES ASSUME NEW p \in net, p.op = "CONTROL", p.data # Reset
               PROVE  linked[p.to]
    BY DEF NothingUnroutable, Opens
  <2> DEFINE q == Peer(p.to)
  <2>1. p.to \in Ends /\ q \in Ends /\ Peer(q) = p.to /\ p.id \in Nat
    BY <1>1, PacketFacts, PeerFacts DEF IInv
  <2>2. /\ p.id < sendId[q] /\ p.data = log[q][p.id + 1] /\ sendId[q] \in Nat
    BY <1>1, <2>1 DEF IInv, Matching, TypeOK
  <2>3. p.id # 0
    <3>1. sendId[q] > 0 => log[q][1] = Reset
      BY <1>1, <2>1 DEF IInv, HandshakeFirst
    <3> QED
      BY <2>1, <2>2, <3>1
  <2>4. sendId[q] # 0 /\ sendId[q] # 1
    BY <2>1, <2>2, <2>3
  <2>5. state[q] = "S_START"
    BY <1>1, <2>1, <2>4 DEF IInv, TypeOK, HandshakeFirst
  <2> QED
    BY <1>1, <2>1, <2>5 DEF IInv, HandshakeFirst
<1> QED
  BY <1>1, Inductive, PTL

\* A turn of tls_process is a step of the abstract channel.
LEMMA ProcessRefines ==
    ASSUME IInv, NEW e \in Ends, Process(e)
    PROVE  Channel!Write(e) /\ Channel!Read(e)
<1> USE DEF IInv
<1> DEFINE q == Peer(e)
<1>0. q \in Ends /\ q # e
  BY PeerFacts
<1>1. PICK ps \in Outgoing(e) : log' = [log EXCEPT ![e] = @ \o ps]
  BY DEF Process
<1>2. /\ log[e] \in Seq(Payload) /\ ps \in Seq(Payload) /\ log[q] \in Seq(Payload)
      /\ log \in [Ends -> Seq(Payload)]
      /\ got[e] \in Seq(Payload) /\ Len(got[e]) = recId[e] /\ Len(log[q]) = sendId[q]
      /\ recId[e] \in Nat /\ sendId[q] \in Nat
  BY <1>0, OutgoingFacts DEF TypeOK, Matching
<1>3. Channel!Write(e)
  <2>1. log'[e] = log[e] \o ps /\ \A o \in Ends \ {e} : log'[o] = log[o]
    BY <1>1, <1>2
  <2>2. /\ log[e] \o ps \in Seq(Payload) /\ Len(log[e] \o ps) = Len(log[e]) + Len(ps)
        /\ \A i \in 1 .. Len(log[e]) : (log[e] \o ps)[i] = log[e][i]
    BY <1>2, ConcatFacts
  <2>3. Len(log[e] \o ps) >= Len(log[e])
    <3>1. Len(log[e]) \in Nat /\ Len(ps) \in Nat
      BY <1>2
    <3> QED
      BY <2>2, <3>1
  <2>4. SubSeq(log[e] \o ps, 1, Len(log[e])) = log[e]
    BY <1>2, <2>2, <2>3, InitialPart
  <2> QED
    BY <2>1, <2>3, <2>4 DEF Channel!Write
<1>4. Channel!Read(e)
  <2>1. /\ got' \in [Ends -> Seq(Payload)] /\ \A o \in Ends \ {e} : got'[o] = got[o]
        /\ Len(got'[e]) = recId'[e] /\ recId[e] <= recId'[e] /\ recId'[e] <= sendId[q]
        /\ recId'[e] \in Nat
        /\ \A i \in 1 .. recId'[e] : got'[e][i] = log[q][i]
    BY <1>0, PeerFacts, DeliverFacts DEF Process
  <2>2. got'[e] \in Seq(Payload)
    BY <2>1
  <2>3. Len(got'[e]) \in Len(got[e]) .. Len(log[q])
    BY <1>2, <2>1
  <2>4. /\ Len(log[q]) >= Len(got'[e])
        /\ \A i \in 1 .. Len(got'[e]) : log[q][i] = got'[e][i]
    BY <1>2, <2>1
  <2>5. got'[e] = SubSeq(log[q], 1, Len(got'[e]))
    BY <1>2, <2>2, <2>4, InitialPart
  <2> QED
    BY <2>1, <2>3, <2>5 DEF Channel!Read
<1> QED
  BY <1>3, <1>4

\* The reliability layer implements the abstract channel: whatever the network does,
\* TLS reads, in order and once each, the packets its peer's TLS has written.
THEOREM Implements == Spec => KeepsPromise
<1>1. Init => Channel!Init
  BY DEF Init, Channel!Init
<1>2. IInv /\ [Next]_vars => [Channel!Next]_<<log, got>>
  <2> SUFFICES ASSUME IInv, [Next]_vars, ~UNCHANGED <<log, got>>
               PROVE  Channel!Next
    OBVIOUS
  <2>1. ASSUME NEW e \in Ends, Process(e) PROVE Channel!Next
    BY <2>1, ProcessRefines DEF Channel!Next
  <2>2. ASSUME NEW e \in Ends, NEW p \in net, Receive(e, p) \/ ReceiveCopy(e, p)
        PROVE  UNCHANGED <<log, got>>
    BY <2>2 DEF Receive, ReceiveCopy, Handle, Drop
  <2>3. ASSUME NEW e \in Ends, NEW id \in DOMAIN sendBuf[e], Expire(e, id)
        PROVE  UNCHANGED <<log, got>>
    BY <2>3 DEF Expire
  <2>4. ASSUME NEW p \in net, Lose(p) PROVE UNCHANGED <<log, got>>
    BY <2>4 DEF Lose
  <2> QED
    BY <2>1, <2>2, <2>3, <2>4 DEF Next, vars
<1> QED
  BY <1>1, <1>2, Inductive, PTL DEF Spec, KeepsPromise, Channel!Spec, Channel!vars
=============================================================================
