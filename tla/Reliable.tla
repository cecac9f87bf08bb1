----------------------------- MODULE Reliable -----------------------------
(***************************************************************************)
(* The reliability layer of OpenVPN's control channel (reliable.c) as its  *)
(* callers in ssl.c use it: tls_pre_decrypt on what the socket brings and  *)
(* tls_process on every turn of the event loop.  Both ends run the same    *)
(* code; the client is the one that speaks first.                          *)
(*                                                                         *)
(* The network loses, duplicates and reorders packets.  An id is a natural *)
(* number: the 2^32nd packet of a key's control channel, where ids would   *)
(* wrap, is out of the model.  Time is abstracted to entry.due, "now has   *)
(* reached next_try".                                                      *)
(***************************************************************************)
EXTENDS Integers, Sequences, FiniteSets

CONSTANTS Client, Server,
          Data,              \* packets of TLS ciphertext
          Reset,             \* the payload of the first packet, the reset
          Ciphertext(_, _),  \* what TLS puts in an end's packet with some id
          SendBufs,          \* TLS_RELIABLE_N_SEND_BUFFERS
          RecBufs,           \* TLS_RELIABLE_N_REC_BUFFERS
          AckSize,           \* RELIABLE_ACK_SIZE
          SendAckMax,        \* CONTROL_SEND_ACK_MAX
          NAckRetransmit,    \* N_ACK_RETRANSMIT
          MaxPackets,        \* bound: packets an end writes, its reset included
          MaxFaults,         \* bound: packets the network loses or doubles
          MaxFlying          \* bound: packets under way when a timer may fire

Ends == {Client, Server}
Peer(e) == IF e = Client THEN Server ELSE Client

ASSUME EndsAssumption == Client # Server
ASSUME SizesAssumption ==
    /\ SendBufs \in Nat \ {0}
    /\ RecBufs \in Nat \ {0}
    /\ SendBufs <= RecBufs
    /\ SendAckMax \in Nat \ {0}
    /\ AckSize \in Nat
    /\ SendAckMax <= AckSize
    /\ NAckRetransmit \in Nat \ {0}
ASSUME BoundsAssumption ==
    /\ MaxPackets \in [Ends -> Nat \ {0}]
    /\ MaxFaults \in Nat
    /\ MaxFlying \in Nat
ASSUME DataAssumption ==
    /\ Reset \notin Data
    /\ \A e \in Ends : \A id \in 1 .. MaxPackets[e] - 1 : Ciphertext(e, id) \in Data

VARIABLES
    state,     \* ks->state: everything from S_START on is "S_START"
    linked,    \* the peer's session id is known
    sendId,    \* send_reliable->packet_id, the next id to give away
    sendBuf,   \* send_reliable's active entries, by id
    recId,     \* rec_reliable->packet_id, the next id to hand to TLS
    recBuf,    \* rec_reliable's active entries, by id: their payload
    recAck,    \* rec_ack: ids to acknowledge, in order
    lruAcks,   \* lru_acks: ids acknowledged last
    net,       \* packets under way
    faults,    \* packets the network has lost or doubled
    log,       \* (history) the payloads an end has numbered, in order
    got        \* (history) the payloads an end has handed to TLS, in order

reliableVars == <<sendId, sendBuf, recId, recBuf, recAck, lruAcks>>
vars == <<state, linked, reliableVars, net, faults, log, got>>

Payload == Data \cup {Reset}
Entry == [data : Payload, due : BOOLEAN, nAcks : Nat]
ControlPacket == [to : Ends, op : {"CONTROL"}, id : Nat, data : Payload, acks : SUBSET Nat]
AckPacket == [to : Ends, op : {"ACK"}, acks : SUBSET Nat]

Lesser(a, b) == IF a < b THEN a ELSE b

-----------------------------------------------------------------------------
(* key_state_init: both windows are empty and start at id 0. *)
Init ==
    /\ state = [e \in Ends |-> "S_INITIAL"]
    /\ linked = [e \in Ends |-> FALSE]
    /\ sendId = [e \in Ends |-> 0]
    /\ sendBuf = [e \in Ends |-> <<>>]
    /\ recId = [e \in Ends |-> 0]
    /\ recBuf = [e \in Ends |-> <<>>]
    /\ recAck = [e \in Ends |-> <<>>]
    /\ lruAcks = [e \in Ends |-> {}]
    /\ net = {}
    /\ faults = 0
    /\ log = [e \in Ends |-> <<>>]
    /\ got = [e \in Ends |-> <<>>]

-----------------------------------------------------------------------------
(* Receiving: tls_pre_decrypt *)

(* reliable_schedule_now, the burst at the peer's first reset: every entry *)
(* is sent again at once.                                                  *)
ScheduleNow(buf) == [i \in DOMAIN buf |-> [buf[i] EXCEPT !.due = TRUE]]

\* A mutant is a definition with a plausible bug; it stands before the definition
\* it takes the place of.  Mutant: acknowledgements are cumulative.
SendPurgeUpTo(buf, acks) ==
    [i \in {j \in DOMAIN buf : \A a \in acks : j > a} |-> buf[i]]

(* reliable_send_purge: an acknowledged entry is free, and one that ids    *)
(* beyond it overtook counts them (up to the number that matters).         *)
SendPurge(buf, acks) ==
    [i \in DOMAIN buf \ acks |->
        [buf[i] EXCEPT !.nAcks =
            Lesser(NAckRetransmit, @ + Cardinality({a \in acks : i < a}))]]

(* reliable_can_get, reliable_wont_break_sequentiality, reliable_not_replay *)
CanGet(e) == Cardinality(DOMAIN recBuf[e]) < RecBufs
WontBreakSequentiality(e, id) == id < recId[e] + RecBufs
NotReplay(e, id) == id >= recId[e] /\ id \notin DOMAIN recBuf[e]

\* Mutant: packets are kept in the order of their arrival.
MarkActiveAsNext(e, id, data) ==
    recBuf' = [recBuf EXCEPT ![e] =
        [i \in DOMAIN @ \cup {recId[e]} |-> IF i = recId[e] THEN data ELSE @[i]]]

(* reliable_get_buf and reliable_mark_active_incoming *)
MarkActiveIncoming(e, id, data) ==
    recBuf' = [recBuf EXCEPT ![e] =
        [i \in DOMAIN @ \cup {id} |-> IF i = id THEN data ELSE @[i]]]

(* reliable_ack_acknowledge_packet_id: not twice, and not into a full list *)
AcknowledgePacketId(e, id) ==
    recAck' = IF Len(recAck[e]) < AckSize /\ \A i \in 1 .. Len(recAck[e]) : recAck[e][i] # id
              THEN [recAck EXCEPT ![e] = Append(@, id)]
              ELSE recAck

\* Mutant: a replay is dropped without an acknowledgement.
AcceptNewOnly(e, p) ==
    IF p.op = "CONTROL" /\ CanGet(e) /\ WontBreakSequentiality(e, p.id) /\ NotReplay(e, p.id)
    THEN MarkActiveIncoming(e, p.id, p.data) /\ AcknowledgePacketId(e, p.id)
    ELSE UNCHANGED <<recBuf, recAck>>

(* The part of tls_pre_decrypt behind the acknowledgements: a packet that  *)
(* finds no buffer or lies beyond the window is dropped without an         *)
(* acknowledgement, a replay is acknowledged again.                        *)
Accept(e, p) ==
    IF p.op = "CONTROL" /\ CanGet(e) /\ WontBreakSequentiality(e, p.id)
    THEN /\ IF NotReplay(e, p.id) THEN MarkActiveIncoming(e, p.id, p.data)
                                  ELSE UNCHANGED recBuf
         /\ AcknowledgePacketId(e, p.id)
    ELSE UNCHANGED <<recBuf, recAck>>

(* The peer's reset opens the session; before it, every other packet is    *)
(* unroutable.                                                             *)
Opens(p) == p.op = "CONTROL" /\ p.data = Reset

Handle(e, p) ==
    /\ linked[e] \/ Opens(p)
    /\ linked' = [linked EXCEPT ![e] = TRUE]
    /\ sendBuf' = [sendBuf EXCEPT ![e] =
                      SendPurge(IF linked[e] THEN @ ELSE ScheduleNow(@), p.acks)]
    /\ Accept(e, p)
    /\ UNCHANGED <<state, sendId, recId, lruAcks, log, got>>

Drop(e, p) ==
    /\ ~linked[e] /\ ~Opens(p)
    /\ UNCHANGED <<state, linked, reliableVars, log, got>>

(* The packet leaves the network as it is received. *)
Receive(e, p) ==
    /\ p \in net /\ p.to = e
    /\ net' = net \ {p}
    /\ Handle(e, p) \/ Drop(e, p)
    /\ UNCHANGED faults

(* The network doubles a packet: it is received and still under way. *)
ReceiveCopy(e, p) ==
    /\ p \in net /\ p.to = e
    /\ faults < MaxFaults
    /\ faults' = faults + 1
    /\ Handle(e, p)
    /\ UNCHANGED net

Lose(p) ==
    /\ p \in net
    /\ faults < MaxFaults
    /\ faults' = faults + 1
    /\ net' = net \ {p}
    /\ UNCHANGED <<state, linked, reliableVars, log, got>>

-----------------------------------------------------------------------------
(* Sending: tls_process, from the first pass of its loop to the last *)

(* The client knows its peer's address, the server learns it with a reset. *)
CanRun(e) == e = Client \/ linked[e]

\* Mutant: an end speaks as soon as it has sent its reset.
StartedAtOnce(e) == state[e] # "S_INITIAL"

(* S_START: the end's own reset has been acknowledged. *)
Started(e) == \/ state[e] = "S_START"
              \/ state[e] = "S_PRE_START" /\ DOMAIN sendBuf[e] = {}

\* Mutant: one id too many.
RoomForOneMore(e, n) ==
    n <= SendBufs /\ \A i \in DOMAIN sendBuf[e] : sendId[e] + n - i <= SendBufs + 1

(* reliable_get_buf_output_sequenced: n more ids stay within SendBufs of   *)
(* the oldest one that is not acknowledged.                                *)
Room(e, n) == n <= SendBufs /\ \A i \in DOMAIN sendBuf[e] : sendId[e] + n - i <= SendBufs

(* What the turn adds to the send buffer: the reset (session_move_pre_start), *)
(* or as many packets of TLS ciphertext as TLS has and the window admits.     *)
Outgoing(e) ==
    IF state[e] = "S_INITIAL" THEN {<<Reset>>}
    ELSE IF Started(e)
         THEN {[i \in 1 .. n |-> Ciphertext(e, sendId[e] + i - 1)] :
                  n \in {m \in 0 .. SendBufs : Room(e, m) /\ sendId[e] + m <= MaxPackets[e]}}
         ELSE {<<>>}

(* reliable_mark_active_outgoing: the next ids, due at once *)
MarkActiveOutgoing(e, ps) ==
    [i \in DOMAIN sendBuf[e] \cup (sendId[e] .. sendId[e] + Len(ps) - 1) |->
        IF i \in DOMAIN sendBuf[e]
        THEN sendBuf[e][i]
        ELSE [data |-> ps[i - sendId[e] + 1], due |-> TRUE, nAcks |-> 0]]

(* reliable_can_send, and the entry reliable_send picks *)
Due(buf) == {i \in DOMAIN buf : buf[i].due \/ buf[i].nAcks >= NAckRetransmit}
Best(buf, id) == id \in Due(buf) /\ \A i \in Due(buf) : id <= i
Sent(buf, id) == [buf EXCEPT ![id].due = FALSE, ![id].nAcks = 0]

\* Mutant: lru_acks forgets nothing.
AckWriteForgetsNothing(e, max, acks) ==
    LET n == Lesser(Len(recAck[e]), max)
    IN /\ acks = {recAck[e][i] : i \in 1 .. n}
       /\ lruAcks' = [lruAcks EXCEPT ![e] = @ \cup acks]
       /\ recAck' = [recAck EXCEPT ![e] = SubSeq(@, n + 1, Len(@))]

(* reliable_ack_write: the oldest pending ids leave rec_ack for lru_acks,  *)
(* which forgets others when it is full; the packet takes them and as many *)
(* of the rest as fit.  (Which ones lru_acks forgets or repeats first is   *)
(* left open: the code goes by their age.)                                 *)
AckWrite(e, max, acks) ==
    LET n == Lesser(Len(recAck[e]), max)
        fresh == {recAck[e][i] : i \in 1 .. n}
        known == lruAcks[e] \cup fresh
        kept == Lesser(AckSize, Cardinality(known))
    IN /\ fresh \subseteq acks
       /\ Cardinality(acks) = Lesser(max, kept)
       /\ \E lru \in SUBSET known :
             /\ acks \subseteq lru /\ Cardinality(lru) = kept
             /\ lruAcks' = [lruAcks EXCEPT ![e] = lru]
       /\ recAck' = [recAck EXCEPT ![e] = SubSeq(@, n + 1, Len(@))]

\* Mutant: only one entry is taken to TLS per turn.
DeliverOne(e) ==
    \E r \in recId[e] .. recId[e] + 1 :
       /\ r = recId[e] + 1 <=> recId[e] \in DOMAIN recBuf[e]
       /\ recId' = [recId EXCEPT ![e] = r]
       /\ recBuf' = [recBuf EXCEPT ![e] = [i \in {j \in DOMAIN @ : j >= r} |-> @[i]]]
       /\ got' = [got EXCEPT ![e] = @ \o [i \in 1 .. r - recId[e] |-> recBuf[e][recId[e] + i - 1]]]

(* Each pass of tls_process_state takes the entry in sequence, if there is *)
(* one, to TLS (reliable_get_entry_sequenced, reliable_mark_deleted); the  *)
(* passes end when there is none.                                          *)
DeliverInSequence(e) ==
    \E r \in recId[e] .. recId[e] + RecBufs :
       /\ recId[e] .. r - 1 \subseteq DOMAIN recBuf[e]
       /\ r \notin DOMAIN recBuf[e]
       /\ recId' = [recId EXCEPT ![e] = r]
       /\ recBuf' = [recBuf EXCEPT ![e] = [i \in {j \in DOMAIN @ : j >= r} |-> @[i]]]
       /\ got' = [got EXCEPT ![e] = @ \o [i \in 1 .. r - recId[e] |-> recBuf[e][recId[e] + i - 1]]]

(* One due entry is sent per turn, with acknowledgements. *)
Transmit(e, buf) ==
    \E id \in Due(buf), acks \in SUBSET (lruAcks[e] \cup {recAck[e][i] : i \in 1 .. Len(recAck[e])}) :
       /\ Best(buf, id)
       /\ AckWrite(e, SendAckMax, acks)
       /\ net' = net \cup {[to |-> Peer(e), op |-> "CONTROL", id |-> id,
                            data |-> buf[id].data, acks |-> acks]}
       /\ sendBuf' = [sendBuf EXCEPT ![e] = Sent(buf, id)]

(* A turn with nothing due sends a dedicated acknowledgement if one waits. *)
Acknowledge(e, buf) ==
    /\ Due(buf) = {}
    /\ sendBuf' = [sendBuf EXCEPT ![e] = buf]
    /\ IF recAck[e] # <<>>
       THEN \E acks \in SUBSET (lruAcks[e] \cup {recAck[e][i] : i \in 1 .. Len(recAck[e])}) :
              /\ AckWrite(e, AckSize, acks)
              /\ net' = net \cup {[to |-> Peer(e), op |-> "ACK", acks |-> acks]}
       ELSE UNCHANGED <<recAck, lruAcks, net>>

Process(e) ==
    /\ CanRun(e)
    /\ \E ps \in Outgoing(e) :
          LET buf == MarkActiveOutgoing(e, ps)
          IN /\ sendId' = [sendId EXCEPT ![e] = @ + Len(ps)]
             /\ log' = [log EXCEPT ![e] = @ \o ps]
             /\ Transmit(e, buf) \/ Acknowledge(e, buf)
    /\ state' = [state EXCEPT ![e] =
                    IF @ = "S_INITIAL" THEN "S_PRE_START" ELSE IF Started(e) THEN "S_START" ELSE @]
    /\ DeliverInSequence(e)
    /\ UNCHANGED <<linked, faults>>

(* now reaches an entry's next_try *)
Expire(e, id) ==
    /\ id \in DOMAIN sendBuf[e] /\ ~sendBuf[e][id].due
    /\ Cardinality(net) < MaxFlying
    /\ sendBuf' = [sendBuf EXCEPT ![e][id].due = TRUE]
    /\ UNCHANGED <<state, linked, sendId, recId, recBuf, recAck, lruAcks, net, faults, log, got>>

-----------------------------------------------------------------------------
Next ==
    \/ \E e \in Ends : \/ Process(e)
                       \/ \E p \in net : Receive(e, p) \/ ReceiveCopy(e, p)
                       \/ \E id \in DOMAIN sendBuf[e] : Expire(e, id)
    \/ \E p \in net : Lose(p)

Spec == Init /\ [][Next]_vars

(* A packet that is not lost arrives, a timer fires, the event loop turns. *)
(* (Strong fairness of the timer makes up for MaxFlying in its guard.)     *)
Fairness ==
    /\ \A e \in Ends :
          /\ WF_vars(Process(e))
          /\ WF_vars(\E p \in net : p.op = "ACK" /\ Receive(e, p))
          /\ \A id \in 0 .. MaxPackets[Peer(e)] - 1 :
                WF_vars(\E p \in net : p.op = "CONTROL" /\ p.id = id /\ Receive(e, p))
          /\ SF_vars(\E id \in DOMAIN sendBuf[e] :
                        (\A i \in DOMAIN sendBuf[e] : id <= i) /\ Expire(e, id))

FairSpec == Spec /\ Fairness

-----------------------------------------------------------------------------
TypeOK ==
    /\ state \in [Ends -> {"S_INITIAL", "S_PRE_START", "S_START"}]
    /\ linked \in [Ends -> BOOLEAN]
    /\ sendId \in [Ends -> Nat]
    /\ recId \in [Ends -> Nat]
    /\ DOMAIN sendBuf = Ends /\ DOMAIN recBuf = Ends
    /\ DOMAIN recAck = Ends /\ DOMAIN lruAcks = Ends
    /\ \A e \in Ends :
          /\ DOMAIN sendBuf[e] \subseteq Nat
          /\ \A i \in DOMAIN sendBuf[e] : sendBuf[e][i] \in Entry
          /\ DOMAIN recBuf[e] \subseteq Nat
          /\ \A i \in DOMAIN recBuf[e] : recBuf[e][i] \in Payload
          /\ recAck[e] \in Seq(Nat) /\ Len(recAck[e]) <= AckSize
          /\ lruAcks[e] \in SUBSET Nat /\ Cardinality(lruAcks[e]) <= AckSize
    /\ net \subseteq ControlPacket \cup AckPacket
    /\ faults \in 0 .. MaxFaults
    /\ log \in [Ends -> Seq(Payload)]
    /\ got \in [Ends -> Seq(Payload)]

(* Has e received its peer's packet number id? *)
Received(e, id) == id < recId[e] \/ id \in DOMAIN recBuf[e]

(* An entry leaves the send buffer only for a packet that the peer has:     *)
(* no acknowledgement, repeated, reordered or doubled, frees another one.   *)
NothingForgotten ==
    \A e \in Ends : \A id \in 0 .. sendId[e] - 1 :
        id \in DOMAIN sendBuf[e] \/ Received(Peer(e), id)

(* The two windows fit: no packet under way is beyond the receive window,   *)
(* and an end that waits for the next id always has a buffer for it.        *)
NeverClogged ==
    \A e \in Ends :
        /\ \A p \in net : p.to = e /\ p.op = "CONTROL" => WontBreakSequentiality(e, p.id)
        /\ recId[e] \notin DOMAIN recBuf[e] => CanGet(e)

(* TLS packets never meet an end that cannot route them: an end sends them  *)
(* only once its reset is acknowledged, and so has opened the peer.         *)
NothingUnroutable ==
    \A p \in net : p.op = "CONTROL" /\ ~Opens(p) => linked[p.to]

(* The channel is FIFO in both directions. *)
Channel == INSTANCE ControlChannel WITH written <- log, delivered <- got
KeepsPromise == Channel!Spec

(* With finitely many faults, everything written is delivered and its       *)
(* acknowledgement comes back: again and again, nothing is outstanding.     *)
Drains == \A e \in Ends : []<>(DOMAIN sendBuf[e] = {} /\ got[Peer(e)] = log[e])

-----------------------------------------------------------------------------
(* Why they hold.  Each conjunct below is kept by every step, given the others. *)

(* Ids, payloads and streams agree: an entry or a packet with some id       *)
(* carries what was written under that id, and TLS has read just the ids    *)
(* before recId.                                                            *)
Matching ==
    \A e \in Ends :
        /\ Len(log[e]) = sendId[e]
        /\ Len(got[e]) = recId[e] /\ recId[e] <= sendId[Peer(e)]
        /\ \A i \in 1 .. recId[e] : got[e][i] = log[Peer(e)][i]
        /\ \A i \in DOMAIN sendBuf[e] : i < sendId[e] /\ sendBuf[e][i].data = log[e][i + 1]
        /\ \A i \in DOMAIN recBuf[e] :
              recId[e] <= i /\ i < sendId[Peer(e)] /\ recBuf[e][i] = log[Peer(e)][i + 1]
        /\ \A p \in net : p.to = e /\ p.op = "CONTROL" =>
              p.id < sendId[Peer(e)] /\ p.data = log[Peer(e)][p.id + 1]

(* Every id an end acknowledges, has acknowledged or will acknowledge is    *)
(* one that it has received ...                                             *)
AcksAreTrue ==
    \A e \in Ends :
        /\ \A i \in 1 .. Len(recAck[e]) : Received(e, recAck[e][i])
        /\ \A id \in lruAcks[e] : Received(e, id)
        /\ \A p \in net : p.to = Peer(e) => \A id \in p.acks : Received(e, id)

(* ... and the id it waits for is in no acknowledgement that has left it,   *)
(* because a turn takes all that is in sequence to TLS: so the peer still   *)
(* has it, if it has given it away, and its window starts there.            *)
FrontierHeld ==
    \A e \in Ends :
        /\ recId[e] \notin lruAcks[e]
        /\ \A p \in net : p.to = Peer(e) => recId[e] \notin p.acks
        /\ recId[e] < sendId[Peer(e)] => recId[e] \in DOMAIN sendBuf[Peer(e)]
        /\ \A i \in DOMAIN sendBuf[e] : sendId[e] - i <= SendBufs

(* An end has given away no id but its reset's until the reset is received, *)
(* and only an end that is linked has received anything.                    *)
HandshakeFirst ==
    \A e \in Ends :
        /\ state[e] = "S_INITIAL" <=> sendId[e] = 0
        /\ sendId[e] > 0 => log[e][1] = Reset
        /\ state[e] = "S_PRE_START" => sendId[e] = 1
        /\ state[e] = "S_START" => linked[Peer(e)]
        /\ recId[e] > 0 \/ DOMAIN recBuf[e] # {} => linked[e]

(* The inductive invariant. *)
IInv ==
    /\ TypeOK
    /\ Matching
    /\ NothingForgotten
    /\ AcksAreTrue
    /\ FrontierHeld
    /\ HandshakeFirst
=============================================================================
