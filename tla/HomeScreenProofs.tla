------------------------- MODULE HomeScreenProofs ---------------------------
(* Theorems about HomeScreen, whatever its bounds.                          *)
EXTENDS HomeScreen, TLAPS

Words == Statuses \cup {"lost"}

-----------------------------------------------------------------------------
(* Queues of words.                                                        *)

\* A word that is appended is the last.
LEMMA AppendFacts ==
    ASSUME NEW S, NEW q \in Seq(S), NEW w \in S
    PROVE  /\ Append(q, w) \in Seq(S) /\ Append(q, w) # <<>>
           /\ Append(q, w)[Len(Append(q, w))] = w
OBVIOUS

\* A word that is taken leaves the last one where it is, unless it is that.
LEMMA TakeFacts ==
    ASSUME NEW S, NEW q \in Seq(S), q # <<>>
    PROVE  /\ Head(q) \in S /\ Tail(q) \in Seq(S)
           /\ Tail(q) = <<>> => q[Len(q)] = Head(q)
           /\ Tail(q) # <<>> => q[Len(q)] = Tail(q)[Len(Tail(q))]
<1>1. Head(q) \in S /\ Tail(q) \in Seq(S) /\ Len(q) \in Nat /\ Len(q) > 0
  OBVIOUS
<1>2. Len(Tail(q)) = Len(q) - 1 /\ Head(q) = q[1]
  OBVIOUS
<1>3. \A i \in 1 .. Len(q) - 1 : Tail(q)[i] = q[i + 1]
  OBVIOUS
<1>4. Tail(q) = <<>> => Len(q) = 1
  <2>1. Len(<<>>) = 0
    OBVIOUS
  <2>2. Tail(q) = <<>> => Len(q) - 1 = 0
    BY <1>2, <2>1
  <2> QED
    BY <1>1, <2>2
<1>5. Tail(q) # <<>> => Len(Tail(q)) > 0
  BY <1>1
<1>6. Tail(q) # <<>> => Tail(q)[Len(Tail(q))] = q[Len(q)]
  BY <1>1, <1>2, <1>3, <1>5
<1> QED
  BY <1>1, <1>2, <1>4, <1>6

LEMMA PrefixFacts ==
    ASSUME NEW S, NEW q \in Seq(S), NEW n \in 0 .. Len(q)
    PROVE  SubSeq(q, 1, n) \in Seq(S)
OBVIOUS

\* What an announcement leaves on its way.
LEMMA AnnounceFacts ==
    ASSUME TypeOK, NEW s \in States, Announce(s)
    PROVE  /\ ssInbox' \in Seq(SsWords)
           /\ s \in SsWords /\ bound # "unbound"
                  => ssInbox' # <<>> /\ ssInbox'[Len(ssInbox')] = s
           /\ ~(s \in SsWords /\ bound # "unbound") => ssInbox' = ssInbox
<1>1. ssInbox \in Seq(SsWords)
  BY DEF TypeOK, QueuesTyped
<1>2. CASE s \in SsWords /\ bound # "unbound"
  BY <1>1, <1>2, AppendFacts DEF Announce
<1>3. CASE ~(s \in SsWords /\ bound # "unbound")
  BY <1>1, <1>3 DEF Announce
<1> QED
  BY <1>2, <1>3

-----------------------------------------------------------------------------
(* The step, one conjunct of the invariant after the other.                *)

\* Names stay names.
LEMMA StepNamesTyped ==
    ASSUME TypeOK, [Next]_vars
    PROVE  NamesTyped'
<1> USE DEF Statuses, States, Follows, SsWords, Words,
           globals, activity, words, bindings, bg, openvpn, history, bounds
<1>1. CASE StartCountdown
  BY <1>1 DEF StartCountdown, Gesture, TypeOK, NamesTyped
<1>2. CASE CallOff
  BY <1>2 DEF CallOff, Gesture, isDisConnecting, TypeOK, NamesTyped
<1>3. CASE Leave
  BY <1>3 DEF Leave, Gesture, isConnecting, Disconnect, TypeOK, NamesTyped
<1>4. CASE Recreate
  BY <1>4 DEF Recreate, Gesture, TypeOK, NamesTyped
<1>5. CASE Exit
  BY <1>5 DEF Exit, Gesture, AppDies, TypeOK, NamesTyped
<1>6. CASE CalledOff
  BY <1>6 DEF CalledOff, CountdownEnds, TypeOK, NamesTyped
<1>7. CASE ConnectSs
  BY <1>7 DEF ConnectSs, CountdownEnds, TypeOK, NamesTyped
<1>8. CASE ConnectOvpn
  BY <1>8 DEF ConnectOvpn, CountdownEnds, TypeOK, NamesTyped
<1>9. CASE disConnectHowVpn
  BY <1>9 DEF disConnectHowVpn, CountdownEnds, Disconnect, TypeOK, NamesTyped
<1>10. CASE OpenVTool
  BY <1>10 DEF OpenVTool, TypeOK, NamesTyped
<1>11. CASE OpenVToolFails
  BY <1>11 DEF OpenVToolFails, TypeOK, NamesTyped
<1>12. CASE DisconnectThrows
  BY <1>12 DEF DisconnectThrows, Gesture, AppDies, TypeOK, NamesTyped
<1>13. CASE Register
  BY <1>13 DEF Register, TypeOK, NamesTyped
<1>14. CASE ReadState
  BY <1>14 DEF ReadState, Obey, TypeOK, NamesTyped
<1>15. CASE ReadNothing
  BY <1>15 DEF ReadNothing, TypeOK, NamesTyped
<1>16. CASE HearState
  BY <1>16 DEF HearState, Obey, TypeOK, NamesTyped
<1>17. CASE Assign
  BY <1>17 DEF Assign, TypeOK, NamesTyped
<1>18. CASE StartDelivered
  BY <1>18 DEF StartDelivered, Announce, TypeOK, NamesTyped
<1>19. CASE CloseDelivered
  BY <1>19 DEF CloseDelivered, Announce, TypeOK, NamesTyped
<1>20. CASE \E s \in States : SsMoves(s)
  BY <1>20 DEF SsMoves, Announce, TypeOK, NamesTyped
<1>24. CASE SsCrash
  BY <1>24 DEF SsCrash, SsDies, TypeOK, NamesTyped
<1>25. CASE ReadThrows
  BY <1>25 DEF ReadThrows, SsDies, AppDies, TypeOK, NamesTyped
<1>26. CASE Disconnected
  BY <1>26 DEF Disconnected, TypeOK, NamesTyped
<1>27. CASE Tell
  BY <1>27 DEF Tell, TypeOK, NamesTyped
<1>28. CASE RegisterStatusCallback
  BY <1>28 DEF RegisterStatusCallback, TypeOK, NamesTyped
<1>29. CASE HearStatus
  BY <1>29 DEF HearStatus, Obey, TypeOK, NamesTyped
<1>30. CASE HearNothing
  BY <1>30 DEF HearNothing, TypeOK, NamesTyped
<1>31. CASE HearReconnecting
  BY <1>31 DEF HearReconnecting, Obey, Disconnect, TypeOK, NamesTyped
<1>32. CASE SendToAll
  BY <1>32 DEF SendToAll, TypeOK, NamesTyped
<1>33. CASE Connects
  BY <1>33 DEF Connects, UpdateState, TypeOK, NamesTyped
<1>34. CASE LosesServer
  BY <1>34 DEF LosesServer, UpdateState, TypeOK, NamesTyped
<1>35. CASE Ends
  BY <1>35 DEF Ends, UpdateState, TypeOK, NamesTyped
<1>36. CASE OvpnCrash
  BY <1>36 DEF OvpnCrash, TypeOK, NamesTyped
<1>37. CASE UNCHANGED vars
  BY <1>37 DEF vars, TypeOK, NamesTyped
<1> QED
  BY <1>1, <1>2, <1>3, <1>4, <1>5, <1>6, <1>7, <1>8, <1>9, <1>10, <1>11, <1>12,
     <1>13, <1>14, <1>15, <1>16, <1>17, <1>18, <1>19, <1>20, <1>24, <1>25, <1>26, <1>27, <1>28, <1>29, <1>30, <1>31, <1>32,
     <1>33, <1>34, <1>35, <1>36, <1>37
     DEF Next, Gestures, Coroutines, Shadowsocks, OpenVPN

\* Flags stay flags.
LEMMA StepFlagsTyped ==
    ASSUME TypeOK, [Next]_vars
    PROVE  FlagsTyped'
<1> USE DEF Statuses, States, Follows, SsWords, Words,
           globals, activity, words, bindings, bg, openvpn, history, bounds
<1>1. CASE StartCountdown \/ CallOff \/ Leave \/ Recreate \/ Exit
  BY <1>1
     DEF StartCountdown, CallOff, Leave, Recreate, Exit, Gesture,
        isDisConnecting, isConnecting, Disconnect, AppDies, TypeOK, FlagsTyped
<1>2. CASE CalledOff \/ ConnectSs \/ ConnectOvpn \/ disConnectHowVpn
  BY <1>2
     DEF CalledOff, ConnectSs, ConnectOvpn, disConnectHowVpn, CountdownEnds,
        Disconnect, TypeOK, FlagsTyped
<1>3. CASE OpenVTool \/ OpenVToolFails \/ DisconnectThrows
  BY <1>3
     DEF OpenVTool, OpenVToolFails, DisconnectThrows, Gesture, AppDies, TypeOK,
        FlagsTyped
<1>4. CASE Register \/ ReadState \/ ReadNothing \/ HearState
  BY <1>4
     DEF Register, ReadState, ReadNothing, HearState, Obey, TypeOK, FlagsTyped
<1>5. CASE Assign \/ StartDelivered
  BY <1>5 DEF Assign, StartDelivered, Announce, TypeOK, FlagsTyped
<1>6. CASE CloseDelivered \/ \E s \in States : SsMoves(s)
  BY <1>6 DEF CloseDelivered, SsMoves, Announce, TypeOK, FlagsTyped
<1>7. CASE SsCrash
  BY <1>7 DEF SsCrash, SsDies, TypeOK, FlagsTyped
<1>8. CASE ReadThrows \/ Disconnected \/ Tell
  BY <1>8
     DEF ReadThrows, Disconnected, Tell, SsDies, AppDies, TypeOK, FlagsTyped
<1>9. CASE RegisterStatusCallback \/ HearStatus \/ HearNothing
  BY <1>9
     DEF RegisterStatusCallback, HearStatus, HearNothing, Obey, TypeOK,
        FlagsTyped
<1>10. CASE HearReconnecting \/ SendToAll \/ Connects \/ LosesServer \/
            Ends \/ OvpnCrash
  BY <1>10
     DEF HearReconnecting, SendToAll, Connects, LosesServer, Ends, OvpnCrash,
        Obey, Disconnect, UpdateState, TypeOK, FlagsTyped
<1>11. CASE UNCHANGED vars
  BY <1>11 DEF vars, TypeOK, FlagsTyped
<1> QED
  BY <1>1, <1>2, <1>3, <1>4, <1>5, <1>6, <1>7, <1>8, <1>9, <1>10, <1>11
     DEF Next, Gestures, Coroutines, Shadowsocks, OpenVPN

\* What is counted stays countable: nothing is taken that was not there.
LEMMA StepCountersTyped ==
    ASSUME TypeOK, [Next]_vars
    PROVE  CountersTyped'
<1> USE DEF Statuses, States, Follows, SsWords, Words,
           globals, activity, words, bindings, bg, openvpn, history, bounds
<1>1. CASE StartCountdown \/ CallOff \/ Leave \/ Recreate \/ Exit
  BY <1>1
     DEF StartCountdown, CallOff, Leave, Recreate, Exit, Gesture,
        isDisConnecting, isConnecting, Disconnect, AppDies, TypeOK,
        CountersTyped
<1>2. CASE CalledOff \/ ConnectSs \/ ConnectOvpn \/ disConnectHowVpn
  BY <1>2
     DEF CalledOff, ConnectSs, ConnectOvpn, disConnectHowVpn, CountdownEnds,
        Disconnect, TypeOK, CountersTyped
<1>3. CASE OpenVTool \/ OpenVToolFails \/ DisconnectThrows
  BY <1>3
     DEF OpenVTool, OpenVToolFails, DisconnectThrows, Gesture, AppDies, TypeOK,
        CountersTyped
<1>4. CASE Register \/ ReadState \/ ReadNothing \/ HearState
  BY <1>4
     DEF Register, ReadState, ReadNothing, HearState, Obey, TypeOK,
        CountersTyped
<1>5. CASE Assign \/ StartDelivered
  BY <1>5 DEF Assign, StartDelivered, Announce, TypeOK, CountersTyped
<1>6. CASE CloseDelivered \/ \E s \in States : SsMoves(s)
  BY <1>6
     DEF CloseDelivered, SsMoves, Announce, TypeOK, CountersTyped
<1>7. CASE SsCrash
  BY <1>7 DEF SsCrash, SsDies, TypeOK, CountersTyped
<1>8. CASE ReadThrows \/ Disconnected \/ Tell
  BY <1>8
     DEF ReadThrows, Disconnected, Tell, SsDies, AppDies, TypeOK, CountersTyped
<1>9. CASE RegisterStatusCallback \/ HearStatus \/ HearNothing
  BY <1>9
     DEF RegisterStatusCallback, HearStatus, HearNothing, Obey, TypeOK,
        CountersTyped
<1>10. CASE HearReconnecting \/ SendToAll \/ Connects \/ LosesServer \/
            Ends \/ OvpnCrash
  BY <1>10
     DEF HearReconnecting, SendToAll, Connects, LosesServer, Ends, OvpnCrash,
        Obey, Disconnect, UpdateState, TypeOK, CountersTyped
<1>11. CASE UNCHANGED vars
  BY <1>11 DEF vars, TypeOK, CountersTyped
<1> QED
  BY <1>1, <1>2, <1>3, <1>4, <1>5, <1>6, <1>7, <1>8, <1>9, <1>10, <1>11
     DEF Next, Gestures, Coroutines, Shadowsocks, OpenVPN

\* Words stay words.
LEMMA StepQueuesTyped ==
    ASSUME TypeOK, [Next]_vars
    PROVE  QueuesTyped'
<1> USE DEF Statuses, States, Follows, SsWords, Words,
           globals, activity, words, bindings, bg, openvpn, history, bounds
<1>1. CASE ConnectSs \/ ConnectOvpn \/ disConnectHowVpn \/ CalledOff \/
           StartCountdown \/ CallOff \/ Leave \/ OpenVTool \/
           OpenVToolFails \/ Register \/ ReadState \/ ReadNothing \/ Assign \/
           SsCrash \/ Disconnected
  <2>1. UNCHANGED <<ssInbox, inbox, posts>>
    BY <1>1
       DEF ConnectSs, ConnectOvpn, disConnectHowVpn, CalledOff, StartCountdown,
          CallOff, Leave, OpenVTool, OpenVToolFails, Register, ReadState,
          ReadNothing, Assign, SsCrash, Disconnected, CountdownEnds,
          Disconnect, Gesture, isDisConnecting, isConnecting, Obey, SsDies
  <2> QED
    BY <2>1 DEF TypeOK, QueuesTyped
<1>2. CASE Recreate
  BY <1>2, PrefixFacts DEF Recreate, Gesture, QueuesTyped, TypeOK, NamesTyped
<1>3. CASE Exit
  BY <1>3 DEF Exit, Gesture, AppDies, TypeOK, QueuesTyped, NamesTyped
<1>4. CASE DisconnectThrows
  BY <1>4
     DEF DisconnectThrows, Gesture, AppDies, TypeOK, QueuesTyped, NamesTyped
<1>5. CASE HearState
  BY <1>5, TakeFacts DEF HearState, Obey, QueuesTyped, TypeOK, NamesTyped
<1>6. CASE StartDelivered
  <2>1. ssInbox' \in Seq(SsWords)
    BY <1>6, AnnounceFacts DEF StartDelivered, QueuesTyped, TypeOK, NamesTyped
  <2> QED
    BY <1>6, <2>1 DEF StartDelivered, QueuesTyped, TypeOK
<1>7. CASE CloseDelivered
  <2>1. ssInbox' \in Seq(SsWords)
    BY <1>7, AnnounceFacts DEF CloseDelivered, QueuesTyped, TypeOK
  <2> QED
    BY <1>7, <2>1 DEF CloseDelivered, QueuesTyped, TypeOK
<1>8. CASE \E s \in States : SsMoves(s)
  BY <1>8, AnnounceFacts DEF SsMoves, QueuesTyped, TypeOK
<1>12. CASE ReadThrows
  BY <1>12 DEF ReadThrows, SsDies, AppDies, TypeOK, QueuesTyped, NamesTyped
<1>13. CASE Tell
  BY <1>13, AppendFacts DEF Tell, QueuesTyped, TypeOK, NamesTyped
<1>14. CASE RegisterStatusCallback
  BY <1>14, AppendFacts
     DEF RegisterStatusCallback, QueuesTyped, TypeOK, NamesTyped
<1>15. CASE HearStatus
  BY <1>15, TakeFacts DEF HearStatus, Obey, QueuesTyped, TypeOK, NamesTyped
<1>16. CASE HearNothing
  BY <1>16, TakeFacts DEF HearNothing, QueuesTyped, TypeOK, NamesTyped
<1>17. CASE HearReconnecting
  BY <1>17, TakeFacts
     DEF HearReconnecting, Obey, Disconnect, QueuesTyped, TypeOK, NamesTyped
<1>18. CASE SendToAll
  BY <1>18, TakeFacts, AppendFacts
     DEF SendToAll, QueuesTyped, TypeOK, NamesTyped
<1>19. CASE Connects
  BY <1>19, AppendFacts
     DEF Connects, UpdateState, QueuesTyped, TypeOK, NamesTyped
<1>20. CASE LosesServer
  BY <1>20, AppendFacts
     DEF LosesServer, UpdateState, QueuesTyped, TypeOK, NamesTyped
<1>21. CASE Ends
  BY <1>21, AppendFacts DEF Ends, UpdateState, QueuesTyped, TypeOK, NamesTyped
<1>22. CASE OvpnCrash
  BY <1>22 DEF OvpnCrash, TypeOK, QueuesTyped, NamesTyped
<1>23. CASE UNCHANGED vars
  BY <1>23 DEF vars, TypeOK, QueuesTyped, NamesTyped
<1> QED
  BY <1>1, <1>2, <1>3, <1>4, <1>5, <1>6, <1>7, <1>8, <1>12,
     <1>13, <1>14, <1>15, <1>16, <1>17, <1>18, <1>19, <1>20, <1>21, <1>22,
     <1>23
     DEF Next, Gestures, Coroutines, Shadowsocks, OpenVPN

\* A word that is obeyed sets both saoState and what is shown, and a countdown
\* that begins takes back that one was called off.
LEMMA StepOneScreen ==
    ASSUME IInv, [Next]_vars
    PROVE  OneScreen'
<1> USE DEF Statuses, States, Follows, SsWords, Words,
           globals, activity, words, bindings, bg, openvpn, history, bounds
<1>1. CASE CalledOff \/ ConnectSs \/ ConnectOvpn \/ disConnectHowVpn \/
           OpenVTool \/ OpenVToolFails \/ Register \/ ReadNothing \/ Assign \/
           StartDelivered \/ CloseDelivered \/
           (\E s \in States : SsMoves(s)) \/ SsCrash \/
           Disconnected \/ Tell \/ RegisterStatusCallback \/ HearNothing \/
           SendToAll \/ Connects \/ LosesServer \/ Ends \/ OvpnCrash
  <2>1. UNCHANGED <<saoState, saoClick, nowVpnUI, stopConnect, speaker>>
    BY <1>1
       DEF CalledOff, ConnectSs, ConnectOvpn, disConnectHowVpn, OpenVTool,
          OpenVToolFails, Register, ReadNothing, Assign, StartDelivered,
          CloseDelivered, SsMoves, SsCrash, Disconnected,
          Tell, RegisterStatusCallback, HearNothing, SendToAll, Connects,
          LosesServer, Ends, OvpnCrash, CountdownEnds, Disconnect, Announce,
          SsDies, UpdateState
  <2> QED
    BY <2>1 DEF IInv, OneScreen
<1>2. CASE ReadState
  <2>1. (saoState' <=> state = "Connected") /\ saoState' \in BOOLEAN
    BY <1>2 DEF ReadState, Obey
  <2> QED
    BY <1>2, <2>1 DEF ReadState, Obey, IInv, OneScreen, TypeOK, NamesTyped
<1>3. CASE HearState
  <2>1. (saoState' <=> Head(ssInbox) = "Connected") /\ saoState' \in BOOLEAN
    BY <1>3 DEF HearState, Obey
  <2>2. /\ Head(ssInbox) \in SsWords
        /\ Tail(ssInbox) = <<>> => ssInbox[Len(ssInbox)] = Head(ssInbox)
        /\ Tail(ssInbox) # <<>> =>
               ssInbox[Len(ssInbox)] = Tail(ssInbox)[Len(Tail(ssInbox))]
    BY <1>3, TakeFacts DEF HearState, IInv, TypeOK, QueuesTyped
  <2> QED
    BY <1>3, <2>1, <2>2
       DEF HearState, Obey, IInv, OneScreen, TypeOK, NamesTyped
<1>4. CASE HearStatus
  <2>1. (saoState' <=> Head(inbox) = "CONNECTED") /\ saoState' \in BOOLEAN
    BY <1>4 DEF HearStatus, Obey
  <2> QED
    BY <1>4, <2>1 DEF HearStatus, Obey, IInv, OneScreen, TypeOK, NamesTyped
<1>5. CASE StartCountdown
  BY <1>5 DEF StartCountdown, Gesture, IInv, OneScreen, TypeOK, NamesTyped
<1>6. CASE CallOff
  BY <1>6
     DEF CallOff, Gesture, isDisConnecting, IInv, OneScreen, TypeOK, NamesTyped
<1>7. CASE Leave
  BY <1>7
     DEF Leave, Gesture, isConnecting, Disconnect, IInv, OneScreen, TypeOK,
        NamesTyped
<1>8. CASE Recreate
  BY <1>8, PrefixFacts
     DEF Recreate, Gesture, QueuesTyped, IInv, OneScreen, TypeOK, NamesTyped
<1>9. CASE Exit
  BY <1>9 DEF Exit, Gesture, AppDies, IInv, OneScreen, TypeOK, NamesTyped
<1>10. CASE DisconnectThrows
  BY <1>10
     DEF DisconnectThrows, Gesture, AppDies, IInv, OneScreen, TypeOK,
        NamesTyped
<1>11. CASE ReadThrows
  BY <1>11 DEF ReadThrows, SsDies, AppDies, IInv, OneScreen, TypeOK, NamesTyped
<1>12. CASE HearReconnecting
  BY <1>12, TakeFacts
     DEF HearReconnecting, Obey, Disconnect, QueuesTyped, IInv, OneScreen,
        TypeOK, NamesTyped
<1>13. CASE UNCHANGED vars
  BY <1>13 DEF vars, IInv, OneScreen, TypeOK, NamesTyped
<1> QED
  BY <1>1, <1>2, <1>3, <1>4, <1>5, <1>6, <1>7, <1>8, <1>9, <1>10, <1>11, <1>12,
     <1>13
     DEF Next, Gestures, Coroutines, Shadowsocks, OpenVPN

\* What is announced is heard, unless it was announced before the callback was
\* registered; a state that is read is not followed by a word of its own.
LEMMA StepSsMirrored ==
    ASSUME IInv, [Next]_vars
    PROVE  SsMirrored'
<1> USE DEF Statuses, States, Follows, SsWords, Words,
           globals, activity, words, bindings, bg, openvpn, history, bounds
<1>1. CASE CallOff \/ Leave \/ CalledOff \/ ConnectSs \/ ConnectOvpn \/
           disConnectHowVpn \/ OpenVTool \/ Disconnected \/ Tell \/
           RegisterStatusCallback \/ SendToAll \/ Connects \/ LosesServer \/
           Ends \/ OvpnCrash
  <2>1. UNCHANGED <<saoState, bound, ssInbox, state, next, speaker, missed>>
    BY <1>1
       DEF CallOff, Leave, CalledOff, ConnectSs, ConnectOvpn, disConnectHowVpn,
          OpenVTool, Disconnected, Tell, RegisterStatusCallback, SendToAll,
          Connects, LosesServer, Ends, OvpnCrash, Gesture, isDisConnecting,
          isConnecting, Disconnect, CountdownEnds, UpdateState
  <2> QED
    BY <2>1 DEF IInv, SsMirrored, announced
<1>2. CASE ReadState
  <2>1. (saoState' <=> state = "Connected") /\ saoState' \in BOOLEAN
    BY <1>2 DEF ReadState, Obey
  <2> QED
    BY <1>2, <2>1
       DEF ReadState, Obey, IInv, SsMirrored, announced, TypeOK, NamesTyped
<1>3. CASE StartCountdown
  BY <1>3
     DEF StartCountdown, Gesture, IInv, SsMirrored, announced, TypeOK,
        NamesTyped
<1>4. CASE Recreate
  BY <1>4, PrefixFacts
     DEF Recreate, Gesture, QueuesTyped, IInv, SsMirrored, announced, TypeOK,
        NamesTyped
<1>5. CASE Exit
  BY <1>5
     DEF Exit, Gesture, AppDies, IInv, SsMirrored, announced, TypeOK,
        NamesTyped
<1>6. CASE OpenVToolFails
  BY <1>6 DEF OpenVToolFails, IInv, SsMirrored, announced, TypeOK, NamesTyped
<1>7. CASE DisconnectThrows
  BY <1>7
     DEF DisconnectThrows, Gesture, AppDies, IInv, SsMirrored, announced,
        TypeOK, NamesTyped
<1>8. CASE Register
  BY <1>8 DEF Register, IInv, SsMirrored, announced, TypeOK, NamesTyped
<1>9. CASE ReadNothing
  BY <1>9 DEF ReadNothing, IInv, SsMirrored, announced, TypeOK, NamesTyped
<1>10. CASE HearState
  BY <1>10, TakeFacts
     DEF HearState, Obey, QueuesTyped, IInv, SsMirrored, announced, TypeOK,
        NamesTyped
<1>11. CASE Assign
  BY <1>11 DEF Assign, IInv, SsMirrored, announced, TypeOK, NamesTyped
<1>12. CASE StartDelivered
  BY <1>12, AppendFacts
     DEF StartDelivered, Announce, QueuesTyped, IInv, SsMirrored, announced,
        TypeOK, NamesTyped
<1>13. CASE CloseDelivered
  BY <1>13, AppendFacts
     DEF CloseDelivered, Announce, QueuesTyped, IInv, SsMirrored, announced,
        TypeOK, NamesTyped
<1>14. CASE \E s \in States : SsMoves(s)
  <2>1. PICK s \in States : SsMoves(s)
    BY <1>14
  <2>2. /\ s \in Follows[state] /\ Announce(s)
        /\ UNCHANGED <<state, bound, saoState, speaker, missed>>
    BY <2>1 DEF SsMoves
  <2>3. next' = s /\ announced' = s
    BY <2>2 DEF Announce, announced
  <2>4. s \in SsWords => state \notin SsWords
    BY <2>2 DEF IInv, TypeOK, NamesTyped
  <2>5. s \in SsWords /\ bound # "unbound"
            => ssInbox' # <<>> /\ ssInbox'[Len(ssInbox')] = s
    BY <2>2, AnnounceFacts DEF IInv
  <2> QED
    BY <2>2, <2>3, <2>4, <2>5 DEF SsMirrored
<1>18. CASE SsCrash
  BY <1>18 DEF SsCrash, SsDies, IInv, SsMirrored, announced, TypeOK, NamesTyped
<1>19. CASE ReadThrows
  BY <1>19
     DEF ReadThrows, SsDies, AppDies, IInv, SsMirrored, announced, TypeOK,
        NamesTyped
<1>20. CASE HearStatus
  BY <1>20, TakeFacts
     DEF HearStatus, Obey, QueuesTyped, IInv, SsMirrored, announced, TypeOK,
        NamesTyped
<1>21. CASE HearNothing
  BY <1>21, TakeFacts
     DEF HearNothing, QueuesTyped, IInv, SsMirrored, announced, TypeOK,
        NamesTyped
<1>22. CASE HearReconnecting
  BY <1>22, TakeFacts
     DEF HearReconnecting, Obey, Disconnect, QueuesTyped, IInv, SsMirrored,
        announced, TypeOK, NamesTyped
<1>23. CASE UNCHANGED vars
  BY <1>23 DEF vars, IInv, SsMirrored, announced, TypeOK, NamesTyped
<1> QED
  BY <1>1, <1>2, <1>3, <1>4, <1>5, <1>6, <1>7, <1>8, <1>9, <1>10, <1>11, <1>12,
     <1>13, <1>14, <1>18, <1>19, <1>20, <1>21, <1>22,
     <1>23
     DEF Next, Gestures, Coroutines, Shadowsocks, OpenVPN

\* The last of the posts is the state they were posted of, and the last of the
\* words the last of the posts.
LEMMA StepOvpnMirrored ==
    ASSUME IInv, [Next]_vars
    PROVE  OvpnMirrored'
<1> USE DEF Statuses, States, Follows, SsWords, Words,
           globals, activity, words, bindings, bg, openvpn, history, bounds
<1>1. CASE CallOff \/ Leave \/ CalledOff \/ ConnectSs \/ ConnectOvpn \/
           disConnectHowVpn \/ Register \/ Assign \/ StartDelivered \/
           CloseDelivered \/ (\E s \in States : SsMoves(s)) \/ SsCrash
  <2>1. UNCHANGED <<saoState, mService, inbox, status, posts, speaker, missed>>
    BY <1>1
       DEF CallOff, Leave, CalledOff, ConnectSs, ConnectOvpn, disConnectHowVpn,
          Register, Assign, StartDelivered, CloseDelivered, SsMoves, SsCrash,
          Gesture, isDisConnecting, isConnecting,
          Disconnect, CountdownEnds, Announce, SsDies
  <2> QED
    BY <2>1 DEF IInv, OvpnMirrored, OvpnHeard
<1>2. CASE HearStatus
  <2>1. (saoState' <=> Head(inbox) = "CONNECTED") /\ saoState' \in BOOLEAN
    BY <1>2 DEF HearStatus, Obey
  <2>2. /\ Head(inbox) \in Words
        /\ Tail(inbox) = <<>> => inbox[Len(inbox)] = Head(inbox)
        /\ Tail(inbox) # <<>> =>
               inbox[Len(inbox)] = Tail(inbox)[Len(Tail(inbox))]
    BY <1>2, TakeFacts DEF HearStatus, IInv, TypeOK, QueuesTyped
  <2> QED
    BY <1>2, <2>1, <2>2
       DEF HearStatus, Obey, IInv, OvpnMirrored, OvpnHeard, Free, TypeOK,
          NamesTyped
<1>3. CASE SendToAll
  <2>1. /\ Head(posts) \in Statuses
        /\ Tail(posts) = <<>> => posts[Len(posts)] = Head(posts)
        /\ Tail(posts) # <<>> =>
               posts[Len(posts)] = Tail(posts)[Len(Tail(posts))]
    BY <1>3, TakeFacts DEF SendToAll, IInv, TypeOK, QueuesTyped
  <2>2. mService = "registered" =>
            inbox' # <<>> /\ inbox'[Len(inbox')] = Head(posts)
    BY <1>3, <2>1, AppendFacts DEF SendToAll, IInv, TypeOK, QueuesTyped
  <2> QED
    BY <1>3, <2>1, <2>2
       DEF SendToAll, IInv, OvpnMirrored, OvpnHeard, Free, TypeOK, NamesTyped
<1>4. CASE HearNothing
  <2>1. /\ Head(inbox) \in Words
        /\ Tail(inbox) = <<>> => inbox[Len(inbox)] = Head(inbox)
        /\ Tail(inbox) # <<>> =>
               inbox[Len(inbox)] = Tail(inbox)[Len(Tail(inbox))]
    BY <1>4, TakeFacts DEF HearNothing, IInv, TypeOK, QueuesTyped
  <2> QED
    BY <1>4, <2>1
       DEF HearNothing, IInv, OvpnMirrored, OvpnHeard, Free, TypeOK, NamesTyped
<1>5. CASE HearReconnecting
  <2>1. /\ Head(inbox) \in Words
        /\ Tail(inbox) = <<>> => inbox[Len(inbox)] = Head(inbox)
        /\ Tail(inbox) # <<>> =>
               inbox[Len(inbox)] = Tail(inbox)[Len(Tail(inbox))]
    BY <1>5, TakeFacts DEF HearReconnecting, IInv, TypeOK, QueuesTyped
  <2> QED
    BY <1>5, <2>1
       DEF HearReconnecting, Obey, Disconnect, IInv, OvpnMirrored, OvpnHeard,
          Free, TypeOK, NamesTyped
<1>6. CASE RegisterStatusCallback
  <2>1. CASE inbox' = inbox
    BY <1>6, <2>1
       DEF RegisterStatusCallback, IInv, OvpnMirrored, OvpnHeard, Free, TypeOK,
          NamesTyped
  <2>2. CASE inbox' = Append(inbox, "lost")
    <3>1. inbox' # <<>> /\ inbox'[Len(inbox')] = "lost"
      BY <1>6, <2>2, AppendFacts DEF IInv, TypeOK, QueuesTyped
    <3> QED
      BY <1>6, <3>1
         DEF RegisterStatusCallback, IInv, OvpnMirrored, OvpnHeard, Free,
            TypeOK, NamesTyped
  <2> QED
    BY <1>6, <2>1, <2>2 DEF RegisterStatusCallback
<1>7. CASE Connects \/ LosesServer \/ Ends
  <2>1. posts' # <<>> /\ posts'[Len(posts')] = status'
    BY <1>7, AppendFacts
       DEF Connects, LosesServer, Ends, UpdateState, IInv, TypeOK, QueuesTyped
  <2>2. UNCHANGED <<mService, inbox>>
    BY <1>7 DEF Connects, LosesServer, Ends, UpdateState
  <2> QED
    BY <2>1, <2>2 DEF IInv, OvpnMirrored, OvpnHeard
<1>8. CASE StartCountdown
  BY <1>8
     DEF StartCountdown, Gesture, IInv, OvpnMirrored, OvpnHeard, Free, TypeOK,
        NamesTyped
<1>9. CASE Recreate
  BY <1>9, PrefixFacts
     DEF Recreate, Gesture, QueuesTyped, IInv, OvpnMirrored, OvpnHeard, Free,
        TypeOK, NamesTyped
<1>10. CASE Exit
  BY <1>10
     DEF Exit, Gesture, AppDies, IInv, OvpnMirrored, OvpnHeard, Free, TypeOK,
        NamesTyped
<1>11. CASE OpenVTool
  BY <1>11
     DEF OpenVTool, IInv, OvpnMirrored, OvpnHeard, Free, TypeOK, NamesTyped
<1>12. CASE OpenVToolFails
  BY <1>12
     DEF OpenVToolFails, IInv, OvpnMirrored, OvpnHeard, Free, TypeOK,
        NamesTyped
<1>13. CASE DisconnectThrows
  BY <1>13
     DEF DisconnectThrows, Gesture, AppDies, IInv, OvpnMirrored, OvpnHeard,
        Free, TypeOK, NamesTyped
<1>14. CASE ReadState
  BY <1>14
     DEF ReadState, Obey, IInv, OvpnMirrored, OvpnHeard, Free, TypeOK,
        NamesTyped
<1>15. CASE ReadNothing
  BY <1>15
     DEF ReadNothing, IInv, OvpnMirrored, OvpnHeard, Free, TypeOK, NamesTyped
<1>16. CASE HearState
  BY <1>16, TakeFacts
     DEF HearState, Obey, QueuesTyped, IInv, OvpnMirrored, OvpnHeard, Free,
        TypeOK, NamesTyped
<1>17. CASE ReadThrows
  BY <1>17
     DEF ReadThrows, SsDies, AppDies, IInv, OvpnMirrored, OvpnHeard, Free,
        TypeOK, NamesTyped
<1>18. CASE Disconnected
  BY <1>18
     DEF Disconnected, IInv, OvpnMirrored, OvpnHeard, Free, TypeOK, NamesTyped
<1>19. CASE Tell
  BY <1>19, AppendFacts
     DEF Tell, QueuesTyped, IInv, OvpnMirrored, OvpnHeard, Free, TypeOK,
        NamesTyped
<1>20. CASE OvpnCrash
  BY <1>20
     DEF OvpnCrash, IInv, OvpnMirrored, OvpnHeard, Free, TypeOK, NamesTyped
<1>21. CASE UNCHANGED vars
  BY <1>21 DEF vars, IInv, OvpnMirrored, OvpnHeard, Free, TypeOK, NamesTyped
<1> QED
  BY <1>1, <1>2, <1>3, <1>4, <1>5, <1>6, <1>7, <1>8, <1>9, <1>10, <1>11, <1>12,
     <1>13, <1>14, <1>15, <1>16, <1>17, <1>18, <1>19, <1>20, <1>21
     DEF Next, Gestures, Coroutines, Shadowsocks, OpenVPN

\* A countdown that ends where the screen shows a connection tells the engine
\* to stop; a word that is obeyed ends what is shown.
LEMMA StepDisconnecting ==
    ASSUME IInv, [Next]_vars
    PROVE  Disconnecting'
<1> USE DEF Statuses, States, Follows, SsWords, Words,
           globals, activity, words, bindings, bg, openvpn, history, bounds
<1>1. CASE CallOff \/ Leave \/ Recreate \/ Exit \/ DisconnectThrows \/
           ReadState \/ HearState \/ ReadThrows \/ HearStatus \/
           HearReconnecting
  <2>1. nowVpnUI' # 1
    BY <1>1
       DEF CallOff, Leave, Recreate, Exit, DisconnectThrows, ReadState,
          HearState, ReadThrows, HearStatus, HearReconnecting, Gesture,
          isDisConnecting, isConnecting, Disconnect, AppDies, Obey, SsDies
  <2> QED
    BY <2>1 DEF Disconnecting
<1>2. CASE SendToAll
  <2>1. /\ Head(posts) \in Statuses
        /\ Tail(posts) = <<>> => posts[Len(posts)] = Head(posts)
        /\ Tail(posts) # <<>> =>
               posts[Len(posts)] = Tail(posts)[Len(Tail(posts))]
    BY <1>2, TakeFacts DEF SendToAll, IInv, TypeOK, QueuesTyped
  <2>2. mService = "registered" =>
            inbox' # <<>> /\ inbox'[Len(inbox')] = Head(posts)
    BY <1>2, <2>1, AppendFacts DEF SendToAll, IInv, TypeOK, QueuesTyped
  <2> QED
    BY <1>2, <2>1, <2>2
       DEF SendToAll, IInv, Disconnecting, OneScreen, SsMirrored, OvpnMirrored,
          announced, OvpnHeard, SsComes, OvpnComes, TypeOK, NamesTyped,
          CountersTyped
<1>3. CASE SsMoves("Connected")
  <2>1. SsComes'
    BY <1>3, AppendFacts
       DEF SsMoves, Announce, SsComes, IInv, TypeOK, NamesTyped, QueuesTyped
  <2> QED
    BY <1>3, <2>1
       DEF SsMoves, Announce, IInv, Disconnecting, announced, OvpnComes
<1>4. CASE StartCountdown
  BY <1>4
     DEF StartCountdown, Gesture, IInv, Disconnecting, OneScreen, SsMirrored,
        OvpnMirrored, announced, OvpnHeard, SsComes, OvpnComes, TypeOK,
        NamesTyped, CountersTyped
<1>5. CASE CalledOff
  BY <1>5
     DEF CalledOff, CountdownEnds, IInv, Disconnecting, OneScreen, SsMirrored,
        OvpnMirrored, announced, OvpnHeard, SsComes, OvpnComes, TypeOK,
        NamesTyped, CountersTyped
<1>6. CASE ConnectSs
  BY <1>6
     DEF ConnectSs, CountdownEnds, IInv, Disconnecting, OneScreen, SsMirrored,
        OvpnMirrored, announced, OvpnHeard, SsComes, OvpnComes, TypeOK,
        NamesTyped, CountersTyped
<1>7. CASE ConnectOvpn
  BY <1>7
     DEF ConnectOvpn, CountdownEnds, IInv, Disconnecting, OneScreen,
        SsMirrored, OvpnMirrored, announced, OvpnHeard, SsComes, OvpnComes,
        TypeOK, NamesTyped, CountersTyped
<1>8. CASE disConnectHowVpn
  BY <1>8
     DEF disConnectHowVpn, CountdownEnds, Disconnect, IInv, Disconnecting,
        OneScreen, SsMirrored, OvpnMirrored, announced, OvpnHeard, SsComes,
        OvpnComes, TypeOK, NamesTyped, CountersTyped
<1>9. CASE OpenVTool
  BY <1>9
     DEF OpenVTool, IInv, Disconnecting, OneScreen, SsMirrored, OvpnMirrored,
        announced, OvpnHeard, SsComes, OvpnComes, TypeOK, NamesTyped,
        CountersTyped
<1>10. CASE OpenVToolFails
  BY <1>10
     DEF OpenVToolFails, IInv, Disconnecting, OneScreen, SsMirrored,
        OvpnMirrored, announced, OvpnHeard, SsComes, OvpnComes, TypeOK,
        NamesTyped, CountersTyped
<1>11. CASE Register
  BY <1>11
     DEF Register, IInv, Disconnecting, OneScreen, SsMirrored, OvpnMirrored,
        announced, OvpnHeard, SsComes, OvpnComes, TypeOK, NamesTyped,
        CountersTyped
<1>12. CASE ReadNothing
  BY <1>12
     DEF ReadNothing, IInv, Disconnecting, OneScreen, SsMirrored, OvpnMirrored,
        announced, OvpnHeard, SsComes, OvpnComes, TypeOK, NamesTyped,
        CountersTyped
<1>13. CASE Assign
  BY <1>13
     DEF Assign, IInv, Disconnecting, OneScreen, SsMirrored, OvpnMirrored,
        announced, OvpnHeard, SsComes, OvpnComes, TypeOK, NamesTyped,
        CountersTyped
<1>14. CASE StartDelivered
  BY <1>14, AppendFacts
     DEF StartDelivered, Announce, QueuesTyped, IInv, Disconnecting, OneScreen,
        SsMirrored, OvpnMirrored, announced, OvpnHeard, SsComes, OvpnComes,
        TypeOK, NamesTyped, CountersTyped
<1>15. CASE CloseDelivered
  BY <1>15, AppendFacts
     DEF CloseDelivered, Announce, QueuesTyped, IInv, Disconnecting, OneScreen,
        SsMirrored, OvpnMirrored, announced, OvpnHeard, SsComes, OvpnComes,
        TypeOK, NamesTyped, CountersTyped
<1>16. CASE SsMoves("Stopping")
  BY <1>16, AppendFacts
     DEF SsMoves, Announce, QueuesTyped, IInv, Disconnecting, OneScreen,
        SsMirrored, OvpnMirrored, announced, OvpnHeard, SsComes, OvpnComes,
        TypeOK, NamesTyped, CountersTyped
<1>17. CASE SsMoves("Stopped")
  BY <1>17, AppendFacts
     DEF SsMoves, Announce, QueuesTyped, IInv, Disconnecting, OneScreen,
        SsMirrored, OvpnMirrored, announced, OvpnHeard, SsComes, OvpnComes,
        TypeOK, NamesTyped, CountersTyped
<1>18. CASE SsMoves("Connecting")
  BY <1>18, AppendFacts
     DEF SsMoves, Announce, QueuesTyped, IInv, Disconnecting, OneScreen,
        SsMirrored, OvpnMirrored, announced, OvpnHeard, SsComes, OvpnComes,
        TypeOK, NamesTyped, CountersTyped
<1>19. CASE SsCrash
  BY <1>19
     DEF SsCrash, SsDies, IInv, Disconnecting, OneScreen, SsMirrored,
        OvpnMirrored, announced, OvpnHeard, SsComes, OvpnComes, TypeOK,
        NamesTyped, CountersTyped
<1>20. CASE Disconnected
  BY <1>20
     DEF Disconnected, IInv, Disconnecting, OneScreen, SsMirrored,
        OvpnMirrored, announced, OvpnHeard, SsComes, OvpnComes, TypeOK,
        NamesTyped, CountersTyped
<1>21. CASE Tell
  BY <1>21, AppendFacts
     DEF Tell, QueuesTyped, IInv, Disconnecting, OneScreen, SsMirrored,
        OvpnMirrored, announced, OvpnHeard, SsComes, OvpnComes, TypeOK,
        NamesTyped, CountersTyped
<1>22. CASE RegisterStatusCallback
  BY <1>22, AppendFacts
     DEF RegisterStatusCallback, QueuesTyped, IInv, Disconnecting, OneScreen,
        SsMirrored, OvpnMirrored, announced, OvpnHeard, SsComes, OvpnComes,
        TypeOK, NamesTyped, CountersTyped
<1>23. CASE HearNothing
  BY <1>23, TakeFacts
     DEF HearNothing, QueuesTyped, IInv, Disconnecting, OneScreen, SsMirrored,
        OvpnMirrored, announced, OvpnHeard, SsComes, OvpnComes, TypeOK,
        NamesTyped, CountersTyped
<1>24. CASE Connects
  BY <1>24, AppendFacts
     DEF Connects, UpdateState, QueuesTyped, IInv, Disconnecting, OneScreen,
        SsMirrored, OvpnMirrored, announced, OvpnHeard, SsComes, OvpnComes,
        TypeOK, NamesTyped, CountersTyped
<1>25. CASE LosesServer
  BY <1>25, AppendFacts
     DEF LosesServer, UpdateState, QueuesTyped, IInv, Disconnecting, OneScreen,
        SsMirrored, OvpnMirrored, announced, OvpnHeard, SsComes, OvpnComes,
        TypeOK, NamesTyped, CountersTyped
<1>26. CASE Ends
  BY <1>26, AppendFacts
     DEF Ends, UpdateState, QueuesTyped, IInv, Disconnecting, OneScreen,
        SsMirrored, OvpnMirrored, announced, OvpnHeard, SsComes, OvpnComes,
        TypeOK, NamesTyped, CountersTyped
<1>27. CASE OvpnCrash
  BY <1>27
     DEF OvpnCrash, IInv, Disconnecting, OneScreen, SsMirrored, OvpnMirrored,
        announced, OvpnHeard, SsComes, OvpnComes, TypeOK, NamesTyped,
        CountersTyped
<1>28. CASE UNCHANGED vars
  BY <1>28
     DEF vars, IInv, Disconnecting, OneScreen, SsMirrored, OvpnMirrored,
        announced, OvpnHeard, SsComes, OvpnComes, TypeOK, NamesTyped,
        CountersTyped
<1> QED
  BY <1>1, <1>2, <1>3, <1>4, <1>5, <1>6, <1>7, <1>8, <1>9, <1>10, <1>11, <1>12,
     <1>13, <1>14, <1>15, <1>16, <1>17, <1>18, <1>19, <1>20, <1>21, <1>22,
     <1>23, <1>24, <1>25, <1>26, <1>27, <1>28
     DEF Next, Gestures, Coroutines, Shadowsocks, OpenVPN

\* A countdown that ends where it shows none starts an engine, whose words end
\* what is shown.
LEMMA StepConnecting ==
    ASSUME IInv, [Next]_vars
    PROVE  Connecting'
<1> USE DEF Statuses, States, Follows, SsWords, Words,
           globals, activity, words, bindings, bg, openvpn, history, bounds
<1>1. CASE CallOff \/ Leave \/ Recreate \/ Exit \/ DisconnectThrows \/
           ReadState \/ HearState \/ ReadThrows \/ HearStatus \/
           HearReconnecting
  <2>1. nowVpnUI' # 1
    BY <1>1
       DEF CallOff, Leave, Recreate, Exit, DisconnectThrows, ReadState,
          HearState, ReadThrows, HearStatus, HearReconnecting, Gesture,
          isDisConnecting, isConnecting, Disconnect, AppDies, Obey, SsDies
  <2> QED
    BY <2>1 DEF Connecting
<1>2. CASE SendToAll
  <2>1. /\ Head(posts) \in Statuses
        /\ Tail(posts) = <<>> => posts[Len(posts)] = Head(posts)
        /\ Tail(posts) # <<>> =>
               posts[Len(posts)] = Tail(posts)[Len(Tail(posts))]
    BY <1>2, TakeFacts DEF SendToAll, IInv, TypeOK, QueuesTyped
  <2>2. mService = "registered" =>
            inbox' # <<>> /\ inbox'[Len(inbox')] = Head(posts)
    BY <1>2, <2>1, AppendFacts DEF SendToAll, IInv, TypeOK, QueuesTyped
  <2> QED
    BY <1>2, <2>1, <2>2
       DEF SendToAll, IInv, Connecting, Hidden, OneScreen, SsMirrored,
          OvpnMirrored, announced, OvpnHeard, SsComes, OvpnComes, TypeOK,
          NamesTyped, CountersTyped
<1>3. CASE SsMoves("Connected")
  <2>1. SsComes'
    BY <1>3, AppendFacts
       DEF SsMoves, Announce, SsComes, IInv, TypeOK, NamesTyped, QueuesTyped
  <2> QED
    BY <1>3, <2>1
       DEF SsMoves, Announce, IInv, Connecting, announced, OvpnComes, Hidden
<1>4. CASE StartCountdown
  BY <1>4
     DEF StartCountdown, Gesture, IInv, Connecting, Hidden, OneScreen,
        SsMirrored, OvpnMirrored, announced, OvpnHeard, SsComes, OvpnComes,
        TypeOK, NamesTyped, CountersTyped
<1>5. CASE CalledOff
  BY <1>5
     DEF CalledOff, CountdownEnds, IInv, Connecting, Hidden, OneScreen,
        SsMirrored, OvpnMirrored, announced, OvpnHeard, SsComes, OvpnComes,
        TypeOK, NamesTyped, CountersTyped
<1>6. CASE ConnectSs
  BY <1>6
     DEF ConnectSs, CountdownEnds, IInv, Connecting, Hidden, OneScreen,
        SsMirrored, OvpnMirrored, announced, OvpnHeard, SsComes, OvpnComes,
        TypeOK, NamesTyped, CountersTyped
<1>7. CASE ConnectOvpn
  BY <1>7
     DEF ConnectOvpn, CountdownEnds, IInv, Connecting, Hidden, OneScreen,
        SsMirrored, OvpnMirrored, announced, OvpnHeard, SsComes, OvpnComes,
        TypeOK, NamesTyped, CountersTyped
<1>8. CASE disConnectHowVpn
  BY <1>8
     DEF disConnectHowVpn, CountdownEnds, Disconnect, IInv, Connecting, Hidden,
        OneScreen, SsMirrored, OvpnMirrored, announced, OvpnHeard, SsComes,
        OvpnComes, TypeOK, NamesTyped, CountersTyped
<1>9. CASE OpenVTool
  BY <1>9
     DEF OpenVTool, IInv, Connecting, Hidden, OneScreen, SsMirrored,
        OvpnMirrored, announced, OvpnHeard, SsComes, OvpnComes, TypeOK,
        NamesTyped, CountersTyped
<1>10. CASE OpenVToolFails
  BY <1>10
     DEF OpenVToolFails, IInv, Connecting, Hidden, OneScreen, SsMirrored,
        OvpnMirrored, announced, OvpnHeard, SsComes, OvpnComes, TypeOK,
        NamesTyped, CountersTyped
<1>11. CASE Register
  BY <1>11
     DEF Register, IInv, Connecting, Hidden, OneScreen, SsMirrored,
        OvpnMirrored, announced, OvpnHeard, SsComes, OvpnComes, TypeOK,
        NamesTyped, CountersTyped
<1>12. CASE ReadNothing
  BY <1>12
     DEF ReadNothing, IInv, Connecting, Hidden, OneScreen, SsMirrored,
        OvpnMirrored, announced, OvpnHeard, SsComes, OvpnComes, TypeOK,
        NamesTyped, CountersTyped
<1>13. CASE Assign
  BY <1>13
     DEF Assign, IInv, Connecting, Hidden, OneScreen, SsMirrored, OvpnMirrored,
        announced, OvpnHeard, SsComes, OvpnComes, TypeOK, NamesTyped,
        CountersTyped
<1>14. CASE StartDelivered
  BY <1>14, AppendFacts
     DEF StartDelivered, Announce, QueuesTyped, IInv, Connecting, Hidden,
        OneScreen, SsMirrored, OvpnMirrored, announced, OvpnHeard, SsComes,
        OvpnComes, TypeOK, NamesTyped, CountersTyped
<1>15. CASE CloseDelivered
  BY <1>15, AppendFacts
     DEF CloseDelivered, Announce, QueuesTyped, IInv, Connecting, Hidden,
        OneScreen, SsMirrored, OvpnMirrored, announced, OvpnHeard, SsComes,
        OvpnComes, TypeOK, NamesTyped, CountersTyped
<1>16. CASE SsMoves("Stopping")
  BY <1>16, AppendFacts
     DEF SsMoves, Announce, QueuesTyped, IInv, Connecting, Hidden,
        OneScreen, SsMirrored, OvpnMirrored, announced, OvpnHeard, SsComes,
        OvpnComes, TypeOK, NamesTyped, CountersTyped
<1>17. CASE SsMoves("Stopped")
  BY <1>17, AppendFacts
     DEF SsMoves, Announce, QueuesTyped, IInv, Connecting, Hidden, OneScreen,
        SsMirrored, OvpnMirrored, announced, OvpnHeard, SsComes, OvpnComes,
        TypeOK, NamesTyped, CountersTyped
<1>18. CASE SsMoves("Connecting")
  BY <1>18, AppendFacts
     DEF SsMoves, Announce, QueuesTyped, IInv, Connecting, Hidden, OneScreen,
        SsMirrored, OvpnMirrored, announced, OvpnHeard, SsComes, OvpnComes,
        TypeOK, NamesTyped, CountersTyped
<1>19. CASE SsCrash
  BY <1>19
     DEF SsCrash, SsDies, IInv, Connecting, Hidden, OneScreen, SsMirrored,
        OvpnMirrored, announced, OvpnHeard, SsComes, OvpnComes, TypeOK,
        NamesTyped, CountersTyped
<1>20. CASE Disconnected
  BY <1>20
     DEF Disconnected, IInv, Connecting, Hidden, OneScreen, SsMirrored,
        OvpnMirrored, announced, OvpnHeard, SsComes, OvpnComes, TypeOK,
        NamesTyped, CountersTyped
<1>21. CASE Tell
  BY <1>21, AppendFacts
     DEF Tell, QueuesTyped, IInv, Connecting, Hidden, OneScreen, SsMirrored,
        OvpnMirrored, announced, OvpnHeard, SsComes, OvpnComes, TypeOK,
        NamesTyped, CountersTyped
<1>22. CASE RegisterStatusCallback
  BY <1>22, AppendFacts
     DEF RegisterStatusCallback, QueuesTyped, IInv, Connecting, Hidden,
        OneScreen, SsMirrored, OvpnMirrored, announced, OvpnHeard, SsComes,
        OvpnComes, TypeOK, NamesTyped, CountersTyped
<1>23. CASE HearNothing
  BY <1>23, TakeFacts
     DEF HearNothing, QueuesTyped, IInv, Connecting, Hidden, OneScreen,
        SsMirrored, OvpnMirrored, announced, OvpnHeard, SsComes, OvpnComes,
        TypeOK, NamesTyped, CountersTyped
<1>24. CASE Connects
  BY <1>24, AppendFacts
     DEF Connects, UpdateState, QueuesTyped, IInv, Connecting, Hidden,
        OneScreen, SsMirrored, OvpnMirrored, announced, OvpnHeard, SsComes,
        OvpnComes, TypeOK, NamesTyped, CountersTyped
<1>25. CASE LosesServer
  BY <1>25, AppendFacts
     DEF LosesServer, UpdateState, QueuesTyped, IInv, Connecting, Hidden,
        OneScreen, SsMirrored, OvpnMirrored, announced, OvpnHeard, SsComes,
        OvpnComes, TypeOK, NamesTyped, CountersTyped
<1>26. CASE Ends
  BY <1>26, AppendFacts
     DEF Ends, UpdateState, QueuesTyped, IInv, Connecting, Hidden, OneScreen,
        SsMirrored, OvpnMirrored, announced, OvpnHeard, SsComes, OvpnComes,
        TypeOK, NamesTyped, CountersTyped
<1>27. CASE OvpnCrash
  BY <1>27
     DEF OvpnCrash, IInv, Connecting, Hidden, OneScreen, SsMirrored,
        OvpnMirrored, announced, OvpnHeard, SsComes, OvpnComes, TypeOK,
        NamesTyped, CountersTyped
<1>28. CASE UNCHANGED vars
  BY <1>28
     DEF vars, IInv, Connecting, Hidden, OneScreen, SsMirrored, OvpnMirrored,
        announced, OvpnHeard, SsComes, OvpnComes, TypeOK, NamesTyped,
        CountersTyped
<1> QED
  BY <1>1, <1>2, <1>3, <1>4, <1>5, <1>6, <1>7, <1>8, <1>9, <1>10, <1>11, <1>12,
     <1>13, <1>14, <1>15, <1>16, <1>17, <1>18, <1>19, <1>20, <1>21, <1>22,
     <1>23, <1>24, <1>25, <1>26, <1>27, <1>28
     DEF Next, Gestures, Coroutines, Shadowsocks, OpenVPN

-----------------------------------------------------------------------------
(* Theorems.                                                               *)

\* At first nothing is shown, on its way or missed.
LEMMA Start ==
    ASSUME Init
    PROVE  IInv
<1> USE DEF Init, Statuses, States, SsWords
<1>1. TypeOK
  <2>1. NamesTyped
    BY DEF NamesTyped
  <2>2. FlagsTyped
    BY DEF FlagsTyped
  <2>3. CountersTyped /\ QueuesTyped
    BY DEF CountersTyped, QueuesTyped
  <2> QED
    BY <2>1, <2>2, <2>3 DEF TypeOK
<1>2. OneScreen /\ SsMirrored /\ OvpnMirrored
  BY DEF OneScreen, SsMirrored, OvpnMirrored, announced, OvpnHeard
<1>3. Disconnecting /\ Connecting
  BY DEF Disconnecting, Connecting
<1> QED
  BY <1>1, <1>2, <1>3 DEF IInv

LEMMA Step ==
    ASSUME IInv, [Next]_vars
    PROVE  IInv'
<1>1. TypeOK'
  BY StepNamesTyped, StepFlagsTyped, StepCountersTyped, StepQueuesTyped
     DEF IInv, TypeOK
<1>2. OneScreen' /\ SsMirrored' /\ OvpnMirrored'
  BY StepOneScreen, StepSsMirrored, StepOvpnMirrored
<1> QED
  BY <1>1, <1>2, StepDisconnecting, StepConnecting DEF IInv

\* Whatever the user does and whichever process dies, the globals of the screen
\* fit together, the last word on its way from an engine is the engine's last,
\* and a countdown is followed by a word or by something that brings one.
THEOREM InvariantHolds == Spec => []IInv
<1>1. Init => IInv
  BY Start
<1>2. IInv /\ [Next]_vars => IInv'
  BY Step
<1> QED
  BY <1>1, <1>2, PTL DEF Spec

\* Once every word has arrived, the screen shows what the engine that spoke
\* last is in, save for a word that newStatus or a registration lost.
THEOREM ScreenAgrees == Spec => []Agrees
<1>1. IInv => Agrees
  <2> SUFFICES ASSUME IInv
               PROVE  Agrees
    OBVIOUS
  <2>1. Shown <=> saoState
    BY DEF IInv, TypeOK, NamesTyped, FlagsTyped, OneScreen, Shown
  <2>2. SsHeard => announced = state
    BY DEF SsHeard, announced
  <2>3. speaker = "ss" /\ SsHeard /\ state \in SsWords /\ "ss" \notin missed
            => (saoState <=> state = "Connected")
    BY <2>2 DEF IInv, SsMirrored, SsHeard
  <2>4. speaker = "ovpn" /\ OvpnHeard /\ status # "busy"
        /\ "ovpn" \notin missed
            => (saoState <=> status = "CONNECTED")
    BY DEF IInv, OvpnMirrored
  <2> QED
    BY <2>1, <2>3, <2>4 DEF Agrees
<1> QED
  BY <1>1, InvariantHolds, PTL

\* Once nothing runs and every word has arrived, no countdown is shown, save
\* for a start that openVTool lost, a word that was lost, or Shadowsocks
\* connected behind OpenVPN's last word.
THEOREM ScreenNeverStuck == Spec => []NeverStuck
<1>1. IInv => NeverStuck
  <2> SUFFICES ASSUME IInv, nowVpnUI = 1, Quiet, missed = {}, ~Hidden
               PROVE  FALSE
    BY DEF NeverStuck
  <2>1. ~SsComes /\ ~OvpnComes /\ announced = state
    BY DEF Quiet, SsHeard, OvpnHeard, SsComes, OvpnComes, announced
  <2>2. ~saoState
    <3> SUFFICES ASSUME saoState
                 PROVE  FALSE
      OBVIOUS
    <3>1. speaker = "ss" \/ speaker = "ovpn"
      BY DEF IInv, TypeOK, NamesTyped, OneScreen
    <3>2. speaker = "ss" => state = "Connected"
      BY <2>1 DEF IInv, SsMirrored, Quiet, SsHeard
    <3>3. speaker = "ovpn" => status = "CONNECTED"
      BY DEF IInv, OvpnMirrored, Quiet
    <3> QED
      BY <2>1, <3>1, <3>2, <3>3 DEF IInv, Disconnecting, Quiet
  <2> QED
    BY <2>1, <2>2 DEF IInv, Connecting, Quiet, SsWords
<1> QED
  BY <1>1, InvariantHolds, PTL

=============================================================================
