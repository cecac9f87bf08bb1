------------------------- MODULE PauseControlProofs -------------------------
(* Theorems about PauseControl, for any networks, threads and bounds.       *)
EXTENDS PauseControl, TLAPS

\* What a socket does to its messages.
LEMMA SocketFacts ==
    ASSUME NEW S, NEW s \in Seq(S)
    PROVE  /\ Len(s) \in Nat
           /\ \A c \in S : /\ Append(s, c) \in Seq(S) /\ Len(Append(s, c)) = Len(s) + 1
                           /\ Append(s, c)[Len(s) + 1] = c
                           /\ \A i \in 1 .. Len(s) : Append(s, c)[i] = s[i]
           /\ s # <<>> => /\ Len(s) > 0 /\ Head(s) = s[1] /\ Head(s) \in S
                          /\ Tail(s) \in Seq(S) /\ Len(Tail(s)) = Len(s) - 1
                          /\ \A i \in 1 .. Len(s) - 1 : Tail(s)[i] = s[i + 1]
OBVIOUS

\* A release that is under way stays so when another command is sent.
LEMMA SendFacts ==
    ASSUME TypeOK, NEW c \in Commands, Send(c)
    PROVE  /\ commands' \in Seq(Commands)
           /\ (\E i \in 1 .. Len(commands) : commands[i] = "hold release") =>
                  \E i \in 1 .. Len(commands') : commands'[i] = "hold release"
           /\ c = "hold release" =>
                  \E i \in 1 .. Len(commands') : commands'[i] = "hold release"
<1>1. commands \in Seq(Commands)
  BY DEF TypeOK
<1>2. /\ Len(commands) \in Nat /\ commands' \in Seq(Commands)
      /\ Len(commands') = Len(commands) + 1 /\ commands'[Len(commands) + 1] = c
      /\ \A i \in 1 .. Len(commands) : commands'[i] = commands[i]
  BY <1>1, SocketFacts DEF Send
<1>3. ASSUME NEW i \in 1 .. Len(commands), commands[i] = "hold release"
      PROVE  \E j \in 1 .. Len(commands') : commands'[j] = "hold release"
  <2>1. i \in 1 .. Len(commands') /\ commands'[i] = commands[i]
    BY <1>2
  <2> QED
    BY <2>1, <1>3
<1>4. c = "hold release" => \E j \in 1 .. Len(commands') : commands'[j] = "hold release"
  <2>1. Len(commands) + 1 \in 1 .. Len(commands')
    BY <1>2
  <2> QED
    BY <1>2, <2>1
<1> QED
  BY <1>2, <1>3, <1>4

\* A thread that sets out for its next call, or ends one, leaves to the others what they
\* may still do: either the VPN stays wanted or all who release it are overtaken.
LEMMA CallFacts ==
    ASSUME TypeOK, AsksWhileWanted, NEW t \in Threads, NEW c \in Calls, Calling(t, c),
           t = "management" => c \in {"none", "hold", "post", "bytes", "pause"},
           t = "main" /\ c \in {"resume", "release"} \cup Changes =>
               network' = "SHOULDBECONNECTED",
           t = "main" \/ network' = network,
           c \in {"resume", "network-change"} => Wanted' \/ t \in overtaken',
           overtaken \ {t} \subseteq overtaken',
           (Wanted => Wanted') \/ Releasing \subseteq overtaken'
    PROVE  call' \in [Threads -> Calls] /\ AsksWhileWanted'
<1>0. "main" \in Threads /\ "management" \in Threads
  BY DEF Threads
<1>1. /\ call \in [Threads -> Calls] /\ call' = [call EXCEPT ![t] = c]
      /\ call'[t] = c /\ \A u \in Threads : u # t => call'[u] = call[u]
  BY DEF TypeOK, Calling
<1>2. call' \in [Threads -> Calls]
  BY <1>1
<1>3. call'["management"] \in {"none", "hold", "post", "bytes", "pause"}
  BY <1>0, <1>1 DEF AsksWhileWanted
<1>4. call'["main"] \in {"resume", "release"} \cup Changes => network' = "SHOULDBECONNECTED"
  BY <1>0, <1>1 DEF AsksWhileWanted
<1>5. ASSUME NEW u \in Threads, call'[u] \in {"resume", "network-change"}
      PROVE  Wanted' \/ u \in overtaken'
  <2>1. CASE u = t
    BY <1>1, <1>5, <2>1
  <2>2. CASE u # t
    <3>1. call[u] \in {"resume", "network-change"} /\ u \in Releasing
      BY <1>1, <1>5, <2>2 DEF Releasing, Changes
    <3>2. Wanted \/ u \in overtaken
      BY <3>1 DEF AsksWhileWanted
    <3> QED
      BY <2>2, <3>1, <3>2
  <2> QED
    BY <2>1, <2>2
<1> QED
  BY <1>2, <1>3, <1>4, <1>5 DEF AsksWhileWanted

\* Nor does a step that makes no call, and writes neither field, change that.
LEMMA QuietFacts ==
    ASSUME AsksWhileWanted, UNCHANGED <<call, network, userpause, overtaken>>
    PROVE  AsksWhileWanted'
BY DEF AsksWhileWanted, Wanted

\* Initially the process holds, with its hold unread.
LEMMA InitInv == Init => IInv
<1> SUFFICES ASSUME Init PROVE IInv
  OBVIOUS
<1>1. <<>> \in Seq(Commands)
  OBVIOUS
<1>2. 0 \in 0 .. MaxTimers /\ 1 \in 0 .. MaxHolds
  BY PauseAssumption
<1>3. call \in [Threads -> Calls]
  BY DEF Init, Calls
<1>4. TypeOK
  BY <1>1, <1>2, <1>3 DEF Init, TypeOK, ConnectStates, Lapses
<1>5. ReleaseUnderWay /\ AsksWhileWanted
  BY DEF Init, ReleaseUnderWay, AsksWhileWanted, Threads, Changes
<1> QED
  BY <1>4, <1>5 DEF IInv

\* What the active network does to the receiver's fields and to the main thread.
NetworkChanged ==
    /\ network' \in ConnectStates /\ screen' \in ConnectStates
    /\ userpause' = userpause
    /\ last' \in Networks \cup {"null"} /\ disconnects' \in 0 .. MaxTimers
    /\ Wanted => Wanted'
    /\ \/ call' = call
       \/ \E c \in {"resume"} \cup Changes :
             /\ Calling("main", c) /\ network' = "SHOULDBECONNECTED"
             /\ c \in {"resume", "network-change"} => Wanted'

\* networkStateChange calls for a release, or passes the change on, only if there is a
\* network and the VPN is wanted, but for the network that returns in time.
LEMMA NetworkFacts ==
    ASSUME IInv, networkStateChange
    PROVE  NetworkChanged
<1> USE DEF IInv, TypeOK, ConnectStates, Changes, Calling, Wanted
<1>0. MaxTimers \in Nat \ {0}
  BY PauseAssumption
<1>1. CASE NoNetwork
  BY <1>0, <1>1 DEF NoNetwork, NetworkChanged
<1>2. CASE StillConnecting
  BY <1>2 DEF StillConnecting, NetworkChanged
<1>3. ASSUME NEW n \in Networks, SameNetworkReturns(n)
      PROVE  /\ network' = "SHOULDBECONNECTED" /\ screen' = screen /\ userpause' = userpause
             /\ last' = last /\ disconnects' \in 0 .. MaxTimers
             /\ Calling("main", "network-change samenetwork")
  <2>1. /\ network' = "SHOULDBECONNECTED" /\ screen' = screen /\ userpause' = userpause
        /\ last' = last /\ disconnects' = 0
    BY <1>3 DEF SameNetworkReturns
  <2>2. Calling("main", "network-change samenetwork")
    BY <1>3 DEF SameNetworkReturns
  <2>3. disconnects' \in 0 .. MaxTimers
    BY <1>0, <2>1
  <2> QED
    BY <2>1, <2>2, <2>3
<1>4. ASSUME NEW n \in Networks, OtherNetwork(n)
      PROVE  /\ network' = "SHOULDBECONNECTED" /\ screen' \in ConnectStates
             /\ userpause' = userpause /\ last' = n /\ disconnects' \in 0 .. MaxTimers
             /\ \/ call' = call
                \/ /\ userpause = "SHOULDBECONNECTED"
                   /\ Calling("main", CallFor(n)) /\ CallFor(n) \in {"resume", "network-change"}
  <2>1. network' = "SHOULDBECONNECTED" /\ screen' \in ConnectStates /\ userpause' = userpause /\ last' = n
    BY <1>4 DEF OtherNetwork
  <2>2. CASE shouldBeConnected' /\ disconnects' = 0 /\ Calling("main", CallFor(n))
    BY <1>0, <2>1, <2>2 DEF shouldBeConnected, CallFor
  <2>3. CASE UNCHANGED <<disconnects, call>>
    BY <2>1, <2>3
  <2> QED
    BY <1>4, <2>2, <2>3 DEF OtherNetwork
<1>5. ASSUME NEW n \in Networks, SameNetworkReturns(n) \/ OtherNetwork(n)
      PROVE  NetworkChanged
  <2>1. CASE SameNetworkReturns(n)
    BY <1>3, <2>1 DEF NetworkChanged
  <2>2. CASE OtherNetwork(n)
    BY <1>4, <2>2 DEF NetworkChanged
  <2> QED
    BY <1>5, <2>1, <2>2
<1> QED
  BY <1>1, <1>2, <1>5 DEF networkStateChange, NetworkChanged

\* The handlers of the main thread keep the invariant.
LEMMA HandlersInv ==
    ASSUME IInv, Idle("main"),
           register \/ onNetwork \/ delayDisconnect \/ screenOff \/ screenOn
    PROVE  IInv'
<1> USE DEF IInv
<1>0. /\ MaxTimers \in Nat \ {0} /\ call["main"] = "none"
      /\ "main" \in Threads /\ "main" \notin Binders
  BY PauseAssumption DEF Idle, Threads
<1>1. CASE register \/ onNetwork
  <2>1. networkStateChange /\ registered' \in BOOLEAN /\ UNCHANGED <<management, holds, process, history>>
    BY <1>1 DEF register, onNetwork, TypeOK
  <2>2. call' \in [Threads -> Calls] /\ AsksWhileWanted'
    <3>1. CASE call' = call
      <4>1. call' = [call EXCEPT !["main"] = "none"]
        BY <1>0, <3>1 DEF TypeOK
      <4> QED
        BY <1>0, <2>1, <4>1, NetworkFacts, CallFacts
           DEF NetworkChanged, Calling, Calls, Changes, Threads, history
    <3>2. ASSUME NEW c \in {"resume"} \cup Changes, Calling("main", c),
                 network' = "SHOULDBECONNECTED",
                 c \in {"resume", "network-change"} => Wanted'
          PROVE  call' \in [Threads -> Calls] /\ AsksWhileWanted'
      BY <1>0, <2>1, <3>2, NetworkFacts, CallFacts DEF NetworkChanged, Calls, Changes, history
    <3> QED
      BY <2>1, <3>1, <3>2, NetworkFacts DEF NetworkChanged
  <2>3. TypeOK'
    BY <2>1, <2>2, NetworkFacts DEF TypeOK, management, history, NetworkChanged
  <2>4. ReleaseUnderWay'
    BY <2>1 DEF ReleaseUnderWay, Holding, management
  <2> QED
    BY <2>2, <2>3, <2>4
<1>2. CASE delayDisconnect
  <2>1. /\ UNCHANGED <<registered, userpause, last, management, holds, process, lapse>>
        /\ disconnects' \in 0 .. MaxTimers
    BY <1>0, <1>2 DEF delayDisconnect, Posted, TypeOK
  <2>2. CASE network = "PENDINGDISCONNECT"
    <3>1. /\ network' = "DISCONNECTED" /\ screen' \in ConnectStates /\ Calling("main", "pause")
          /\ overtaken' = overtaken \cup Releasing
      BY <1>2, <2>2 DEF delayDisconnect, GiveUp, TypeOK, ConnectStates
    <3>2. call' \in [Threads -> Calls] /\ AsksWhileWanted'
      BY <1>0, <2>1, <3>1, CallFacts DEF Calls, Changes
    <3> QED
      BY <2>1, <3>1, <3>2 DEF TypeOK, ConnectStates, Releasing, ReleaseUnderWay, Holding, management
  <2>3. CASE UNCHANGED <<network, screen, call, overtaken>>
    BY <2>1, <2>3, QuietFacts DEF TypeOK, ReleaseUnderWay, Holding, management
  <2> QED
    BY <1>2, <2>2, <2>3 DEF delayDisconnect
<1>3. CASE screenOff
  BY <1>3, QuietFacts DEF screenOff, TypeOK, ConnectStates, ReleaseUnderWay, Holding, management, history
<1>4. CASE screenOn
  <2>1. \/ call' = call \/ Calling("main", "pause")
        \/ Calling("main", "resume") /\ shouldBeConnected'
    <3>1. CASE shouldBeConnected' # shouldBeConnected /\ Calling("main", "resume")
      <4>1. shouldBeConnected => shouldBeConnected'
        BY <1>4 DEF screenOn, shouldBeConnected
      <4>2. shouldBeConnected \in BOOLEAN /\ shouldBeConnected' \in BOOLEAN
        BY DEF shouldBeConnected
      <4>3. CASE shouldBeConnected'
        BY <3>1, <4>3
      <4>4. CASE ~shouldBeConnected'
        <5>1. shouldBeConnected = FALSE /\ shouldBeConnected' = FALSE
          BY <4>1, <4>2, <4>4
        <5> QED
          BY <3>1, <5>1
      <4> QED
        BY <4>3, <4>4
    <3>2. CASE Calling("main", "pause") \/ call' = call
      BY <3>2
    <3> QED
      BY <1>4, <3>1, <3>2 DEF screenOn
  <2>2. /\ screen' = "SHOULDBECONNECTED" /\ disconnects' = 0
        /\ UNCHANGED <<registered, network, userpause, last, management, holds, process, history>>
    BY <1>4 DEF screenOn
  <2>3. call' \in [Threads -> Calls] /\ AsksWhileWanted'
    <3>1. CASE call' = call
      BY <2>2, <3>1, QuietFacts DEF TypeOK, history
    <3>2. CASE Calling("main", "pause")
      BY <1>0, <2>2, <3>2, CallFacts DEF Calls, Changes, Wanted, history
    <3>3. CASE Calling("main", "resume") /\ shouldBeConnected'
      BY <1>0, <2>2, <3>3, CallFacts DEF Calls, Changes, Wanted, shouldBeConnected, history
    <3> QED
      BY <2>1, <3>1, <3>2, <3>3
  <2>4. TypeOK'
    BY <1>0, <2>2, <2>3 DEF TypeOK, ConnectStates, management, history
  <2>5. ReleaseUnderWay'
    BY <2>2 DEF ReleaseUnderWay, Holding, management
  <2> QED
    BY <2>3, <2>4, <2>5
<1> QED
  BY <1>1, <1>2, <1>3, <1>4

\* So do the user's pause and resume, on any binder thread, and the byte counts.
LEMMA PauseInv ==
    ASSUME IInv, updateByteCount \/ tooLittleTraffic \/ \E t \in Binders : userPause(t)
    PROVE  IInv'
<1> USE DEF IInv
<1>0. "management" \in Threads /\ "management" \notin Binders
  BY PauseAssumption DEF Threads
<1>1. CASE updateByteCount
  <2>1. Calling("management", "bytes") /\ UNCHANGED <<receiver, management, holds, process, history>>
    BY <1>1 DEF updateByteCount
  <2>2. call' \in [Threads -> Calls] /\ AsksWhileWanted'
    BY <1>0, <2>1, CallFacts DEF Calls, Wanted, receiver, history
  <2> QED
    BY <2>1, <2>2 DEF TypeOK, ReleaseUnderWay, Holding, receiver, management, history
<1>2. CASE tooLittleTraffic
  <2>1. /\ Calling("management", "pause") /\ screen' = "DISCONNECTED"
        /\ UNCHANGED <<registered, network, userpause, last, disconnects, management,
                       holds, process, history>>
    BY <1>2 DEF tooLittleTraffic
  <2>2. call' \in [Threads -> Calls] /\ AsksWhileWanted'
    BY <1>0, <2>1, CallFacts DEF Calls, Wanted, history
  <2> QED
    BY <2>1, <2>2 DEF TypeOK, ConnectStates, ReleaseUnderWay, Holding, management, history
<1>3. ASSUME NEW t \in Binders, userPause(t) PROVE IInv'
  <2>1. /\ userpause' \in {"SHOULDBECONNECTED", "DISCONNECTED"}
        /\ UNCHANGED <<registered, network, screen, last, disconnects, management,
                       holds, process, lapse>>
        /\ \/ Calling(t, "pause") /\ overtaken' = overtaken \cup Releasing
           \/ /\ Calling(t, "pause") \/ Calling(t, "ask")
              /\ userpause' = "SHOULDBECONNECTED" /\ UNCHANGED overtaken
    BY <1>3 DEF userPause
  <2>2. t \in Threads /\ t # "main" /\ t # "management"
    BY PauseAssumption DEF Threads
  <2>3. call' \in [Threads -> Calls] /\ AsksWhileWanted'
    <3>1. \/ overtaken' = overtaken \cup Releasing
          \/ (Wanted => Wanted') /\ overtaken' = overtaken
      BY <2>1 DEF Wanted
    <3>2. ASSUME NEW c \in {"pause", "ask"}, Calling(t, c)
          PROVE  call' \in [Threads -> Calls] /\ AsksWhileWanted'
      BY <2>1, <2>2, <3>1, <3>2, CallFacts DEF Calls
    <3> QED
      BY <2>1, <3>2
  <2>4. TypeOK'
    BY <2>1, <2>3 DEF TypeOK, Releasing, management
  <2>5. ReleaseUnderWay'
    BY <2>1 DEF ReleaseUnderWay, Holding, management
  <2> QED
    BY <2>3, <2>4, <2>5
<1> QED
  BY <1>1, <1>2, <1>3

\* So do the calls of OpenVpnManagementThread and its runnable.
LEMMA ManagementInv ==
    ASSUME IInv, resumeHold \/ handleHold \/ \E t \in Threads : Management(t)
    PROVE  IInv'
<1> USE DEF IInv
<1>0. "none" \in Calls /\ "release" \in Calls
  BY DEF Calls
<1>1. ASSUME NEW t \in Threads, pause(t) PROVE IInv'
  <2>1. /\ commands' \in Seq(Commands) /\ UNCHANGED <<receiver, waiting, holds, process>>
        /\ (\E i \in 1 .. Len(commands) : commands[i] = "hold release") =>
              \E i \in 1 .. Len(commands') : commands'[i] = "hold release"
    BY <1>1, SendFacts DEF pause, Commands, TypeOK
  <2>2. /\ Calling(t, "none") /\ holdTimers' = 0 /\ lapse' \in Lapses
        /\ overtaken' = overtaken
    BY <1>1 DEF pause, TypeOK, Lapses
  <2>3. call' \in [Threads -> Calls] /\ AsksWhileWanted'
    BY <1>0, <2>1, <2>2, CallFacts DEF Changes, Wanted, receiver
  <2>4. TypeOK'
    BY <2>1, <2>2, <2>3 DEF TypeOK, receiver
  <2>5. ReleaseUnderWay'
    BY <2>1 DEF ReleaseUnderWay, Holding
  <2> QED
    BY <2>3, <2>4, <2>5
<1>2. ASSUME NEW t \in Threads, resume(t) PROVE IInv'
  <2>0. /\ call[t] \in {"resume"} \cup Changes /\ (beginRelease(t) \/ passOn(t))
        /\ UNCHANGED <<receiver, waiting, holds, process, lapse>>
    BY <1>2 DEF resume
  <2>1. CASE beginRelease(t)
    <3>0. waiting /\ Calling(t, "release") /\ holdTimers' = 0 /\ UNCHANGED <<commands, overtaken>>
      BY <2>1 DEF beginRelease
    <3>1. call' \in [Threads -> Calls] /\ AsksWhileWanted'
      <4>1. t # "management"
        BY <2>0 DEF AsksWhileWanted, Changes
      <4>2. t = "main" => network' = "SHOULDBECONNECTED"
        BY <2>0 DEF AsksWhileWanted, Changes, receiver
      <4> QED
        BY <1>0, <2>0, <3>0, <4>1, <4>2, CallFacts DEF Wanted, receiver
    <3>2. TypeOK'
      BY <2>0, <3>0, <3>1 DEF TypeOK, receiver
    <3>3. ReleaseUnderWay'
      BY <2>0, <3>0 DEF ReleaseUnderWay
    <3> QED
      BY <3>1, <3>2, <3>3
  <2>2. CASE passOn(t)
    <3>0. /\ Calling(t, "none") /\ UNCHANGED holdTimers /\ overtaken' = overtaken \ {t}
          /\ IF call[t] = "resume" THEN UNCHANGED commands ELSE Send(call[t])
      BY <2>2 DEF passOn
    <3>1. /\ commands' \in Seq(Commands)
          /\ (\E i \in 1 .. Len(commands) : commands[i] = "hold release") =>
                \E i \in 1 .. Len(commands') : commands'[i] = "hold release"
      BY <2>0, <3>0, SendFacts DEF TypeOK, Changes, Commands
    <3>2. call' \in [Threads -> Calls] /\ AsksWhileWanted'
      BY <1>0, <2>0, <3>0, CallFacts DEF Changes, Wanted, receiver
    <3>3. TypeOK'
      BY <2>0, <3>0, <3>1, <3>2 DEF TypeOK, receiver
    <3>4. ReleaseUnderWay'
      BY <2>0, <3>1 DEF ReleaseUnderWay, Holding
    <3> QED
      BY <3>2, <3>3, <3>4
  <2> QED
    BY <2>0, <2>1, <2>2
<1>3. ASSUME NEW t \in Threads, releaseHoldCmd(t) PROVE IInv'
  <2>1. /\ commands' \in Seq(Commands)
        /\ \E i \in 1 .. Len(commands') : commands'[i] = "hold release"
    BY <1>3, SendFacts DEF releaseHoldCmd, Commands
  <2>2. /\ Calling(t, "none") /\ waiting' = FALSE /\ lapse' \in Lapses
        /\ overtaken' = overtaken \ {t} /\ UNCHANGED <<receiver, holdTimers, holds, process>>
    BY <1>3 DEF releaseHoldCmd, Lapses
  <2>3. call' \in [Threads -> Calls] /\ AsksWhileWanted'
    BY <1>0, <2>2, CallFacts DEF Changes, Wanted, receiver
  <2>4. TypeOK'
    BY <2>1, <2>2, <2>3 DEF TypeOK, receiver
  <2>5. ReleaseUnderWay'
    BY <2>1 DEF ReleaseUnderWay
  <2> QED
    BY <2>3, <2>4, <2>5
<1>4. ASSUME NEW t \in Threads, asksAgain(t) PROVE IInv'
  <2>1. /\ call[t] = "ask" /\ UNCHANGED <<receiver, management, holds, process, history>>
        /\ \/ Calling(t, "pause")
           \/ Calling(t, "resume") /\ shouldBeConnected
    BY <1>4 DEF asksAgain
  <2>2. call' \in [Threads -> Calls] /\ AsksWhileWanted'
    <3>1. CASE Calling(t, "pause")
      BY <2>1, <3>1, CallFacts DEF Calls, Changes, Wanted, receiver, history
    <3>2. CASE Calling(t, "resume") /\ shouldBeConnected
      <4>1. /\ network' = "SHOULDBECONNECTED" /\ network' = network
            /\ Wanted' /\ overtaken' = overtaken
        BY <2>1, <3>2 DEF shouldBeConnected, Wanted, receiver, history
      <4>2. t # "management"
        BY <2>1 DEF AsksWhileWanted
      <4>3. "resume" \in Calls
        BY DEF Calls
      <4> QED
        BY <3>2, <4>1, <4>2, <4>3, CallFacts
    <3> QED
      BY <2>1, <3>1, <3>2
  <2>3. TypeOK' /\ ReleaseUnderWay'
    BY <2>1, <2>2 DEF TypeOK, ReleaseUnderWay, Holding, receiver, management, history
  <2> QED
    BY <2>2, <2>3
<1>5. CASE resumeHold
  <2>0. "main" \in Threads /\ "main" \notin Binders
    BY PauseAssumption DEF Threads
  <2>1. UNCHANGED <<receiver, waiting, commands, holds, process, history>>
    BY <1>5 DEF resumeHold
  <2>2. CASE holdTimers' = 0 /\ Calling("main", "release") /\ shouldBeConnected
    <3>1. call' \in [Threads -> Calls] /\ AsksWhileWanted'
      BY <1>0, <2>0, <2>1, <2>2, CallFacts DEF shouldBeConnected, Wanted, Changes, receiver, history
    <3> QED
      BY <2>1, <2>2, <3>1 DEF TypeOK, ReleaseUnderWay, Holding, receiver, history
  <2>3. CASE holdTimers > 0 /\ holdTimers' = holdTimers - 1 /\ UNCHANGED call
    <3>1. AsksWhileWanted'
      BY <2>1, <2>3, QuietFacts DEF receiver, history
    <3>2. holdTimers \in Nat => holdTimers' \in Nat
      BY <2>3
    <3> QED
      BY <2>1, <2>3, <3>1, <3>2 DEF TypeOK, ReleaseUnderWay, Holding, receiver, history
  <2> QED
    BY <1>5, <2>2, <2>3 DEF resumeHold, ReleaseDue
<1>6. CASE handleHold
  <2>1. UNCHANGED <<receiver, commands, process, history>>
    BY <1>6 DEF handleHold, management
  <2>2. holds' \in 0 .. MaxHolds
    BY <1>6, PauseAssumption DEF handleHold, TypeOK, management
  <2>3. waiting' \in BOOLEAN
    <3>1. waiting' = TRUE \/ waiting' = waiting
      BY <1>6, Zenon DEF handleHold, management
    <3>2. waiting \in BOOLEAN
      BY DEF TypeOK
    <3> QED
      BY <3>1, <3>2, Zenon
  <2>4. holdTimers' \in Nat
    <3>1. holdTimers' = holdTimers \/ holdTimers' = holdTimers + 1
      BY <1>6 DEF handleHold, management
    <3>2. holdTimers \in Nat
      BY DEF TypeOK
    <3> HIDE DEF IInv
    <3> QED
      BY <3>1, <3>2
  <2>5. call' \in [Threads -> Calls] /\ AsksWhileWanted'
    <3>1. \E c \in {"none", "hold", "post"} : Calling("management", c)
      BY <1>6 DEF handleHold
    <3>2. PICK c \in {"none", "hold", "post"} : Calling("management", c)
      BY <3>1
    <3>3. "management" \in Threads /\ "management" \notin Binders /\ c \in Calls
      BY PauseAssumption DEF Threads, Calls
    <3> QED
      BY <2>1, <3>2, <3>3, CallFacts DEF Wanted, receiver, history
  <2>6. TypeOK'
    BY <2>1, <2>2, <2>3, <2>4, <2>5 DEF TypeOK, receiver, history
  <2>7. ReleaseUnderWay'
    BY <1>6 DEF handleHold, ReleaseUnderWay, Holding, management
  <2> QED
    BY <2>5, <2>6, <2>7
<1> QED
  BY <1>1, <1>2, <1>3, <1>4, <1>5, <1>6 DEF Management

\* So does the process: while it holds it passes over no release, and each hold is
\* announced.
LEMMA ProcessInv ==
    ASSUME IInv, processReads \/ processRestarts \/ processHolds
    PROVE  IInv'
<1> USE DEF IInv
<1>1. CASE processReads
  <2>1. /\ commands # <<>> /\ commands' = Tail(commands)
        /\ UNCHANGED <<receiver, call, waiting, holdTimers, holds, history>>
    BY <1>1 DEF processReads
  <2>2. /\ commands \in Seq(Commands) /\ Len(commands) \in Nat /\ Len(commands) > 0
        /\ Head(commands) = commands[1]
        /\ commands' \in Seq(Commands) /\ Len(commands') = Len(commands) - 1
        /\ \A i \in 1 .. Len(commands) - 1 : commands'[i] = commands[i + 1]
    BY <2>1, SocketFacts DEF TypeOK
  <2>3. process' \in {"first", "hold", "run", "restart"}
    BY <1>1 DEF processReads, TypeOK
  <2>4. TypeOK'
    BY <2>1, <2>2, <2>3 DEF TypeOK, receiver, history
  <2>5. Holding' => Holding /\ Head(commands) # "hold release"
    BY <1>1 DEF processReads, Holding, TypeOK
  <2>6. ReleaseUnderWay'
    <3> SUFFICES ASSUME Holding', holds' = 0, ~waiting'
                 PROVE  \E i \in 1 .. Len(commands') : commands'[i] = "hold release"
      BY DEF ReleaseUnderWay
    <3>1. PICK i \in 1 .. Len(commands) : commands[i] = "hold release"
      BY <2>1, <2>5 DEF ReleaseUnderWay
    <3>2. i # 1
      BY <2>2, <2>5, <3>1
    <3>3. i - 1 \in 1 .. Len(commands') /\ commands'[i - 1] = commands[i]
      BY <2>2, <3>2
    <3> QED
      BY <3>1, <3>3
  <2>7. AsksWhileWanted'
    BY <2>1, QuietFacts DEF receiver, history
  <2> QED
    BY <2>4, <2>6, <2>7
<1>2. CASE processRestarts
  <2>1. TypeOK' /\ AsksWhileWanted'
    BY <1>2, QuietFacts DEF processRestarts, TypeOK, receiver, management, history
  <2>2. ReleaseUnderWay'
    BY <1>2 DEF processRestarts, ReleaseUnderWay, Holding
  <2> QED
    BY <2>1, <2>2
<1>3. CASE processHolds
  <2>1. /\ holds' = holds + 1 /\ holds' \in 0 .. MaxHolds /\ process' = "hold"
        /\ UNCHANGED <<receiver, call, management, history>>
    BY <1>3, PauseAssumption DEF processHolds, TypeOK
  <2>2. TypeOK' /\ AsksWhileWanted'
    BY <2>1, QuietFacts DEF TypeOK, receiver, management, history
  <2>3. holds' # 0
    BY <2>1 DEF TypeOK
  <2>4. ReleaseUnderWay'
    BY <2>3 DEF ReleaseUnderWay
  <2> QED
    BY <2>2, <2>4
<1> QED
  BY <1>1, <1>2, <1>3

\* Every step keeps the invariant.
LEMMA StepInv == IInv /\ [Next]_vars => IInv'
<1> SUFFICES ASSUME IInv, [Next]_vars PROVE IInv'
  OBVIOUS
<1>1. CASE Working
  BY <1>1, ManagementInv, PauseInv, ProcessInv DEF Working
<1>2. CASE Events
  <2>1. CASE register \/ onNetwork \/ delayDisconnect \/ screenOff \/ screenOn
    <3>1. Idle("main")
      BY <2>1 DEF register, onNetwork, delayDisconnect, screenOff, screenOn
    <3> QED
      BY <2>1, <3>1, HandlersInv
  <2>2. CASE updateByteCount \/ \E t \in Binders : userPause(t)
    BY <2>2, PauseInv
  <2>3. CASE processRestarts
    BY <2>3, ProcessInv
  <2> QED
    BY <1>2, <2>1, <2>2, <2>3 DEF Events
<1>3. CASE UNCHANGED vars
  <2>1. TypeOK' /\ ReleaseUnderWay'
    BY <1>3 DEF IInv, TypeOK, ReleaseUnderWay, Holding, vars, receiver, management, history
  <2>2. AsksWhileWanted'
    BY <1>3, QuietFacts DEF IInv, vars, receiver, history
  <2> QED
    BY <2>1, <2>2 DEF IInv
<1> QED
  BY <1>1, <1>2, <1>3 DEF Next

\* The invariant holds in every reachable state, fair or not.
THEOREM Inductive == Spec => []IInv
<1> QED
  BY InitInv, StepInv, PTL DEF Spec

\* Every field, timer and message of the pausing code has its type and its bound:
\* no timer is removed that was not posted, and no two losses post beyond MaxTimers.
THEOREM TypeCorrect == Spec => []TypeOK
<1>1. IInv => TypeOK
  BY DEF IInv
<1> QED
  BY <1>1, Inductive, PTL

\* A process that holds, with nothing on its way, is known to hold
\* (handleHold, releaseHoldCmd, signalusr1), however pauses, resumes and networks
\* of any threads interleave.
THEOREM HoldKnown == Spec => []HoldIsKnown
<1>1. IInv => HoldIsKnown
  <2> SUFFICES ASSUME IInv, commands = <<>>, holds = 0, Holding PROVE waiting
    BY DEF HoldIsKnown
  <2>1. Len(commands) = 0
    OBVIOUS
  <2> QED
    BY <2>1 DEF IInv, ReleaseUnderWay
<1> QED
  BY <1>1, Inductive, PTL

\* What a step turns into a release is wanted, overtaken, or not asked about.
LEMMA ReleaseStep ==
    ASSUME IInv, [Next]_vars, NEW t \in Threads, call[t] # "release", call'[t] = "release"
    PROVE  \/ Wanted
           \/ t \in overtaken /\ (t = "main" => network = "SHOULDBECONNECTED")
           \/ call[t] = "network-change samenetwork"
<1> USE DEF IInv
<1>0. call \in [Threads -> Calls]
  BY DEF TypeOK
<1>1. CASE resumeHold
  <2>1. shouldBeConnected
    BY <1>0, <1>1 DEF resumeHold, ReleaseDue, Calling
  <2> QED
    BY <2>1 DEF shouldBeConnected, Wanted
<1>2. ASSUME NEW u \in Threads, resume(u)
      PROVE  \/ Wanted
             \/ t \in overtaken /\ (t = "main" => network = "SHOULDBECONNECTED")
             \/ call[t] = "network-change samenetwork"
  <2>1. t = u /\ call[t] \in {"resume"} \cup Changes
    BY <1>0, <1>2 DEF resume, beginRelease, passOn, Calling
  <2> QED
    BY <2>1 DEF AsksWhileWanted, Changes
<1>3. ASSUME NEW u \in Threads, pause(u) \/ releaseHoldCmd(u) \/ asksAgain(u) PROVE FALSE
  BY <1>0, <1>3 DEF pause, releaseHoldCmd, asksAgain, Calling
<1>4. CASE handleHold \/ tooLittleTraffic \/ updateByteCount
  BY <1>0, <1>4 DEF handleHold, tooLittleTraffic, updateByteCount, Calling
<1>5. CASE processReads \/ processHolds \/ processRestarts
  BY <1>5 DEF processReads, processHolds, processRestarts
<1>6. CASE register \/ onNetwork
  <2>1. networkStateChange
    BY <1>6 DEF register, onNetwork
  <2> QED
    BY <1>0, <2>1, NetworkFacts DEF NetworkChanged, Calling, Changes
<1>7. CASE delayDisconnect
  BY <1>0, <1>7 DEF delayDisconnect, GiveUp, Calling
<1>8. CASE screenOff \/ screenOn
  BY <1>0, <1>8 DEF screenOff, screenOn, Calling
<1>9. ASSUME NEW u \in Binders, userPause(u) PROVE FALSE
  BY <1>0, <1>9 DEF userPause, Calling
<1>10. CASE UNCHANGED vars
  BY <1>10 DEF vars
<1> QED
  BY <1>1, <1>2, <1>3, <1>4, <1>5, <1>6, <1>7, <1>8, <1>9, <1>10 DEF Next, Working, Events, Management

\* Releases are wanted, as ReleasedOnlyIfWanted says, for any networks, threads and
\* bounds, wherever the user's pauses and resumes come between the question of one
\* thread and its release (mResumeHoldRunnable, networkStateChange, screenOn,
\* userPause, releaseHoldCmd).
THEOREM ReleasedWanted == Spec => ReleasedOnlyIfWanted
<1>1. IInv /\ [Next]_vars =>
         [\A t \in Threads : call[t] # "release" /\ call'[t] = "release" =>
             \/ Wanted
             \/ t \in overtaken /\ (t = "main" => network = "SHOULDBECONNECTED")
             \/ call[t] = "network-change samenetwork"]_vars
  BY ReleaseStep
<1> QED
  BY <1>1, Inductive, PTL DEF Spec, ReleasedOnlyIfWanted

=============================================================================
