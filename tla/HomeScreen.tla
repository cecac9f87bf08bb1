----------------------------- MODULE HomeScreen -----------------------------
(***************************************************************************)
(* The home screen (app/, ZZ.kt) and the words by which it learns what the *)
(* two VPN engines are in: the Shadowsocks service of :bg, bound through   *)
(* ShadowsocksConnection, and the OpenVPN service of :openvpn, bound       *)
(* through ExternalOpenVPNService.                                         *)
(*                                                                         *)
(* A click shows a countdown and, two seconds later, connects or           *)
(* disconnects, whichever saoState then asks for.  What the screen shows   *)
(* afterwards is what the last word it obeyed said, of whichever engine.   *)
(* The process of the screen and those of the engines are three; words     *)
(* travel between them in order but take their time, commands to :bg       *)
(* travel as intents, those to :openvpn are calls.                         *)
(*                                                                         *)
(* The engines are no more here than what they tell and are told;          *)
(* SsService and OvpnService have their insides.  Left out: the permission *)
(* dialog and the other ways not to start a countdown, the result page,    *)
(* the timer, the speeds, and protocolValueKey, which may have either      *)
(* value when a countdown ends.  A screen that is left and returned to     *)
(* without being destroyed takes no click in between; onStop is all that   *)
(* is modelled of it.                                                      *)
(***************************************************************************)
EXTENDS Integers, Sequences, ServiceStates

CONSTANTS
    MaxGestures,  \* bound: what the user and the system do to the screen, and
                  \* to a service that is stopped
    MaxCrashes,   \* bound: how often :bg or :openvpn is killed
    MaxWords      \* bound: words of OpenVPN's on their way

ASSUME HomeAssumption ==
    MaxGestures \in Nat /\ MaxCrashes \in Nat /\ MaxWords \in Nat

VARIABLES
    saoState,     \* ZZZ: the screen takes the VPN for connected
    saoClick,     \* ZZZ: 0 connecting, 2 disconnecting, -1 left or destroyed
    nowVpnUI,     \* ZZZ: shown as 0 disconnected, 1 counting down, 2 connected
    stopConnect,  \* ZZ: the countdown is called off
    countdowns,   \* coroutines of startVpn in their delay
    opening,      \* coroutines of openVTool
    bound,        \* ShadowsocksConnection: "unbound", "reads" or "bound"
    ssInbox,      \* stateChanged words on the screen's main thread
    mService,     \* ZZ: "null", "tells", "registered" or, when it died, "dead"
    inbox,        \* newStatus words on the screen's main thread
    state,        \* BaseService.Data.state in :bg
    next,         \* what changeState has announced and not assigned, or "none"
    starts,       \* startService intents on their way
    closes,       \* CLOSE broadcasts on their way
    status,       \* ExternalOpenVPNService.mMostRecentState
    told,         \* the OpenVPN session is told to stop
    posts,        \* mHandler: SEND_TOALL messages
    speaker,      \* history: whose word is shown, "ss", "ovpn" or "none"
    missed,       \* history: what the screen does not know of, see below
    gestures,
    crashes

globals == <<saoState, saoClick, nowVpnUI>>
activity == <<stopConnect, countdowns, opening>>
words == <<ssInbox, inbox>>
bindings == <<bound, mService>>
bg == <<state, next, starts, closes>>
openvpn == <<status, told, posts>>
history == <<speaker, missed>>
bounds == <<gestures, crashes>>
vars == <<globals, activity, words, bindings, bg, openvpn, history, bounds>>

\* What BaseService.State the screen acts upon, and what OpenVPN states.
\* "busy" is every state that newStatus ignores.
SsWords == {"Connected", "Stopped"}
Statuses == {"NOPROCESS", "busy", "CONNECTED", "RECONNECTING"}

\* Main is in neither onServiceConnected, which call another process and wait.
Free == bound # "reads" /\ mService # "tells"

isConnecting == saoClick = 0 /\ nowVpnUI = 1
isDisConnecting == saoClick = 2 /\ nowVpnUI = 1

Init ==
    /\ saoState = FALSE /\ saoClick = -1 /\ nowVpnUI = 0
    /\ stopConnect = FALSE /\ countdowns = 0 /\ opening = 0
    /\ bound = "unbound" /\ ssInbox = <<>>
    /\ mService = "null" /\ inbox = <<>>
    /\ state \in SsWords /\ next = "none" /\ starts = 0 /\ closes = 0
    /\ status \in {"NOPROCESS", "CONNECTED"} /\ told = FALSE /\ posts = <<>>
    /\ speaker = "none" /\ missed = {}
    /\ gestures = 0 /\ crashes = 0

-----------------------------------------------------------------------------
(* What several handlers do.                                               *)

\* A word is obeyed: saoState and setTypeService.
Obey(who, connected) ==
    /\ saoState' = connected
    /\ nowVpnUI' = IF connected THEN 2 ELSE 0
    /\ speaker' = who
    /\ missed' = missed \ {who}

\* mService?.disconnect().  What stopVPN reaches is a process that is
\* connected to its management socket, which one that is starting may not be;
\* ExternalOpenVPNService has bound OpenVPNService by then.
Disconnect ==
    /\ mService # "dead"
    /\ \/ mService # "null" /\ status # "NOPROCESS" /\ told' = TRUE
       \/ mService = "null" /\ UNCHANGED told
       \/ status \in {"NOPROCESS", "busy"} /\ UNCHANGED told

\* The process of the app ends, and starts again with the next gesture.
AppDies ==
    /\ saoState' = FALSE /\ saoClick' = -1 /\ nowVpnUI' = 0
    /\ stopConnect' = FALSE /\ countdowns' = 0 /\ opening' = 0
    /\ bound' = "unbound" /\ ssInbox' = <<>>
    /\ mService' = "null" /\ inbox' = <<>>
    /\ speaker' = "none" /\ missed' = {}

Gesture == Free /\ gestures < MaxGestures /\ gestures' = gestures + 1

-----------------------------------------------------------------------------
(* The user and the system at the screen.                                  *)

\* startCountdown, from a click, the dialog of a switch of protocol, or the
\* return from the list of servers.
StartCountdown ==
    /\ Gesture
    /\ nowVpnUI # 1
    /\ nowVpnUI' = 1
    /\ saoClick' = IF saoState THEN 2 ELSE 0
    /\ stopConnect' = FALSE
    /\ countdowns' = countdowns + 1
    /\ missed' = missed \ {"start"}
    /\ UNCHANGED <<saoState, opening, words, bindings, bg, openvpn, speaker,
                   crashes>>

\* Mutant: the countdown that is called off stays on the screen.
CallOffUnseen ==
    /\ Gesture
    /\ isDisConnecting
    /\ stopConnect' = TRUE
    /\ UNCHANGED <<globals, countdowns, opening, words, bindings, bg, openvpn,
                   history, crashes>>

\* limitClickActions, back, and onStop: a disconnect is called off.
CallOff ==
    /\ Gesture
    /\ isDisConnecting
    /\ stopConnect' = TRUE
    /\ nowVpnUI' = 2
    /\ UNCHANGED <<saoState, saoClick, countdowns, opening, words, bindings,
                   bg, openvpn, history, crashes>>

\* onStop while the screen connects.
Leave ==
    /\ Gesture
    /\ isConnecting
    /\ Disconnect
    /\ closes' = closes + 1
    /\ stopConnect' = TRUE /\ nowVpnUI' = 0 /\ saoClick' = -1
    /\ UNCHANGED <<saoState, countdowns, opening, words, bindings, state, next,
                   starts, status, posts, history, crashes>>

\* onStop, onDestroy and the onCreate of another ZZ.  The globals stay, and so
\* do words of stateChanged that are on Main already; coroutines of the old
\* ZZ end with it, newStatus's among them.  onStop leaves no countdown shown;
\* that openVTool runs all this while is left out.
Recreate ==
    /\ Gesture
    /\ nowVpnUI # 1 /\ opening = 0
    /\ mService # "dead"
    /\ saoClick' = -1
    /\ stopConnect' = FALSE /\ countdowns' = 0
    /\ bound' = "unbound" /\ mService' = "null" /\ inbox' = <<>>
    /\ \E n \in 0 .. Len(ssInbox) : ssInbox' = SubSeq(ssInbox, 1, n)
    /\ UNCHANGED <<saoState, nowVpnUI, opening, bg, openvpn, history, crashes>>

\* exitProcess from back, or the system needs the memory.
Exit ==
    /\ Gesture
    /\ AppDies
    /\ UNCHANGED <<bg, openvpn, crashes>>

-----------------------------------------------------------------------------
(* The coroutines.                                                         *)

\* startVpn after its delay.
CountdownEnds == Free /\ countdowns > 0 /\ countdowns' = countdowns - 1

CalledOff ==
    /\ CountdownEnds
    /\ stopConnect
    /\ UNCHANGED <<globals, stopConnect, opening, words, bindings, bg, openvpn,
                   history, bounds>>

\* connectHowVpn, for either protocol.
ConnectSs ==
    /\ CountdownEnds
    /\ ~stopConnect /\ ~saoState
    /\ starts' = starts + 1
    /\ UNCHANGED <<globals, stopConnect, opening, words, bindings, state, next,
                   closes, openvpn, history, bounds>>

ConnectOvpn ==
    /\ CountdownEnds
    /\ ~stopConnect /\ ~saoState
    /\ opening' = opening + 1
    /\ UNCHANGED <<globals, stopConnect, words, bindings, bg, openvpn, history,
                   bounds>>

\* Mutant: only OpenVPN is told to stop.
DisconnectOvpn ==
    /\ CountdownEnds
    /\ ~stopConnect /\ saoState
    /\ Disconnect
    /\ UNCHANGED <<globals, stopConnect, opening, words, bindings, bg, status,
                   posts, history, bounds>>

disConnectHowVpn ==
    /\ CountdownEnds
    /\ ~stopConnect /\ saoState
    /\ closes' = closes + 1
    /\ Disconnect
    /\ UNCHANGED <<globals, stopConnect, opening, words, bindings, state, next,
                   starts, status, posts, history, bounds>>

\* openVTool, on a thread of its own.
OpenVTool ==
    /\ opening > 0
    /\ opening' = opening - 1
    /\ mService \in {"tells", "registered"}
    /\ status' = "busy" /\ told' = FALSE
    /\ UNCHANGED <<globals, stopConnect, countdowns, words, bindings, bg,
                   posts, history, bounds>>

\* Whatever fails in it is dropped, and so does nothing happen without
\* mService; the session may also have to ask the user, in LaunchVPN, who
\* declines.
OpenVToolFails ==
    /\ opening > 0
    /\ opening' = opening - 1
    /\ missed' = missed \cup {"start"}
    /\ UNCHANGED <<globals, stopConnect, countdowns, words, bindings, bg,
                   openvpn, speaker, bounds>>

\* disconnect and unregisterStatusCallback of a process that is gone throw, and
\* nothing catches it: in onStop, in onDestroy, in the countdown, which has
\* sent CLOSE by then, and in newStatus.
DisconnectThrows ==
    /\ Free /\ mService = "dead"
    /\ AppDies
    /\ \/ /\ Gesture
          /\ isConnecting \/ (nowVpnUI # 1 /\ opening = 0)
          /\ UNCHANGED closes
       \/ /\ countdowns > 0 /\ ~stopConnect /\ saoState
          /\ closes' = closes + 1
          /\ UNCHANGED gestures
       \/ /\ inbox # <<>> /\ Head(inbox) = "RECONNECTING"
          /\ UNCHANGED <<closes, gestures>>
    /\ UNCHANGED <<state, next, starts, openvpn, crashes>>

-----------------------------------------------------------------------------
(* ShadowsocksConnection and stateChanged.                                 *)

\* Mutant: onServiceConnected does not read the state.
RegisterOnly ==
    /\ Free
    /\ bound = "unbound" /\ ssInbox = <<>>
    /\ bound' = "bound"
    /\ UNCHANGED <<globals, activity, words, mService, bg, openvpn, history,
                   bounds>>

\* onServiceConnected registers the callback ...
Register ==
    /\ Free
    /\ bound = "unbound" /\ ssInbox = <<>>
    /\ bound' = "reads"
    /\ UNCHANGED <<globals, activity, words, mService, bg, openvpn, history,
                   bounds>>

\* ... and reads the state.  One that was announced before the callback was
\* registered and is not assigned yet is never heard of.
ReadState ==
    /\ bound = "reads"
    /\ bound' = "bound"
    /\ state \in SsWords
    /\ Obey("ss", state = "Connected")
    /\ UNCHANGED <<saoClick, activity, words, mService, bg, openvpn, bounds>>

ReadNothing ==
    /\ bound = "reads"
    /\ bound' = "bound"
    /\ state \notin SsWords
    /\ missed' = IF next \in SsWords /\ ssInbox = <<>>
                 THEN missed \cup {"ss"} ELSE missed
    /\ UNCHANGED <<globals, speaker, activity, words, mService, bg, openvpn,
                   bounds>>

HearState ==
    /\ Free
    /\ ssInbox # <<>>
    /\ ssInbox' = Tail(ssInbox)
    /\ Obey("ss", Head(ssInbox) = "Connected")
    /\ UNCHANGED <<saoClick, activity, inbox, bindings, bg, openvpn, bounds>>

-----------------------------------------------------------------------------
(* The service of :bg.                                                     *)

\* changeState: the word goes out before the state is assigned.
Announce(s) ==
    /\ next = "none"
    /\ next' = s
    /\ ssInbox' = IF s \in SsWords /\ bound # "unbound"
                  THEN Append(ssInbox, s) ELSE ssInbox

Assign ==
    /\ next # "none"
    /\ state' = next
    /\ next' = "none"
    /\ UNCHANGED <<globals, activity, words, bindings, starts, closes,
                   openvpn, history, bounds>>

\* onStartCommand, refused or not.
StartDelivered ==
    /\ starts > 0 /\ next = "none"
    /\ starts' = starts - 1
    /\ IF state = "Stopped"
       THEN \E s \in Follows[state] : Announce(s)
       ELSE UNCHANGED <<next, ssInbox>>
    /\ UNCHANGED <<globals, activity, inbox, bindings, state, closes, openvpn,
                   history, bounds>>

\* closeReceiver, which is registered from the start to the clean-up.
CloseDelivered ==
    /\ closes > 0 /\ next = "none"
    /\ closes' = closes - 1
    /\ IF state \in {"Connecting", "Connected"}
       THEN Announce("Stopping")
       ELSE UNCHANGED <<next, ssInbox>>
    /\ UNCHANGED <<globals, activity, inbox, bindings, state, starts, openvpn,
                   history, bounds>>

\* The service goes on without a word from the screen: the connecting job ends,
\* well or not, the clean-up does, the session is revoked, late or not, a process
\* of its pool fails, or somebody else starts or stops it.  What wakes a stopped
\* service counts as a gesture.
SsMoves(s) ==
    /\ s \in Follows[state]
    /\ Announce(s)
    /\ gestures' = IF state = "Stopped" THEN gestures + 1 ELSE gestures
    /\ gestures' <= MaxGestures
    /\ UNCHANGED <<globals, activity, inbox, bindings, state, starts, closes,
                   openvpn, history, crashes>>

\* :bg is killed.  The system binds its service again; but that it does not
\* answer onServiceConnected is an exception that ends the app.
SsDies ==
    /\ crashes < MaxCrashes
    /\ crashes' = crashes + 1
    /\ state' = "Stopped" /\ next' = "none"
    /\ UNCHANGED <<starts, closes, openvpn, gestures>>

SsCrash ==
    /\ SsDies
    /\ bound # "reads"
    /\ bound' = "unbound"
    /\ UNCHANGED <<globals, activity, words, mService, history>>

ReadThrows == SsDies /\ bound = "reads" /\ AppDies

-----------------------------------------------------------------------------
(* mConnection and newStatus.                                              *)

Disconnected ==
    /\ Free
    /\ mService = "dead"
    /\ mService' = "null"
    /\ UNCHANGED <<globals, activity, words, bound, bg, openvpn, history,
                   bounds>>

\* registerStatusCallback answers with the most recent state ...
Tell ==
    /\ Free
    /\ mService = "null"
    /\ mService' = "tells"
    /\ inbox' = Append(inbox, status)
    /\ UNCHANGED <<globals, activity, ssInbox, bound, bg, openvpn, history,
                   bounds>>

\* ... and registers the callback afterwards.  A word that was sent in between
\* is lost; hearing "lost" only notes it.
RegisterStatusCallback ==
    /\ mService = "tells"
    /\ mService' = "registered"
    /\ inbox' = IF posts = <<>> /\ status \notin {"busy", inbox[Len(inbox)]}
                THEN Append(inbox, "lost") ELSE inbox
    /\ UNCHANGED <<globals, activity, ssInbox, bound, bg, openvpn, history,
                   bounds>>

HearStatus ==
    /\ Free
    /\ inbox # <<>>
    /\ \/ Head(inbox) = "CONNECTED"
       \/ Head(inbox) = "NOPROCESS" /\ saoClick >= 0
    /\ inbox' = Tail(inbox)
    /\ Obey("ovpn", Head(inbox) = "CONNECTED")
    /\ UNCHANGED <<saoClick, activity, ssInbox, bindings, bg, openvpn, bounds>>

\* A screen that was left while it connected, or is another ZZ than the one
\* that connected, ignores the end.
HearNothing ==
    /\ Free
    /\ inbox # <<>>
    /\ \/ Head(inbox) \in {"busy", "lost"}
       \/ Head(inbox) = "NOPROCESS" /\ saoClick < 0
    /\ inbox' = Tail(inbox)
    /\ missed' = IF \/ Head(inbox) = "lost"
                    \/ /\ Head(inbox) = "NOPROCESS"
                       /\ saoState /\ speaker = "ovpn"
                 THEN missed \cup {"ovpn"} ELSE missed
    /\ UNCHANGED <<globals, speaker, activity, ssInbox, bindings, bg, openvpn,
                   bounds>>

\* The session lost its server: the screen gives it up.
HearReconnecting ==
    /\ Free
    /\ inbox # <<>> /\ Head(inbox) = "RECONNECTING"
    /\ inbox' = Tail(inbox)
    /\ Disconnect
    /\ Obey("ovpn", FALSE)
    /\ UNCHANGED <<saoClick, activity, ssInbox, bindings, bg, status, posts,
                   bounds>>

-----------------------------------------------------------------------------
(* The service of :openvpn.                                                *)

\* updateState, on the management thread.  A session that is told to stop may
\* have more to say before it ends.
UpdateState(s) ==
    /\ status # "NOPROCESS" /\ s # status
    /\ Len(posts) + Len(inbox) < MaxWords
    /\ status' = s
    /\ told' = (told /\ s # "NOPROCESS")
    /\ posts' = Append(posts, s)
    /\ UNCHANGED <<globals, activity, words, bindings, bg, history, bounds>>

Connects == UpdateState("CONNECTED")
LosesServer == UpdateState("RECONNECTING")
Ends == UpdateState("NOPROCESS")

\* mHandler, on the main thread of :openvpn.
SendToAll ==
    /\ posts # <<>>
    /\ posts' = Tail(posts)
    /\ inbox' = IF mService = "registered"
                THEN Append(inbox, Head(posts)) ELSE inbox
    /\ UNCHANGED <<globals, activity, ssInbox, bindings, bg, status, told,
                   history, bounds>>

OvpnCrash ==
    /\ crashes < MaxCrashes
    /\ crashes' = crashes + 1
    /\ status' = "NOPROCESS" /\ told' = FALSE /\ posts' = <<>>
    /\ mService' = IF mService = "null" THEN "null" ELSE "dead"
    /\ UNCHANGED <<globals, activity, words, bound, bg, history, gestures>>

-----------------------------------------------------------------------------
Gestures == StartCountdown \/ CallOff \/ Leave \/ Recreate \/ Exit

Coroutines ==
    \/ CalledOff \/ ConnectSs \/ ConnectOvpn \/ disConnectHowVpn
    \/ OpenVTool \/ OpenVToolFails \/ DisconnectThrows

Shadowsocks ==
    \/ Register \/ ReadState \/ ReadNothing \/ HearState
    \/ Assign \/ StartDelivered \/ CloseDelivered
    \/ \E s \in States : SsMoves(s)
    \/ SsCrash \/ ReadThrows

OpenVPN ==
    \/ Disconnected \/ Tell \/ RegisterStatusCallback
    \/ HearStatus \/ HearNothing \/ HearReconnecting
    \/ Connects \/ LosesServer \/ Ends \/ SendToAll \/ OvpnCrash

Next == Gestures \/ Coroutines \/ Shadowsocks \/ OpenVPN

Spec == Init /\ [][Next]_vars

-----------------------------------------------------------------------------
(* What the screen shows, and what is on its way to it.                    *)

Shown == IF nowVpnUI = 1 THEN saoClick = 2 ELSE nowVpnUI = 2

\* What :bg has announced last.
announced == IF next = "none" THEN state ELSE next

SsHeard == bound = "bound" /\ ssInbox = <<>> /\ next = "none"

OvpnHeard == mService = "registered" /\ inbox = <<>> /\ posts = <<>>

Quiet ==
    /\ countdowns = 0 /\ opening = 0 /\ starts = 0 /\ closes = 0
    /\ SsHeard /\ state \in SsWords
    /\ OvpnHeard /\ status # "busy" /\ ~told

\* Shadowsocks is connected behind OpenVPN's last word.
Hidden == speaker # "ss" /\ announced = "Connected" /\ ~saoState

-----------------------------------------------------------------------------
(* Properties.                                                             *)

NamesTyped ==
    /\ saoClick \in {-1, 0, 2} /\ nowVpnUI \in 0 .. 2
    /\ bound \in {"unbound", "reads", "bound"}
    /\ mService \in {"null", "tells", "registered", "dead"}
    /\ state \in States /\ next \in States \cup {"none"} /\ status \in Statuses
    /\ speaker \in {"ss", "ovpn", "none"}
    /\ missed \subseteq {"ss", "ovpn", "start"}

FlagsTyped ==
    saoState \in BOOLEAN /\ stopConnect \in BOOLEAN /\ told \in BOOLEAN

CountersTyped ==
    /\ countdowns \in Nat /\ opening \in Nat
    /\ starts \in Nat /\ closes \in Nat
    /\ gestures \in Nat /\ crashes \in Nat

QueuesTyped ==
    /\ ssInbox \in Seq(SsWords)
    /\ inbox \in Seq(Statuses \cup {"lost"}) /\ posts \in Seq(Statuses)

TypeOK == NamesTyped /\ FlagsTyped /\ CountersTyped /\ QueuesTyped

\* The three globals fit together, and a countdown that shows is not called
\* off.
OneScreen ==
    /\ nowVpnUI = 0 \/ speaker = "none" => ~saoState
    /\ nowVpnUI = 2 => saoState
    /\ nowVpnUI = 1 => /\ saoClick = IF saoState THEN 2 ELSE 0
                       /\ ~stopConnect

\* The last word from :bg is of what it announced last.
SsMirrored ==
    /\ next \in SsWords => state \notin SsWords
    /\ announced \in SsWords =>
        /\ bound # "unbound" /\ ssInbox # <<>>
               => ssInbox[Len(ssInbox)] = announced
        /\ bound = "bound" /\ ssInbox = <<>> /\ speaker = "ss"
           /\ "ss" \notin missed
               => (saoState <=> announced = "Connected")

\* The last word from :openvpn is of the most recent state.
OvpnMirrored ==
    /\ mService = "tells" => inbox # <<>>
    /\ status # "busy" =>
        /\ posts # <<>> => posts[Len(posts)] = status
        /\ mService = "registered" /\ posts = <<>> /\ inbox # <<>>
               => inbox[Len(inbox)] \in {status, "lost"}
        /\ OvpnHeard /\ speaker = "ovpn" /\ "ovpn" \notin missed
               => (saoState <=> status = "CONNECTED")

\* A word from either engine is still to come, or known not to.
SsComes ==
    bound # "bound" \/ ssInbox # <<>> \/ "ss" \in missed

OvpnComes ==
    \/ mService # "registered" \/ inbox # <<>> \/ posts # <<>>
    \/ "ovpn" \in missed

\* After a countdown to disconnect, the engine that is shown is told to stop.
Disconnecting ==
    nowVpnUI = 1 /\ saoState /\ countdowns = 0 =>
        /\ speaker = "ss" => closes > 0 \/ announced # "Connected" \/ SsComes
        /\ speaker = "ovpn" => told \/ status # "CONNECTED" \/ OvpnComes

\* After a countdown to connect, an engine is started or starting.
Connecting ==
    nowVpnUI = 1 /\ ~saoState /\ countdowns = 0 =>
        \/ opening > 0 \/ "start" \in missed
        \/ starts > 0 \/ announced \in {"Connecting", "Stopping"} \/ SsComes
        \/ Hidden
        \/ status = "busy" \/ OvpnComes

IInv ==
    /\ TypeOK /\ OneScreen /\ SsMirrored /\ OvpnMirrored
    /\ Disconnecting /\ Connecting

Agrees ==
    /\ speaker = "ss" /\ SsHeard /\ state \in SsWords /\ "ss" \notin missed
           => (Shown <=> state = "Connected")
    /\ speaker = "ovpn" /\ OvpnHeard /\ status # "busy" /\ "ovpn" \notin missed
           => (Shown <=> status = "CONNECTED")

NeverStuck == nowVpnUI = 1 /\ Quiet => missed # {} \/ Hidden

=============================================================================
