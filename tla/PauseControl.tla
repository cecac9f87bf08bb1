---------------------------- MODULE PauseControl ----------------------------
(***************************************************************************)
(* Pausing and resuming an OpenVPN session (open/): DeviceStateReceiver,   *)
(* the hold, pause and network part of OpenVpnManagementThread, and the    *)
(* hold of the OpenVPN process behind the management socket.               *)
(*                                                                         *)
(* Three kinds of threads of ":openvpn" run this code: the main thread     *)
(* (broadcasts and timers), binder threads (the pause and resume of        *)
(* ExternalOpenVPNService and RemoteAction, the only ones a user has at    *)
(* this commit) and the management thread.  A handler first works on the   *)
(* receiver's fields and then calls OpenVpnManagementThread; the call is a *)
(* step of its own, because nothing keeps the threads apart.               *)
(***************************************************************************)
EXTENDS Naturals, Sequences

CONSTANTS
    Networks,       \* the networks the device may be connected to
    Binders,        \* binder threads: a user's pauses and resumes arrive on them
    MaxTimers,      \* bound: delayed disconnects waiting in the main looper
    MaxCommands,    \* bound: commands in the management socket
    MaxHolds        \* bound: >HOLD messages in the management socket

ASSUME PauseAssumption ==
    /\ Networks \cap {"null", "none"} = {}
    /\ Binders \cap {"main", "management"} = {}
    /\ MaxTimers \in Nat \ {0} /\ MaxCommands \in Nat \ {0}
    /\ MaxHolds \in Nat \ {0}

VARIABLES
    registered,  \* the receiver is registered: until then nobody calls it
    network,     \* DeviceStateReceiver.network
    screen,      \* DeviceStateReceiver.screen
    userpause,   \* DeviceStateReceiver.userpause
    last,        \* lastConnectedNetwork
    disconnects, \* how often mDelayDisconnectRunnable is posted
    call,        \* what each thread is about to do in OpenVpnManagementThread
    waiting,     \* mWaitingForRelease
    holdTimers,  \* how often mResumeHoldRunnable is posted
    commands,    \* the management socket, towards the process
    holds,       \* >HOLD messages in the socket, towards the management thread
    process,     \* the OpenVPN process; "first" is its first hold
    overtaken,   \* history: threads whose release has ceased to be wanted meanwhile
    lapse        \* history: how the process last came to be not as wanted

receiver == <<registered, network, screen, userpause, last, disconnects>>
management == <<waiting, holdTimers, commands>>
history == <<overtaken, lapse>>
vars == <<receiver, call, management, holds, process, history>>

-----------------------------------------------------------------------------
ConnectStates == {"SHOULDBECONNECTED", "PENDINGDISCONNECT", "DISCONNECTED"}
Threads == {"main", "management"} \cup Binders
Commands == {"hold release", "signal SIGUSR1", "network-change",
             "network-change samenetwork"}

\* The network changes that networkChange passes on.
Changes == {"network-change", "network-change samenetwork"}

Calls == {"none", "pause", "resume", "release", "hold", "post", "bytes", "ask"}
         \cup Changes

\* A release was taken off that was wanted; one was sent that has ceased to be wanted
\* since its thread set out for it; one was sent that was not wanted even then.
Lapses == {"none", "dropped", "crossed", "unasked"}

shouldBeConnected ==
    /\ screen = "SHOULDBECONNECTED"
    /\ userpause = "SHOULDBECONNECTED"
    /\ network = "SHOULDBECONNECTED"

\* Neither the user nor the loss of the network keeps the VPN from being connected.
Wanted == userpause = "SHOULDBECONNECTED" /\ network # "DISCONNECTED"

\* The threads that are about to release the hold, or have begun to.
Releasing == {t \in Threads : call[t] \in {"resume", "release"} \cup Changes}

Holding == process \in {"first", "hold"}

Idle(t) == call[t] = "none"
Calling(t, c) == call' = [call EXCEPT ![t] = c]

Init ==
    /\ registered = FALSE
    /\ network = "DISCONNECTED"
    /\ screen = "SHOULDBECONNECTED"
    /\ userpause = "SHOULDBECONNECTED"
    /\ last = "null" /\ disconnects = 0
    /\ call = [t \in Threads |-> "none"]
    /\ waiting = FALSE /\ holdTimers = 0
    /\ commands = <<>> /\ holds = 1 /\ process = "first"
    /\ overtaken = {} /\ lapse = "none"

-----------------------------------------------------------------------------
(* OpenVpnManagementThread. *)

Send(c) == commands' = Append(commands, c)

\* Mutant: a pause forgets that the process already holds.
pauseForgetsHold(t) ==
    /\ call[t] = "pause"
    /\ Calling(t, "none")
    /\ holdTimers' = 0
    /\ waiting' = FALSE
    /\ Send("signal SIGUSR1") /\ lapse' = "none"
    /\ UNCHANGED <<receiver, holds, process, overtaken>>

\* pause(reason): signalusr1().
pause(t) ==
    /\ call[t] = "pause"
    /\ Calling(t, "none")
    /\ holdTimers' = 0
    /\ \/ /\ waiting
          /\ lapse' = IF holdTimers > 0 /\ shouldBeConnected THEN "dropped" ELSE lapse
          /\ UNCHANGED commands
       \/ /\ ~waiting
          /\ lapse' = "none"
          /\ Send("signal SIGUSR1")
    /\ UNCHANGED <<receiver, waiting, holds, process, overtaken>>

\* resume() and networkChange(sameNetwork) of a process that waits for its release.
beginRelease(t) ==
    /\ waiting
    /\ Calling(t, "release")
    /\ holdTimers' = 0
    /\ UNCHANGED <<commands, overtaken>>

\* To any other process only the change of network is passed on.
passOn(t) ==
    /\ ~waiting
    /\ Calling(t, "none")
    /\ overtaken' = overtaken \ {t}
    /\ IF call[t] = "resume" THEN UNCHANGED commands ELSE Send(call[t])
    /\ UNCHANGED holdTimers

\* Mutant: the flag goes before releaseHoldCmd sleeps, not when it sends the command.
resumeClearsFlag(t) ==
    /\ call[t] \in {"resume"} \cup Changes
    /\ beginRelease(t) \/ passOn(t)
    /\ waiting' = FALSE
    /\ UNCHANGED <<receiver, holds, process, lapse>>

resume(t) ==
    /\ call[t] \in {"resume"} \cup Changes
    /\ beginRelease(t) \/ passOn(t)
    /\ UNCHANGED <<receiver, waiting, holds, process, lapse>>

\* The rest of releaseHoldCmd(), after a sleep of up to three seconds.
releaseHoldCmd(t) ==
    /\ call[t] = "release"
    /\ Calling(t, "none")
    /\ waiting' = FALSE
    /\ Send("hold release")
    /\ overtaken' = overtaken \ {t}
    /\ lapse' = CASE Wanted -> "none" [] t \in overtaken -> "crossed" [] OTHER -> "unasked"
    /\ UNCHANGED <<receiver, holdTimers, holds, process>>

\* Mutant: mResumeHoldRunnable does not ask whether the VPN should be running.
ReleaseBlindly == holdTimers > 0

ReleaseDue == holdTimers > 0 /\ shouldBeConnected

\* mResumeHoldRunnable; releaseHoldCmd removes what else is posted of it.
resumeHold ==
    /\ Idle("main") /\ holdTimers > 0
    /\ IF ReleaseDue THEN holdTimers' = 0 /\ Calling("main", "release")
                     ELSE holdTimers' = holdTimers - 1 /\ UNCHANGED call
    /\ UNCHANGED <<receiver, waiting, commands, holds, process, history>>

\* handleHold(argument), in three steps: the flag is set, shouldBeRunning() is
\* asked, the release is posted.
handleHold ==
    \/ /\ Idle("management") /\ holds > 0
       /\ holds' = holds - 1
       /\ waiting' = TRUE
       /\ Calling("management", "hold")
       /\ UNCHANGED <<receiver, holdTimers, commands, process, history>>
    \/ /\ call["management"] = "hold"
       /\ Calling("management", IF shouldBeConnected THEN "post" ELSE "none")
       /\ UNCHANGED <<receiver, management, holds, process, history>>
    \/ /\ call["management"] = "post"
       /\ Calling("management", "none")
       /\ holdTimers' = holdTimers + 1
       /\ UNCHANGED <<receiver, waiting, commands, holds, process, history>>

-----------------------------------------------------------------------------
(* DeviceStateReceiver. *)

\* networkStateChange, by the main thread, with the active network n.
SameNetworkReturns(n) ==
    /\ network = "PENDINGDISCONNECT" /\ last = n
    /\ network' = "SHOULDBECONNECTED"
    /\ disconnects' = 0
    /\ Calling("main", "network-change samenetwork")
    /\ UNCHANGED <<screen, userpause, last>>

\* Mutant: a network that had been given up is taken for the one still in use.
CallNothing(n) ==
    IF network = "PENDINGDISCONNECT" \/ last # n THEN "network-change" ELSE "none"

CallFor(n) ==
    IF network = "PENDINGDISCONNECT" \/ last # n THEN "network-change" ELSE "resume"

OtherNetwork(n) ==
    /\ ~(network = "PENDINGDISCONNECT" /\ last = n)
    /\ network' = "SHOULDBECONNECTED"
    /\ screen' = IF screen = "PENDINGDISCONNECT" THEN "DISCONNECTED" ELSE screen
    /\ last' = n /\ UNCHANGED userpause
    /\ \/ /\ shouldBeConnected'
          /\ disconnects' = 0
          /\ Calling("main", CallFor(n))
       \/ /\ ~shouldBeConnected'
          /\ UNCHANGED <<disconnects, call>>

NoNetwork ==
    /\ disconnects < MaxTimers
    /\ network' = "PENDINGDISCONNECT"
    /\ disconnects' = disconnects + 1
    /\ UNCHANGED <<screen, userpause, last, call>>

StillConnecting == UNCHANGED <<network, screen, userpause, last, disconnects, call>>

networkStateChange ==
    \/ NoNetwork \/ StillConnecting
    \/ \E n \in Networks : SameNetworkReturns(n) \/ OtherNetwork(n)

\* registerDeviceStateReceiver, posted to the main thread by startOpenVPN.
register ==
    /\ ~registered /\ Idle("main")
    /\ registered' = TRUE
    /\ networkStateChange
    /\ UNCHANGED <<management, holds, process, history>>

\* CONNECTIVITY_ACTION, which also comes when the active network is the same.
onNetwork ==
    /\ registered /\ Idle("main")
    /\ networkStateChange
    /\ UNCHANGED <<registered, management, holds, process, history>>

\* Mutant: the runnable notes the lost network and does not pause.
GiveUpQuietly ==
    /\ network' = "DISCONNECTED" /\ overtaken' = overtaken \cup Releasing
    /\ screen' = IF screen = "PENDINGDISCONNECT" THEN "DISCONNECTED" ELSE screen
    /\ UNCHANGED call

GiveUp ==
    /\ network' = "DISCONNECTED" /\ overtaken' = overtaken \cup Releasing
    /\ screen' = IF screen = "PENDINGDISCONNECT" THEN "DISCONNECTED" ELSE screen
    /\ Calling("main", "pause")

\* Mutant: the runnable runs though it was removed.
NotRemoved == network = "PENDINGDISCONNECT"

Posted == disconnects > 0

\* mDelayDisconnectRunnable.
delayDisconnect ==
    /\ Idle("main") /\ Posted
    /\ disconnects' = disconnects - 1
    /\ IF network = "PENDINGDISCONNECT" THEN GiveUp
       ELSE UNCHANGED <<network, screen, call, overtaken>>
    /\ UNCHANGED <<registered, userpause, last, management, holds, process, lapse>>

\* ACTION_SCREEN_OFF, with the preference "screenoff".
screenOff ==
    /\ registered /\ Idle("main")
    /\ screen' = IF network = "DISCONNECTED" \/ userpause = "DISCONNECTED"
                 THEN "DISCONNECTED" ELSE "PENDINGDISCONNECT"
    /\ UNCHANGED <<registered, network, userpause, last, disconnects, call,
                   management, holds, process, history>>

\* ACTION_SCREEN_ON.
screenOn ==
    /\ registered /\ Idle("main")
    /\ screen' = "SHOULDBECONNECTED"
    /\ disconnects' = 0
    /\ UNCHANGED <<registered, network, userpause, last, management, holds, process, history>>
    /\ IF shouldBeConnected' # shouldBeConnected THEN Calling("main", "resume")
       ELSE IF ~shouldBeConnected' THEN Calling("main", "pause")
       ELSE UNCHANGED call

\* userPause(true) and userPause(false), by a binder thread, whether or not the user
\* has paused: a VPN that was connected already is paused at once, for any other
\* shouldBeConnected() is asked again.
userPause(t) ==
    /\ registered /\ Idle(t)
    /\ UNCHANGED <<registered, network, screen, last, disconnects, management,
                   holds, process, lapse>>
    /\ \/ /\ userpause' = "DISCONNECTED"
          /\ overtaken' = overtaken \cup Releasing
          /\ Calling(t, "pause")
       \/ /\ userpause' = "SHOULDBECONNECTED"
          /\ UNCHANGED overtaken
          /\ Calling(t, IF shouldBeConnected THEN "pause" ELSE "ask")

\* The second question of userPause(false).
asksAgain(t) ==
    /\ call[t] = "ask"
    /\ Calling(t, IF shouldBeConnected THEN "resume" ELSE "pause")
    /\ UNCHANGED <<receiver, management, holds, process, history>>

\* updateByteCount, by the management thread: screen is read, the traffic of the
\* window is found too low, screen is set and the VPN paused.  Byte counts come
\* from a process that runs, and are read before its next >HOLD.
updateByteCount ==
    /\ registered /\ Idle("management")
    /\ process # "first" /\ (process = "hold" => holds > 0)
    /\ screen = "PENDINGDISCONNECT"
    /\ Calling("management", "bytes")
    /\ UNCHANGED <<receiver, management, holds, process, history>>

tooLittleTraffic ==
    /\ call["management"] = "bytes"
    /\ screen' = "DISCONNECTED"
    /\ Calling("management", "pause")
    /\ UNCHANGED <<registered, network, userpause, last, disconnects,
                   management, holds, process, history>>

-----------------------------------------------------------------------------
(* The OpenVPN process. *)

\* The process reads a command.  While it holds it ignores SIGUSR1; a change of
\* network may make it reconnect, depending on its options.
processReads ==
    /\ commands # <<>> /\ process # "restart"
    /\ commands' = Tail(commands)
    /\ process' \in
          IF Holding
          THEN {IF Head(commands) = "hold release" THEN "run" ELSE process}
          ELSE CASE Head(commands) = "signal SIGUSR1" -> {"restart"}
                 [] Head(commands) = "network-change" -> {"run", "restart"}
                 [] OTHER                             -> {"run"}
    /\ UNCHANGED <<receiver, call, waiting, holdTimers, holds, history>>

\* It loses its peer and reconnects.
processRestarts ==
    /\ process = "run"
    /\ process' = "restart"
    /\ UNCHANGED <<receiver, call, management, holds, history>>

\* It says >HOLD before it connects again.
processHolds ==
    /\ process = "restart"
    /\ holds < MaxHolds
    /\ process' = "hold"
    /\ holds' = holds + 1
    /\ UNCHANGED <<receiver, call, management, history>>

-----------------------------------------------------------------------------
Management(t) == pause(t) \/ resume(t) \/ releaseHoldCmd(t) \/ asksAgain(t)

Working ==
    \/ \E t \in Threads : Management(t)
    \/ resumeHold \/ handleHold \/ tooLittleTraffic \/ processReads \/ processHolds

\* What the device and its user do waits while the socket is full: a bound of the
\* model, as the code writes to a socket that the process keeps reading.
Events ==
    /\ Len(commands) < MaxCommands
    /\ \/ register \/ onNetwork \/ delayDisconnect \/ screenOff \/ screenOn
       \/ updateByteCount \/ processRestarts
       \/ \E t \in Binders : userPause(t)

Next == Working \/ Events

\* Threads go on, timers fire, the process reads its socket.  Users, networks and
\* traffic owe nothing.
Fairness ==
    /\ \A t \in Threads : WF_vars(Management(t))
    /\ WF_vars(resumeHold) /\ WF_vars(handleHold)
    /\ WF_vars(processReads) /\ WF_vars(processHolds)
    /\ WF_vars(delayDisconnect)
    /\ WF_vars(tooLittleTraffic)

Spec == Init /\ [][Next]_vars
FairSpec == Spec /\ Fairness

-----------------------------------------------------------------------------
(* Properties. *)

TypeOK ==
    /\ registered \in BOOLEAN
    /\ network \in ConnectStates /\ screen \in ConnectStates
    /\ userpause \in {"SHOULDBECONNECTED", "DISCONNECTED"}
    /\ last \in Networks \cup {"null"} /\ disconnects \in 0..MaxTimers
    /\ call \in [Threads -> Calls]
    /\ waiting \in BOOLEAN /\ holdTimers \in Nat
    /\ commands \in Seq(Commands) /\ holds \in 0..MaxHolds
    /\ process \in {"first", "hold", "run", "restart"}
    /\ overtaken \subseteq Threads /\ lapse \in Lapses

\* A process that holds is known to hold, once nothing is on its way between the
\* two: no release is skipped because mWaitingForRelease says that it runs.
\* (handleHold, releaseHoldCmd.)
HoldIsKnown == commands = <<>> /\ holds = 0 /\ Holding => waiting

\* No thread begins to release a VPN that its user has paused or that has given up
\* its network, unless that came about since the thread asked, and then not by the
\* network if it is the main thread; but for the one path that does not ask: the same
\* network returning in time.  (releaseHoldCmd's callers.)
ReleasedOnlyIfWanted ==
    [][\A t \in Threads : call[t] # "release" /\ call'[t] = "release" =>
          \/ Wanted
          \/ t \in overtaken /\ (t = "main" => network = "SHOULDBECONNECTED")
          \/ call[t] = "network-change samenetwork"]_vars

\* A VPN that should be connected gets its process released, whatever was being
\* paused, posted or said when that became so, unless a pause, made or coming late
\* while it should be connected, took the posted release off.
ConnectsWhenWanted ==
    shouldBeConnected ~> (process = "run" \/ ~shouldBeConnected \/ lapse = "dropped")

\* A VPN that its user has paused, or that has given up its network, ends up held, or
\* at least taken to be: no pause is lost, but to a release that was under way on
\* another thread and to the network that returns in time.
\* (userPause, delayDisconnect, signalusr1.)
HeldUnlessWanted ==
    ~Wanted ~> (Holding \/ waiting \/ Wanted \/ lapse \in {"crossed", "unasked"})

-----------------------------------------------------------------------------
(* Why they hold. *)

\* A process that holds, with neither its >HOLD unread nor the flag set, has its
\* release under way: the flag goes only with a "hold release", which the process
\* does not pass over while it holds.
ReleaseUnderWay ==
    Holding /\ holds = 0 /\ ~waiting =>
        \E i \in 1 .. Len(commands) : commands[i] = "hold release"

\* A thread that has asked, and is about to release the hold or to pass on a change of
\* network, is overtaken or still wanted; nothing takes the network from the main
\* thread meanwhile; the management thread is never about to do so.
AsksWhileWanted ==
    /\ call["management"] \in {"none", "hold", "post", "bytes", "pause"}
    /\ call["main"] \in {"resume", "release"} \cup Changes => network = "SHOULDBECONNECTED"
    /\ \A t \in Threads : call[t] \in {"resume", "network-change"} => Wanted \/ t \in overtaken

\* The inductive invariant: a held process is announced, known or about to be
\* released, and who is about to release it has asked.
\* (handleHold, releaseHoldCmd, networkStateChange, userPause.)
IInv == TypeOK /\ ReleaseUnderWay /\ AsksWhileWanted

-----------------------------------------------------------------------------
(* What the code means to do and does not. *)

\* A VPN paused by its user is held until the user resumes it, unless the pause
\* crossed a release that was under way.
UserPauseHolds ==
    userpause = "DISCONNECTED" ~>
        (Holding \/ userpause # "DISCONNECTED" \/ lapse = "crossed")

=============================================================================
