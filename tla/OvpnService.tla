----------------------------- MODULE OvpnService ----------------------------
(***************************************************************************)
(* The life of OpenVPN sessions (open/): OpenVPNService, the OpenVPNThread *)
(* that runs a session's process and the OpenVpnManagementThread that      *)
(* listens to it.                                                          *)
(*                                                                         *)
(* Starts run on the service's command thread one after the other; each    *)
(* tells the session before it to stop, waits two fixed seconds and goes   *)
(* on.  The threads of the old session end when they end, binder threads   *)
(* bring stops and the system's revocation, and all of them tidy up the    *)
(* same service: mProcessThread, mDeviceStateReceiver and stopSelf.        *)
(*                                                                         *)
(* A session is numbered by the start that made it.  How long a sleep      *)
(* lasts is left open: between two steps of the command thread any other   *)
(* thread may run.  Left out are the keep-alive job, the state listener    *)
(* and the note of the connected profile, which startOpenVPN sets up and   *)
(* endVpnService takes away along with what is modelled.                   *)
(***************************************************************************)
EXTENDS Naturals, Sequences, FiniteSets

CONSTANTS
    MaxSessions,    \* bound: sessions made, starts that wait to be one included
    MaxRevocations  \* bound: how often the system revokes the permission

ASSUME OvpnAssumption ==
    /\ MaxSessions \in Nat \ {0}
    /\ MaxRevocations \in Nat

VARIABLES
    started,      \* the service is started: startService, not yet stopSelf
    destroyed,    \* onDestroy has run
    revocations,  \* how often onRevoke has run
    queue,        \* mCommandHandler: "start" and onRevoke's "stop"
    command,      \* where the command thread is in startOpenVPN
    mStarting,
    mProcessThread,        \* the session whose OpenVPNThread it is, or 0
    mDeviceStateReceiver,  \* the session whose receiver it is, or 0
    registered,   \* sessions whose DeviceStateReceiver is registered
    gui,          \* runnables posted to guiHandler: <<old, new>> receivers
    ending,       \* how far each thread is in endVpnService
    mManagement,  \* the last session made, whose management thread it is, or 0
    accepting,    \* that thread still waits for a process to connect
    reader,       \* each session's OpenVPNThread
    interrupted,  \* OpenVPNThreads that are interrupted and still read
    process       \* each session's OpenVPN process

environment == <<destroyed, revocations>>
service == <<environment, started>>
fields == <<mStarting, mProcessThread>>
receivers == <<mDeviceStateReceiver, registered, gui>>
management == <<mManagement, accepting>>
session == <<reader, interrupted, process>>
vars == <<service, queue, command, fields, receivers, ending, management,
          session>>

-----------------------------------------------------------------------------
Sessions == 1 .. MaxSessions

\* Who may run endVpnService: each session's OpenVPNThread, the command thread
\* and the binder thread of onRevoke.
CommandThread == 0
BinderThread == MaxSessions + 1
Enders == Sessions \cup {CommandThread, BinderThread}

Alive == {"waits", "configured", "connected", "told"}

\* mProcessLock is held for a whole second by forceStopOpenVpnProcess; its
\* other uses are single steps.
Locked == command = "sleeps"

Finished(i) == process[i] = "exited" /\ reader[i] = "over" /\ ending[i] = "no"

\* stopOpenVPN: SIGINT is written to every socket that is connected, and the
\* socket is closed.  Of the sessions in `active' the others are told nothing.
StopAll ==
    process' = [i \in Sessions |->
                   IF process[i] = "connected" THEN "told" ELSE process[i]]

\* unregisterDeviceStateReceiver: unless the field is null.  A receiver that
\* is no longer registered makes it throw, which is caught.
Unregister(r) ==
    IF mDeviceStateReceiver = 0 THEN registered ELSE registered \ {r}

Init ==
    /\ started = FALSE /\ destroyed = FALSE /\ revocations = 0
    /\ queue = <<>> /\ command = "idle"
    /\ mStarting = FALSE /\ mManagement = 0 /\ mProcessThread = 0
    /\ mDeviceStateReceiver = 0 /\ registered = {} /\ gui = <<>>
    /\ ending = [e \in Enders |-> "no"]
    /\ accepting = FALSE
    /\ reader = [i \in Sessions |-> "none"]
    /\ interrupted = {}
    /\ process = [i \in Sessions |-> "none"]

-----------------------------------------------------------------------------
(* The main thread, the binder threads and the system.                     *)

\* Starts that are not a session yet.
Waiting(q) == {k \in DOMAIN q : q[k] = "start"}

Starting == command \in {"stops", "forces", "sleeps", "stopped", "opens"}

Starts == Cardinality(Waiting(queue)) + IF Starting THEN 1 ELSE 0

\* onStartCommand with a profile to start, or redelivered without one.
Start ==
    /\ ~destroyed
    /\ mManagement + Starts < MaxSessions
    /\ started' = TRUE
    /\ queue' = Append(queue, "start")
    /\ UNCHANGED <<destroyed, revocations, command, fields, receivers, ending,
                   management, session>>

\* stopVPN over the binder; without a management thread it does nothing.
Stop ==
    /\ mManagement # 0 /\ ~destroyed
    /\ StopAll
    /\ UNCHANGED <<service, queue, command, fields, receivers, ending,
                   management, reader, interrupted>>

\* onRevoke: the system takes the tunnel of a connected session away.  The
\* stop is left to the command thread, the rest is done here.
Revoke ==
    /\ revocations < MaxRevocations
    /\ \E i \in Sessions : process[i] = "connected"
    /\ ending[BinderThread] = "no"
    /\ revocations' = revocations + 1
    /\ queue' = Append(queue, "stop")
    /\ ending' = [ending EXCEPT ![BinderThread] = "clears"]
    /\ UNCHANGED <<started, destroyed, command, fields, receivers,
                   management, session>>

\* onDestroy: the service is not started, and ExternalOpenVPNService, the last
\* to be bound to it, goes away.
Destroy ==
    /\ ~started /\ ~destroyed
    /\ ~Locked
    /\ destroyed' = TRUE
    /\ IF mProcessThread # 0 THEN StopAll ELSE UNCHANGED process
    /\ registered' = Unregister(mDeviceStateReceiver)
    /\ mDeviceStateReceiver' = 0
    /\ UNCHANGED <<started, revocations, queue, command, fields, gui,
                   ending, management, reader, interrupted>>

\* The runnable that startOpenVPN leaves to the main thread.
SwapReceiver ==
    /\ gui # <<>>
    /\ gui' = Tail(gui)
    /\ LET old == Head(gui)[1]
           new == Head(gui)[2]
       IN /\ registered' = (IF old = 0 THEN registered ELSE Unregister(old))
                            \cup {new}
          /\ mDeviceStateReceiver' = new
    /\ UNCHANGED <<service, queue, command, fields, ending, management,
                   session>>

-----------------------------------------------------------------------------
(* startOpenVPN, on the command thread.                                    *)

\* fetchVPNProfile finds nothing: stopSelf(startId), which the system ignores
\* unless it is the last start.
StartWithoutProfile ==
    /\ command = "idle" /\ queue # <<>> /\ Head(queue) = "start"
    /\ queue' = Tail(queue)
    /\ started' = (started /\ \E k \in 2 .. Len(queue) : queue[k] = "start")
    /\ UNCHANGED <<environment, command, fields, receivers, ending, management,
                   session>>

StartBegins ==
    /\ command = "idle" /\ queue # <<>> /\ Head(queue) = "start"
    /\ queue' = Tail(queue)
    /\ mStarting' = TRUE
    /\ command' = "stops"
    /\ UNCHANGED <<service, mProcessThread, receivers, ending, management,
                   session>>

\* stopOldOpenVPNProcess: stopVPN(true); what it returns only decides whether
\* the thread sleeps.
StopOld ==
    /\ command = "stops"
    /\ command' = "forces"
    /\ IF mManagement # 0 THEN StopAll ELSE UNCHANGED process
    /\ UNCHANGED <<service, queue, fields, receivers, ending, management,
                   reader, interrupted>>

\* forceStopOpenVpnProcess takes the lock, and keeps it while it sleeps.
ForceStop ==
    /\ command = "forces"
    /\ command' = IF mProcessThread # 0 THEN "sleeps" ELSE "stopped"
    /\ interrupted' = interrupted \cup
           {i \in Sessions : i = mProcessThread /\ reader[i] = "reads"}
    /\ UNCHANGED <<service, queue, fields, receivers, ending, management,
                   reader, process>>

ForceStopEnds ==
    /\ command = "sleeps"
    /\ command' = "stopped"
    /\ UNCHANGED <<service, queue, fields, receivers, ending, management,
                   session>>

\* Mutant of StoppedOld: forgets to reset mStarting.
StoppedOldStillStarting ==
    /\ command = "stopped"
    /\ command' = "opens"
    /\ UNCHANGED <<service, queue, fields, receivers, ending, management,
                   session>>

\* "An old running VPN should now be exited".
StoppedOld ==
    /\ command = "stopped"
    /\ command' = "opens"
    /\ mStarting' = FALSE
    /\ UNCHANGED <<service, queue, mProcessThread, receivers, ending,
                   management, session>>

\* openManagementInterface binds the path, taking it from the session before,
\* and the management thread is started.
OpenManagement ==
    /\ command = "opens"
    /\ command' = "forks"
    /\ mManagement' = mManagement + 1
    /\ accepting' = TRUE
    /\ UNCHANGED <<service, queue, fields, receivers, ending, session>>

\* The command thread gives the start up and runs endVpnService.
GiveUp ==
    /\ command' = "fails"
    /\ ending' = [ending EXCEPT ![CommandThread] = "clears"]

OpenFails ==
    /\ command = "opens"
    /\ GiveUp
    /\ UNCHANGED <<service, queue, fields, receivers, management, session>>

\* Mutant of Fork: numbers the thread one too far.
ForkAhead ==
    /\ command = "forks"
    /\ command' = "configures"
    /\ mProcessThread' = mManagement + 1
    /\ reader' = [reader EXCEPT ![mManagement] = "reads"]
    /\ process' = [process EXCEPT ![mManagement] = "waits"]
    /\ UNCHANGED <<service, queue, mStarting, receivers, ending, management,
                   interrupted>>

\* Mutant of Fork: the thread is made and not started.
ForkWithoutStart ==
    /\ command = "forks"
    /\ command' = "configures"
    /\ mProcessThread' = mManagement
    /\ UNCHANGED <<service, queue, mStarting, receivers, ending, management,
                   session>>

Fork ==
    /\ command = "forks"
    /\ command' = "configures"
    /\ mProcessThread' = mManagement
    /\ reader' = [reader EXCEPT ![mManagement] = "reads"]
    /\ process' = [process EXCEPT ![mManagement] = "waits"]
    /\ UNCHANGED <<service, queue, mStarting, receivers, ending, management,
                   interrupted>>

\* writeConfigFileOutput, and the receiver that the main thread is to swap in.
Configure ==
    /\ command = "configures"
    /\ process[mManagement] = "waits"
    /\ process' = [process EXCEPT ![mManagement] = "configured"]
    /\ gui' = Append(gui, <<mDeviceStateReceiver, mManagement>>)
    /\ command' = "idle"
    /\ UNCHANGED <<service, queue, fields, mDeviceStateReceiver, registered,
                   ending, management, reader, interrupted>>

\* The process has died before it read its configuration.
ConfigureFails ==
    /\ command = "configures"
    /\ process[mManagement] = "exited"
    /\ GiveUp
    /\ UNCHANGED <<service, queue, fields, receivers, management, session>>

StartFailed ==
    /\ command = "fails" /\ ending[CommandThread] = "no"
    /\ command' = "idle"
    /\ UNCHANGED <<service, queue, fields, receivers, ending, management,
                   session>>

\* Mutant of StopPosted: the stop is taken off the queue and not done.
StopSkipped ==
    /\ command = "idle" /\ queue # <<>> /\ Head(queue) = "stop"
    /\ queue' = Tail(queue)
    /\ UNCHANGED <<service, command, fields, receivers, ending, management,
                   session>>

\* The stop that onRevoke has posted.
StopPosted ==
    /\ command = "idle" /\ queue # <<>> /\ Head(queue) = "stop"
    /\ queue' = Tail(queue)
    /\ StopAll
    /\ UNCHANGED <<service, command, fields, receivers, ending, management,
                   reader, interrupted>>

-----------------------------------------------------------------------------
(* endVpnService, on any of the threads that run it.                       *)

ClearProcessThread(e) ==
    /\ ending[e] = "clears"
    /\ ~Locked
    /\ mProcessThread' = 0
    /\ ending' = [ending EXCEPT ![e] = "unregisters"]
    /\ UNCHANGED <<service, queue, command, mStarting, receivers, management,
                   session>>

UnregisterReceiver(e) ==
    /\ ending[e] = "unregisters"
    /\ registered' = Unregister(mDeviceStateReceiver)
    /\ ending' = [ending EXCEPT ![e] = "drops"]
    /\ UNCHANGED <<service, queue, command, fields, mDeviceStateReceiver, gui,
                   management, session>>

\* Mutant of DropReceiver: leaves the field as it is.
KeepReceiver(e) ==
    /\ ending[e] = "drops"
    /\ ending' = [ending EXCEPT ![e] = "leaves"]
    /\ UNCHANGED <<service, queue, command, fields, receivers, management,
                   session>>

\* Without the lock that unregistering takes: the main thread may have swapped
\* a new receiver in meanwhile, and then it is the new one that is forgotten.
DropReceiver(e) ==
    /\ ending[e] = "drops"
    /\ mDeviceStateReceiver' = 0
    /\ ending' = [ending EXCEPT ![e] = "leaves"]
    /\ UNCHANGED <<service, queue, command, fields, registered, gui, management,
                   session>>

\* stopForeground and stopSelf, unless a start is replacing the session.
Leave(e) ==
    /\ ending[e] = "leaves"
    /\ started' = (started /\ mStarting)
    /\ ending' = [ending EXCEPT ![e] = "no"]
    /\ UNCHANGED <<environment, queue, command, fields, receivers, management,
                   session>>

endVpnService(e) ==
    \/ ClearProcessThread(e) \/ UnregisterReceiver(e) \/ DropReceiver(e)
    \/ Leave(e)

-----------------------------------------------------------------------------
(* A session's process, and the OpenVPNThread that reads what it prints.   *)

\* It connects to whoever listens on the path, the last session made.
ProcessConnects(i) ==
    /\ process[i] = "configured" /\ accepting
    /\ process' = [process EXCEPT ![i] = "connected"]
    /\ accepting' = FALSE
    /\ UNCHANGED <<service, queue, command, fields, receivers, ending,
                   mManagement, reader, interrupted>>

\* Somebody else has been accepted already, and nobody listens any more.
ProcessRefused(i) ==
    /\ process[i] = "configured" /\ ~accepting
    /\ process' = [process EXCEPT ![i] = "exited"]
    /\ UNCHANGED <<service, queue, command, fields, receivers, ending,
                   management, reader, interrupted>>

\* SIGINT, or the end of the socket, ends it.
ProcessStops(i) ==
    /\ process[i] = "told"
    /\ process' = [process EXCEPT ![i] = "exited"]
    /\ UNCHANGED <<service, queue, command, fields, receivers, ending,
                   management, reader, interrupted>>

\* It ends by itself: a failed login, a bad configuration, a crash.
ProcessDies(i) ==
    /\ process[i] \in Alive
    /\ process' = [process EXCEPT ![i] = "exited"]
    /\ UNCHANGED <<service, queue, command, fields, receivers, ending,
                   management, reader, interrupted>>

\* Mutant of ReaderDestroys: looks at the interrupt only before it connects.
ReaderDestroysEarly(i) ==
    /\ reader[i] = "reads" /\ i \in interrupted
    /\ process[i] = "configured"
    /\ process' = [process EXCEPT ![i] = "exited"]
    /\ UNCHANGED <<service, queue, command, fields, receivers, ending,
                   management, reader, interrupted>>

\* The first line after an interrupt makes the thread destroy the process.
ReaderDestroys(i) ==
    /\ reader[i] = "reads" /\ i \in interrupted
    /\ process[i] \in Alive \ {"waits"}
    /\ process' = [process EXCEPT ![i] = "exited"]
    /\ UNCHANGED <<service, queue, command, fields, receivers, ending,
                   management, reader, interrupted>>

\* The process is gone: NOPROCESS is reported and openvpnStopped called, as
\* nobody has called setReplaceConnection (mOpenVPNThread is never assigned).
ReaderEnds(i) ==
    /\ reader[i] = "reads" /\ process[i] = "exited"
    /\ reader' = [reader EXCEPT ![i] = "over"]
    /\ interrupted' = interrupted \ {i}
    /\ ending' = [ending EXCEPT ![i] = "clears"]
    /\ UNCHANGED <<service, queue, command, fields, receivers, management,
                   process>>

-----------------------------------------------------------------------------
startOpenVPN ==
    \/ StartWithoutProfile \/ StartBegins \/ StopOld \/ ForceStop
    \/ ForceStopEnds \/ StoppedOld \/ OpenManagement \/ OpenFails \/ Fork
    \/ Configure \/ ConfigureFails \/ StartFailed \/ StopPosted

\* What a process and its reader do sooner or later; dying is not among it.
ProcessGoesOn(i) ==
    \/ ProcessConnects(i) \/ ProcessRefused(i)
    \/ ProcessStops(i) \/ ReaderDestroys(i)

Others ==
    \/ Revoke \/ Destroy \/ SwapReceiver
    \/ startOpenVPN
    \/ \E e \in Enders : endVpnService(e)
    \/ \E i \in Sessions : ReaderEnds(i) \/ ProcessGoesOn(i) \/ ProcessDies(i)

Next == Start \/ Stop \/ Others

\* Every thread goes on, and so does every process that is told to; no process
\* dies, no user starts or stops, and no system revokes because it has to.
Fairness ==
    /\ WF_vars(SwapReceiver)
    /\ WF_vars(startOpenVPN)
    /\ \A e \in Enders : WF_vars(endVpnService(e))
    /\ \A i \in Sessions : WF_vars(ReaderEnds(i)) /\ WF_vars(ProcessGoesOn(i))

Spec == Init /\ [][Next]_vars /\ Fairness

-----------------------------------------------------------------------------
TypeOK ==
    /\ revocations \in 0 .. MaxRevocations
    /\ {started, destroyed, mStarting, accepting} \subseteq BOOLEAN
    /\ queue \in Seq({"start", "stop"})
    /\ command \in {"idle", "stops", "forces", "sleeps", "stopped", "opens",
                    "forks", "configures", "fails"}
    /\ {mManagement, mProcessThread, mDeviceStateReceiver}
           \subseteq 0 .. MaxSessions
    /\ gui \in Seq((0 .. MaxSessions) \X Sessions)
    /\ ending \in [Enders -> {"no", "clears", "unregisters", "drops", "leaves"}]
    /\ registered \subseteq Sessions
    /\ interrupted \subseteq Sessions
    /\ reader \in [Sessions -> {"none", "reads", "over"}]
    /\ process \in [Sessions -> Alive \cup {"none", "exited"}]

\* The receiver that the field names is registered: pause and resume, which go
\* through the field, never reach one that hears nothing of the network, but for
\* the moment between the two steps of a thread that is tidying up.
FieldIsRegistered ==
    mDeviceStateReceiver # 0 /\ (\A e \in Enders : ending[e] # "drops")
        => mDeviceStateReceiver \in registered

\* A session is forked once, by the start that made it: until then nobody reads
\* for it, mProcessThread names only a thread that was started, and only a thread
\* that still reads is interrupted.  (startOpenVPN, forceStopOpenVpnProcess.)
ForkedOnce ==
    /\ command = "forks" => mManagement # 0 /\ reader[mManagement] = "none"
    /\ command = "configures" => mManagement # 0 /\ reader[mManagement] # "none"
    /\ mProcessThread # 0 => reader[mProcessThread] # "none"
    /\ \A i \in Sessions :
          /\ i > mManagement => reader[i] = "none"
          /\ reader[i] = "none" <=> process[i] = "none"
          /\ i \in interrupted => reader[i] = "reads"

\* A thread tidies up for one reason at a time: a session's own only when it has
\* read its last line, the command thread only for the start that has failed.
\* (openvpnStopped, startOpenVPN, endVpnService.)
EndsOnce ==
    /\ command # "fails" => ending[CommandThread] = "no"
    /\ \A i \in Sessions : reader[i] # "over" => ending[i] = "no"

\* There is a number for every start that is accepted.
RoomForAll == mManagement + Starts <= MaxSessions

\* The inductive invariant.  (startOpenVPN, endVpnService, the swap of receivers.)
IInv == TypeOK /\ RoomForAll /\ ForkedOnce /\ EndsOnce /\ FieldIsRegistered

\* Every process that is told to stop, or whose reader is interrupted, ends,
\* and its thread gets through endVpnService: stopVPN and
\* forceStopOpenVpnProcess only ask, and the latter keeps the lock meanwhile.
TheToldEnd ==
    \A i \in Sessions :
        \/ process[i] = "told"
        \/ i \in interrupted /\ process[i] \in Alive
        ~> Finished(i)

\* A session that is revoked ends: onRevoke has tidied up already, but the stop
\* itself waits for the command thread, behind the starts that came before.
RevokedEnd ==
    \A i \in Sessions :
        process[i] = "connected" /\ (\E k \in DOMAIN queue : queue[k] = "stop")
            ~> process[i] = "exited"

\* When no process runs and no start is under way, the service goes: an
\* endVpnService that finds a start under way leaves stopSelf to that start.
Quiet ==
    /\ command = "idle" /\ queue = <<>>
    /\ \A i \in Sessions : process[i] \notin Alive
ServiceLeaves == Quiet ~> (~started \/ ~Quiet)

-----------------------------------------------------------------------------
(* What the code does not keep.                                            *)

\* updateState takes a null mProcessThread for "the process is not running":
\* but the late end of a session that was replaced nulls it for the new one.
\* A revocation, which nulls it on purpose, is left aside, and so are the
\* processes that are about to be destroyed.
NullIfNotRunning ==
    mProcessThread = 0 /\ command = "idle" /\ revocations = 0
        => \A i \in Sessions : process[i] = "connected" => i \in interrupted

=============================================================================
