------------------------------ MODULE SsService ------------------------------
(***************************************************************************)
(* The shadowsocks VPN service of core/: BaseService.Data, the default     *)
(* methods of BaseService.Interface, VpnService, GuardedProcessPool and    *)
(* BootReceiver.enabled, as they run in the process ":bg".                 *)
(*                                                                         *)
(* All of this code runs on the main thread; an action is what the main    *)
(* thread does between two points where a coroutine suspends.  Two         *)
(* coroutines matter: the connecting job (data.connectingJob) and the      *)
(* clean-up that stopRunner launches.  Native processes and the threads of *)
(* the local sockets run beside them and end on their own.                 *)
(***************************************************************************)
EXTENDS Naturals, ServiceStates

CONSTANT MaxStarts    \* bound: user starts that may be waiting for delivery

ASSUME MaxStartsAssumption == MaxStarts \in Nat \ {0}

VARIABLES
    state,      \* data.state
    job,        \* where the connecting job is suspended; "none": connectingJob == null
    cancelled,  \* connectingJob was cancelled and has not completed yet
    tries,      \* sendFd's failed attempts
    stopper,    \* the clean-up coroutine of stopRunner
    restart,    \* stopRunner's parameter, as captured by that coroutine
    held,       \* the fields of Data and VpnService that are not null / true
    live,       \* native processes and socket threads that exist
    dying,      \* those the clean-up has told to end and is waiting for
    exited,     \* processes that ended, before their guard has heard of it
    resending,  \* tun2socks was restarted; its guard sends it the tun descriptor
    hung,       \* guards that wait for an exit code nobody will send
    fatal,      \* a GuardedProcessPool has posted onFatal to the main thread
    listening,  \* DefaultNetworkListener has this service among its listeners
    starts,     \* start intents on their way to onStartCommand
    boot,       \* BootReceiver.enabled, kept by the package manager
    owed,       \* startForegroundService() not answered by startForeground() yet
    crashed     \* ":bg" died and no session has run since

guards == <<exited, resending, hung>>
lifecycle == <<state, stopper, restart, held, dying, cancelled, guards>>
vars == <<state, job, cancelled, tries, stopper, restart, held, live, dying, guards,
          fatal, listening, starts, boot, owed, crashed>>

-----------------------------------------------------------------------------
(* The parts of a session. *)

Processes == {"ssLocal", "ssLocalUdp", "tun2socks"}

\* A mutant is a definition with a plausible bug; it stands before the definition
\* it takes the place of.  Mutant: killAll forgets one of the programs.
ExecutablesButTun == Processes \ {"tun2socks"}

Executables == Processes    \* those that Executable.killAll looks for
Threads == {"trafficMain", "trafficUdp", "localDnsThread", "protectThread"}
Things == Processes \cup Threads

\* What onStartCommand sets up before the job runs, and what the job adds.
EarlyFields == {"proxy", "udpFallback", "closeReceiver", "notification"}
RunFields == {"processes", "worker", "localDns", "conn"}
Fields == EarlyFields \cup RunFields

\* The field through which killProcesses or ProxyInstance.shutdown ends a thing.
Owner == [t \in Things |->
            CASE t \in Processes         -> "processes"
              [] t = "trafficMain"       -> "proxy"
              [] t = "trafficUdp"        -> "udpFallback"
              [] t = "localDnsThread"    -> "localDns"
              [] t = "protectThread"     -> "worker"]

\* Mutant: VpnService starts the thread that protects sockets after the proxies.
LateStage == [x \in Things \cup RunFields |->
            CASE x = "processes"                        -> 1
              [] x = "trafficMain"                      -> 2
              [] x = "ssLocal"                          -> 3
              [] x = "trafficUdp"                       -> 4
              [] x = "ssLocalUdp"                       -> 5
              [] x \in {"worker", "protectThread"}      -> 6
              [] x \in {"localDns", "localDnsThread"}   -> 7
              [] x = "conn"                             -> 8
              [] x = "tun2socks"                        -> 9]

\* The order in which startProcesses acquires them; a thing and the field that
\* owns it come together, or the thing right after the field it hangs on.
Stage == [x \in Things \cup RunFields |->
            CASE x = "processes"                        -> 1
              [] x \in {"worker", "protectThread"}      -> 2
              [] x = "trafficMain"                      -> 3
              [] x = "ssLocal"                          -> 4
              [] x = "trafficUdp"                       -> 5
              [] x = "ssLocalUdp"                       -> 6
              [] x \in {"localDns", "localDnsThread"}   -> 7
              [] x = "conn"                             -> 8
              [] x = "tun2socks"                        -> 9]
LastStage == 9

\* A session whose fields are h has a second proxy only with a UDP fallback.
ThingsOf(h) ==
    IF "udpFallback" \in h THEN Things ELSE Things \ {"trafficUdp", "ssLocalUdp"}

FieldsUpTo(n) == {f \in RunFields : Stage[f] <= n}
ThingsUpTo(n) == {t \in ThingsOf(held) : Stage[t] <= n}

JobPcs == {"none", "posted", "preInit", "inited", "flatten", "sendFd", "dead"}
\* Mutant: the clean-up does not wait for the connecting job.
NoJobToJoin == FALSE

\* Mutant: a job cancelled before it began is waited for, though its finally never runs.
JobReferenced == job # "none"

JobActive == job \notin {"none", "dead"}

\* Mutant: a cancelled job goes on with the result it was waiting for.
RunsAnyway(pc) == job = pc

\* The job is resumed at pc: a cancelled job is never resumed with a result.
Runs(pc) == job = pc /\ ~cancelled

MaxTries == 5
\* Mutant: one attempt too many.
GivesUpLate == tries > MaxTries + 1
GivesUp == tries > MaxTries    \* sendFd, when one more attempt has failed

-----------------------------------------------------------------------------
Init ==
    /\ state = "Stopped" /\ job = "none" /\ cancelled = FALSE /\ tries = 0
    /\ stopper = "none" /\ restart = FALSE
    /\ held = {} /\ live = {} /\ dying = {}
    /\ exited = {} /\ resending = FALSE /\ hung = {}
    /\ fatal = FALSE /\ listening = FALSE
    /\ starts = 0 /\ boot = FALSE /\ owed = FALSE /\ crashed = FALSE

-----------------------------------------------------------------------------
(* stopRunner, shared by every handler that stops the service. *)

\* Guards that are not waiting for an exit code that will come: the code has been
\* sent already, or no thread waits for the restarted process yet.
Deaf == exited \cup (IF resending THEN {"tun2socks"} ELSE {})

\* The pool is cancelled.  A cancelled guard asks for the exit code of a process
\* it believes to be running, and does not end before it has one.
CloseGuards ==
    /\ exited' = {} /\ resending' = FALSE
    /\ hung' = hung \cup Deaf

\* Mutant: the local DNS worker is forgotten.
CleanUpForgetsDns(h) ==
    /\ stopper' = "cleaning"
    /\ dying' = {t \in live : Owner[t] \in h \ {"localDns"}}
    /\ held' = {}
    /\ cancelled' = FALSE
    /\ CloseGuards

\* Mutant: the pool is dropped without being closed, and nobody waits for it.
CleanUpForgetsPool(h) ==
    /\ stopper' = "cleaning"
    /\ dying' = {t \in live : Owner[t] \in h \ {"processes"}}
    /\ held' = {}
    /\ cancelled' = FALSE
    /\ CloseGuards

\* The clean-up once no connecting job is left, with the fields h set: every
\* owner still referenced is told to end its things and every reference is
\* dropped, in one go on the main thread.
CleanUp(h) ==
    /\ stopper' = "cleaning"
    /\ dying' = {t \in live : Owner[t] \in h}
    /\ held' = {}
    /\ cancelled' = FALSE
    /\ CloseGuards

StopIgnored == state = "Stopping"

\* stopRunner(r) with the fields h set: ignored while stopping, otherwise it
\* cancels a connecting job, and cleans up when there is none to wait for.
StopRunner(r, h) ==
    \/ /\ StopIgnored
       /\ held' = h
       /\ UNCHANGED <<state, stopper, restart, dying, cancelled, guards>>
    \/ /\ ~StopIgnored
       /\ state' = "Stopping"
       /\ restart' = r
       /\ \/ /\ JobActive
             /\ stopper' = "joining"
             /\ cancelled' = TRUE
             /\ held' = h
             /\ UNCHANGED <<dying, guards>>
          \/ /\ ~JobActive
             /\ CleanUp(h)

\* connectingJob?.cancelAndJoin() has returned.
Joined ==
    /\ stopper = "joining"
    /\ ~JobActive
    /\ CleanUp(held)
    /\ UNCHANGED <<state, job, tries, restart, live, fatal, listening, starts,
                   boot, owed, crashed>>

\* A process or thread that was told to end has ended.
Dies(t) ==
    /\ t \in dying
    /\ live' = live \ {t}
    /\ dying' = dying \ {t}
    /\ UNCHANGED <<state, job, cancelled, tries, stopper, restart, held, guards, fatal,
                   listening, starts, boot, owed, crashed>>

\* Mutant: the clean-up does not join what it told to end.
NobodyWaits == TRUE

AllEnded == dying = {} /\ hung = {}

\* Mutant: the boot receiver is disabled only when a session was restarted.
LeaveBootAlone ==
    IF restart
    THEN starts' = starts + 1 /\ owed' = TRUE /\ boot' = FALSE
    ELSE owed' = FALSE /\ UNCHANGED <<boot, starts>>

\* startRunner() for a reload; otherwise BootReceiver.enabled = false, stopSelf().
StartAgainOrLeave ==
    IF restart
    THEN starts' = starts + 1 /\ owed' = TRUE /\ UNCHANGED boot
    ELSE boot' = FALSE /\ owed' = FALSE /\ UNCHANGED starts

\* The coroutineScope of the clean-up has returned.  The main looper is FIFO:
\* an onFatal posted before the pool was closed runs before this resumption,
\* which the ending threads post.
CleanedUp ==
    /\ stopper = "cleaning"
    /\ AllEnded
    /\ ~fatal
    /\ state' = "Stopped"
    /\ stopper' = "none"
    /\ restart' = FALSE
    /\ StartAgainOrLeave
    /\ UNCHANGED <<job, cancelled, tries, held, live, dying, guards, fatal, listening,
                   crashed>>

-----------------------------------------------------------------------------
(* Starting: Core.startService() and onStartCommand. *)

\* Core.startService(), from the user interface, BootReceiver or the system.
UserStart ==
    /\ starts < MaxStarts
    /\ starts' = starts + 1
    /\ owed' = (owed \/ "notification" \notin held)
    /\ UNCHANGED <<lifecycle, job, tries, live, fatal, listening, boot, crashed>>

\* onStartCommand without the VPN permission, or in another service mode.
StartRefused ==
    /\ starts > 0
    /\ starts' = starts - 1
    /\ StopRunner(FALSE, held)
    /\ UNCHANGED <<job, tries, live, fatal, listening, boot, owed, crashed>>

\* onStartCommand while a session exists.
StartIgnored ==
    /\ starts > 0
    /\ state # "Stopped"
    /\ starts' = starts - 1
    /\ UNCHANGED <<lifecycle, job, tries, live, fatal, listening, boot, owed, crashed>>

\* onStartCommand with no profile, or with one that ProxyInstance rejects: the
\* second of the two instances may be the one that is rejected.
StartWithoutProfile ==
    /\ starts > 0
    /\ state = "Stopped"
    /\ starts' = starts - 1
    /\ \E h \in {{"notification"}, {"notification", "proxy"}} : StopRunner(FALSE, h)
    /\ owed' = FALSE
    /\ UNCHANGED <<job, tries, live, fatal, listening, boot, crashed>>

\* onStartCommand that launches the connecting job; persist is
\* DataStore.persistAcrossReboot, fallback says the profile has a UDP fallback.
StartAccepted ==
    /\ starts > 0
    /\ state = "Stopped"
    /\ starts' = starts - 1
    /\ \E fallback, persist \in BOOLEAN :
          /\ held' = IF fallback THEN EarlyFields ELSE EarlyFields \ {"udpFallback"}
          /\ boot' = persist
    /\ state' = "Connecting"
    /\ job' = "posted"
    /\ owed' = FALSE
    /\ UNCHANGED <<cancelled, tries, stopper, restart, live, dying, guards, fatal,
                   listening, crashed>>

-----------------------------------------------------------------------------
(* The connecting job. *)

\* Executable.killAll(), up to the actor call of preInit.
JobBegins ==
    /\ Runs("posted")
    /\ job' = "preInit"
    /\ live' = live \ Executables
    /\ crashed' = FALSE
    /\ UNCHANGED <<lifecycle, tries, fatal, listening, starts, boot, owed>>

\* preInit: the network actor has taken the Start message.
JobListens ==
    /\ Runs("preInit")
    /\ job' = "inited"
    /\ listening' = TRUE
    /\ UNCHANGED <<lifecycle, tries, live, fatal, starts, boot, owed, crashed>>

\* The profile's route is CUSTOM_RULES: the rules are fetched and flattened on an
\* I/O thread.
JobFlattens ==
    /\ Runs("inited")
    /\ job' = "flatten"
    /\ UNCHANGED <<lifecycle, tries, live, fatal, listening, starts, boot, owed, crashed>>

\* Mutant: the failure is logged and nothing is stopped.
JobFailsSilently(h) ==
    /\ job' = "none"
    /\ held' = h
    /\ UNCHANGED <<state, stopper, restart, cancelled, dying, guards>>

\* The job throws, with the fields h set: its catch calls stopRunner, which waits
\* for this very job, and its finally clears connectingJob.
JobFails(h) ==
    /\ job' = "none"
    /\ state' = "Stopping"
    /\ stopper' = "joining"
    /\ restart' = FALSE
    /\ held' = h
    /\ UNCHANGED <<cancelled, dying, guards>>

\* Fetching the custom rules failed.
FlattenFails ==
    /\ Runs("flatten")
    /\ JobFails(held)
    /\ UNCHANGED <<tries, live, fatal, listening, starts, boot, owed, crashed>>

\* startProcesses up to the first delay of sendFd, or up to stage n, where it throws.
JobStarts ==
    /\ Runs("inited") \/ Runs("flatten")
    /\ \E n \in 1..LastStage :
          /\ live' = live \cup ThingsUpTo(n)
          /\ \/ /\ n = LastStage
                /\ job' = "sendFd"
                /\ tries' = 0
                /\ held' = held \cup RunFields
                /\ UNCHANGED <<state, cancelled, stopper, restart, dying, guards>>
             \/ /\ JobFails(held \cup FieldsUpTo(n))
                /\ UNCHANGED tries
    /\ UNCHANGED <<fatal, listening, starts, boot, owed, crashed>>

\* An attempt to hand the tun descriptor to tun2socks, which must be there.
SendFdSucceeds ==
    /\ Runs("sendFd")
    /\ "tun2socks" \in live
    /\ job' = "none"
    /\ state' = "Connected"
    /\ UNCHANGED <<cancelled, tries, stopper, restart, held, live, dying, guards, fatal,
                   listening, starts, boot, owed, crashed>>

SendFdFails ==
    /\ Runs("sendFd")
    /\ \/ /\ GivesUp
          /\ JobFails(held)
          /\ UNCHANGED tries
       \/ /\ ~GivesUp
          /\ tries' = tries + 1
          /\ UNCHANGED <<lifecycle, job>>
    /\ UNCHANGED <<live, fatal, listening, starts, boot, owed, crashed>>

\* A cancelled job completes.  One that had not begun never runs its finally.
JobCancelled ==
    /\ JobActive /\ cancelled
    /\ job' = IF job = "posted" THEN "dead" ELSE "none"
    /\ cancelled' = FALSE
    /\ UNCHANGED <<state, tries, stopper, restart, held, live, dying, guards, fatal,
                   listening, starts, boot, owed, crashed>>

-----------------------------------------------------------------------------
(* Events of a session. *)

\* A process ends by itself.  The thread that waits for it sends its exit code to
\* its guard; while the guard is sending the descriptor there is no such thread.
ProcessExits(p) ==
    /\ p \in live
    /\ "processes" \in held
    /\ live' = live \ {p}
    /\ exited' = exited \cup ({p} \ Deaf)
    /\ UNCHANGED <<state, job, cancelled, tries, stopper, restart, held, dying, resending,
                   hung, fatal, listening, starts, boot, owed, crashed>>

\* The guard hears of it and gives up: the process ran for less than a second, or
\* cannot be started again.
GuardGivesUp(p) ==
    /\ p \in exited
    /\ exited' = exited \ {p}
    /\ fatal' = TRUE
    /\ UNCHANGED <<state, job, cancelled, tries, stopper, restart, held, live, dying,
                   resending, hung, listening, starts, boot, owed, crashed>>

\* The guard starts the process again; tun2socks' is then given the descriptor.
GuardRestarts(p) ==
    /\ p \in exited
    /\ exited' = exited \ {p}
    /\ live' = live \cup {p}
    /\ resending' = (resending \/ p = "tun2socks")
    /\ UNCHANGED <<state, job, cancelled, tries, stopper, restart, held, dying, hung,
                   fatal, listening, starts, boot, owed, crashed>>

\* The restart callback returns, and a thread waits for the process again.
ResendSucceeds ==
    /\ resending
    /\ "tun2socks" \in live
    /\ resending' = FALSE
    /\ UNCHANGED <<state, job, cancelled, tries, stopper, restart, held, live, dying, exited,
                   hung, fatal, listening, starts, boot, owed, crashed>>

\* The restart callback throws: the guard reports it, destroys the process, and
\* waits for an exit code that no thread is there to send.
ResendFails ==
    /\ resending
    /\ resending' = FALSE
    /\ fatal' = TRUE
    /\ live' = live \ {"tun2socks"}
    /\ hung' = hung \cup {"tun2socks"}
    /\ UNCHANGED <<state, job, cancelled, tries, stopper, restart, held, dying, exited,
                   listening, starts, boot, owed, crashed>>

\* The pool's onFatal runs on the main thread.
FatalError ==
    /\ fatal
    /\ fatal' = FALSE
    /\ StopRunner(FALSE, held)
    /\ UNCHANGED <<job, tries, live, listening, starts, boot, owed, crashed>>

\* Action.CLOSE, or the notification's button.
Close ==
    /\ "closeReceiver" \in held
    /\ StopRunner(FALSE, held)
    /\ UNCHANGED <<job, tries, live, fatal, listening, starts, boot, owed, crashed>>

\* Action.RELOAD: forceLoad.  The receiver is not registered while Stopped, and
\* while Stopping forceLoad only logs.
Reload ==
    /\ "closeReceiver" \in held
    /\ state \in {"Connecting", "Connected"}
    /\ StopRunner(TRUE, held)
    /\ UNCHANGED <<job, tries, live, fatal, listening, starts, boot, owed, crashed>>

\* onRevoke, taken as a call on the main thread: another VPN took over.  It may
\* arrive late.
Revoke ==
    /\ listening
    /\ StopRunner(FALSE, held)
    /\ UNCHANGED <<job, tries, live, fatal, listening, starts, boot, owed, crashed>>

\* ":bg" dies: only the package manager's setting, undelivered starts and some of
\* the child processes survive.
Crash ==
    /\ state' = "Stopped" /\ job' = "none" /\ cancelled' = FALSE /\ tries' = 0
    /\ stopper' = "none" /\ restart' = FALSE /\ held' = {} /\ dying' = {}
    /\ live' \in SUBSET (live \cap Processes)
    /\ exited' = {} /\ resending' = FALSE /\ hung' = {}
    /\ fatal' = FALSE /\ listening' = FALSE /\ crashed' = TRUE
    /\ UNCHANGED <<starts, boot, owed>>

-----------------------------------------------------------------------------
OnStartCommand == StartRefused \/ StartIgnored \/ StartWithoutProfile \/ StartAccepted

ConnectingJob ==
    \/ JobBegins \/ JobListens \/ JobFlattens \/ FlattenFails \/ JobStarts
    \/ SendFdSucceeds \/ SendFdFails \/ JobCancelled

Stopper == Joined \/ (\E t \in Things : Dies(t)) \/ CleanedUp

Guard(p) == GuardGivesUp(p) \/ GuardRestarts(p)

Guarding == (\E p \in Processes : Guard(p)) \/ ResendSucceeds \/ ResendFails

Environment ==
    \/ UserStart \/ Close \/ Reload \/ Revoke \/ Crash
    \/ \E p \in Processes : ProcessExits(p)

Next ==
    \/ OnStartCommand \/ ConnectingJob \/ Stopper \/ Guarding \/ FatalError
    \/ Environment

\* The main thread keeps dispatching, sendFd's timer fires, and what was told to
\* end ends (SIGKILL, shut-down sockets).  Fetching the rules may hang until the
\* job is cancelled; users, processes and crashes owe nothing.
Fairness ==
    /\ WF_vars(OnStartCommand)
    /\ WF_vars(JobBegins) /\ WF_vars(JobListens)
    /\ WF_vars(job = "inited" /\ (JobFlattens \/ JobStarts))
    /\ WF_vars(SendFdSucceeds \/ SendFdFails)
    /\ WF_vars(JobCancelled)
    /\ WF_vars(Joined) /\ WF_vars(CleanedUp) /\ WF_vars(FatalError)
    /\ WF_vars(ResendSucceeds \/ ResendFails)
    /\ \A p \in Processes : WF_vars(Guard(p))
    /\ \A t \in Things : WF_vars(Dies(t))

Spec == Init /\ [][Next]_vars
FairSpec == Spec /\ Fairness

-----------------------------------------------------------------------------
(* Properties. *)

TypeOK ==
    /\ state \in States /\ job \in JobPcs /\ cancelled \in BOOLEAN
    /\ tries \in 0..(MaxTries + 1)
    /\ stopper \in {"none", "joining", "cleaning"} /\ restart \in BOOLEAN
    /\ held \subseteq Fields /\ live \subseteq Things /\ dying \subseteq live
    /\ exited \subseteq Processes /\ resending \in BOOLEAN /\ hung \subseteq Processes
    /\ fatal \in BOOLEAN /\ listening \in BOOLEAN
    /\ starts \in Nat /\ boot \in BOOLEAN /\ owed \in BOOLEAN /\ crashed \in BOOLEAN

\* A service that says Stopped holds nothing: no reference, no coroutine, and no
\* process or thread but the orphans of a crash.  (BaseService.stopRunner reports
\* Stopped only after its clean-up.)
StoppedIsClean ==
    state = "Stopped" =>
        /\ held = {} /\ stopper = "none" /\ ~JobActive
        /\ Deaf = {} /\ hung = {} /\ ~fatal
        /\ live # {} => crashed /\ live \subseteq Processes

\* A service that says Connected has every part of a session and each thread, and
\* each native process runs, or its guard is about to deal with its end, or a
\* fatal error is already on its way.
ConnectedIsComplete ==
    state = "Connected" =>
        /\ Fields \ {"udpFallback"} \subseteq held
        /\ ThingsOf(held) \ Processes \subseteq live
        /\ ~fatal => ThingsOf(held) \subseteq live \cup Deaf

\* A session starts its processes and sockets only when nothing of an earlier
\* session, stopped, restarted or crashed, is left to collide with.
NoOverlap ==
    job \in {"preInit", "inited", "flatten"} => live = {}

\* Whatever runs can still be ended: its owner is referenced, or it has been told
\* to end, or it is an orphan that the next session's killAll will find.
NothingLeaks ==
    \A t \in live : \/ Owner[t] \in held
                    \/ t \in dying
                    \/ crashed /\ t \in Processes

\* BootReceiver is enabled for a stopped service only if it is about to start
\* again or died without stopping: a device does not start a VPN at boot that its
\* user had stopped.
BootMeansRunning ==
    boot /\ state = "Stopped" => starts > 0 \/ crashed

\* The inductive invariant that carries the others: which coroutine may exist in
\* which state, what a session holds at each point of its start, and that the two
\* reasons to be Stopping, waiting for the job and waiting for the things, follow
\* each other.  (connectingJob, stopRunner and startProcesses of BaseService.)
SessionWhole ==
    /\ Fields \ {"udpFallback"} \subseteq held
    /\ ThingsOf(held) \ Processes \subseteq live
    /\ ~fatal => ThingsOf(held) \subseteq live \cup Deaf

OnlyOrphans == live # {} => crashed /\ live \subseteq Processes

Coroutines ==
    /\ state = "Stopping" <=> stopper # "none"
    /\ state = "Connecting" => JobActive
    /\ JobActive => IF cancelled THEN stopper = "joining" ELSE state = "Connecting"
    /\ cancelled => JobActive

Possessions ==
    /\ state = "Stopped" => held = {}
    /\ stopper = "cleaning" => held = {} /\ ~JobActive
    /\ dying # {} => stopper = "cleaning"
    /\ state = "Connecting" => EarlyFields \ {"udpFallback"} \subseteq held
    /\ job = "posted" => OnlyOrphans
    /\ JobActive /\ job # "sendFd" => held \subseteq EarlyFields
    /\ JobActive /\ job # "posted" => ~crashed
    /\ job = "sendFd" /\ ~cancelled => SessionWhole
    /\ state = "Connected" => SessionWhole

Guards ==
    /\ Deaf # {} => "processes" \in held
    /\ state = "Stopped" => hung = {} /\ ~fatal

IInv ==
    TypeOK /\ Coroutines /\ Possessions /\ Guards
    /\ NoOverlap /\ NothingLeaks /\ BootMeansRunning

\* The states follow each other as every client may rely on: Connected comes of
\* Connecting alone, so that a connecting job that was cancelled, whatever it was
\* doing, never makes a service Connected that is being stopped; and Stopped of a
\* clean-up, or of the death of the process.  (The calls of changeState.)
StatesFollow ==
    [][state' = state \/ state' \in Follows[state] \/ Crash]_vars

\* Every stop completes, unless a guard hangs: no thread, process or job makes the
\* clean-up wait for ever.
StopCompletesOrHangs == state = "Stopping" ~> (state = "Stopped" \/ hung # {})

\* Connecting is resolved, except while the custom rules are being fetched.
ConnectingResolves ==
    state = "Connecting" ~> (state # "Connecting" \/ job = "flatten")

\* What TunnelSpec's variables are here.
phaseOf ==
    CASE state = "Stopped"    -> "off"
      [] state = "Connecting" -> "starting"
      [] state = "Connected"  -> "on"
      [] state = "Stopping"   -> "stopping"

tunnelOf ==
    CASE hung # {}                          -> "stuck"
      [] hung = {} /\ live = {}              -> "none"
      [] hung = {} /\ live # {} /\ crashed   -> "orphan"
      [] hung = {} /\ live # {} /\ ~crashed  -> "own"

Tunnel == INSTANCE TunnelSpec WITH phase <- phaseOf, tunnel <- tunnelOf

\* The service keeps the promise of TunnelSpec, its fairness included.
KeepsPromise == Tunnel!Spec

\* What the refinement needs besides IInv.  What a crash left is processes alone, and
\* no session has begun to end them (Executable.killAll).
Aftermath ==
    crashed => /\ held \subseteq EarlyFields /\ live \subseteq Processes
               /\ dying = {} /\ hung = {}

\* A pool that has or had a process stands beside the thread that was there before
\* the process (startProcesses).
Anchored ==
    "processes" \in held /\ (live \cup Deaf) \cap Processes # {} => "protectThread" \in live

\* Until a clean-up, only the guard of tun2socks is stuck, and its process is gone:
\* while it was sending the descriptor no exit code could reach it.
Jammed ==
    /\ resending => "tun2socks" \notin exited
    /\ state # "Stopping" /\ hung # {} =>
           "processes" \in held /\ hung = {"tun2socks"} /\ "tun2socks" \notin live \cup Deaf

\* A tunnel that is reported up, torn down or repaired is this session's own: what
\* lives beside a reference to the pool is neither an orphan nor gone without trace.
\* (preInit, startProcesses, killProcesses, GuardedProcessPool.)
OwnTunnel == Aftermath /\ Anchored /\ Jammed

-----------------------------------------------------------------------------
(* What the code means to do and does not. *)

\* killProcesses stops listening to the default network with the session.
ListenerReleased == state = "Stopped" => ~listening

\* Every stop completes: what the pool is told to end, its guards wait for, and no
\* longer.
StopCompletes == state = "Stopping" ~> state = "Stopped"

\* stopSelf is not called between startForegroundService and startForeground.
PromiseKept == [][CleanedUp /\ ~restart => ~owed]_vars

=============================================================================
