# Verification of the two VPN engines

The application (`app/`, Kotlin) brings up a VPN with one of two engines: the
shadowsocks service of `core/` (Kotlin, process `:bg`) or OpenVPN for Android,
trimmed, in `open/` (Java and C, process `:openvpn`). This directory models the
life of both engines, the control channel of the openvpn program, the routes of its
tunnel and the screen that shows both engines in TLA+, checks the models with TLC, and
proves with TLAPS what matters most about each of them for every value of its constants.

1. The system: inventory
2. Modules, and how they correspond to the code
3. What the runs check and show
4. What is proved
5. Findings
6. Bounds, fairness, modelling decisions
7. What is not modelled, and the plan

## 1. The system

### The shadowsocks service (`core/.../bg`, process `:bg`)

| part | state | operations | meets |
|---|---|---|---|
| `BaseService.Data`, `BaseService.Interface`, `VpnService` | `state`, `connectingJob`, `proxy`, `udpFallback`, `processes`, `localDns`, `closeReceiverRegistered`, `notification`; `conn`, `worker`, `active` | `onStartCommand`, the connecting job, `stopRunner`, `forceLoad`, `onRevoke` | everything below; the home screen through a Binder |
| `GuardedProcessPool`, `Executable` | per guard: the process, `running`, `exitChannel` | `start`, `looper`, `close`, `killAll` | native processes, `onFatal` on the main thread |
| `ProxyInstance`, `TrafficMonitor`, `LocalDnsWorker`, `VpnService.ProtectWorker` | threads on local sockets | `start`, `shutdown`, `persistStats` | native processes |
| `DefaultNetworkListener` | an actor's map from key to listener | `start`, `stop`, `get`, callbacks | `VpnService.preInit`, `killProcesses` |
| `BootReceiver` | `enabled`, kept by the package manager | set when a start is accepted, reset by a stop | the system at boot |
| `ShadowsocksConnection`, `BaseService.Binder` | callbacks, bandwidth listeners, the death recipient | bind, register, `stateChanged`, `trafficUpdated` | any screen |
| profiles, preferences, plugins, ACLs, subscriptions | a Room database, files | storage and pure functions | the service at start |

Hard: every method runs on the main thread, but in coroutines that suspend, so a
stop arrives between any two steps of a start; native processes die by
themselves; a guard may be restarting a process as its pool is closed; the
process `:bg` may be killed and leave its children behind; `onRevoke` arrives on
a binder thread after all.

Wanted: a stop is final and completes; a stopped service holds nothing; a
connected one has every part; nothing leaks; two sessions never overlap; the
boot receiver does not start a VPN that its user has stopped.

### OpenVPN (`open/`, process `:openvpn`)

| part | state | operations | meets |
|---|---|---|---|
| `OpenVPNService` | `mProcessThread`, `mManagement`, `mDeviceStateReceiver`, `mStarting`, `mOpenVPNThread` | `onStartCommand`, `startOpenVPN` (command thread), `stopVPN` (binder), `onRevoke` (binder), `endVpnService` (any thread), `onDestroy` | the two below, `VpnStatus` |
| `OpenVPNThread` | the process, its stdin future | `run`, `openvpnStopped` | one process per session |
| `OpenVpnManagementThread` | `mSocket`, `active`, `mWaitingForRelease`, `mResumeHoldRunnable` | `run`, `handleHold`, `pause`, `resume`, `networkChange`, `stopVPN` | the process behind a socket, `DeviceStateReceiver` |
| `DeviceStateReceiver` | `network`, `screen`, `userpause`, `lastConnectedNetwork`, the traffic window, a delayed runnable | broadcasts, `userPause`, `updateByteCount` | the management thread |
| `ExternalOpenVPNService` | callbacks, permissions | the AIDL interface `startVPN`, `disconnect`, `pause`, `resume` | the home screen |
| `VpnStatus`, `keepVPNAlive`, `OnBootReceiver` | last level, log, job | state filter, job | everybody |
| `NetworkSpace` | `mIpAddresses`; while it computes a queue, the current network, the result | `addIP`, `addIPv6`, `getPositiveIPList` | `OpenVPNService.openTun`, once per tunnel and address family |
| profiles, `CIDRIP` | files; none | storage and text | a session's configuration |

Hard: four kinds of thread (main, binder, command, one reader and one management
thread per session) change the same fields without a common lock; the end of an
old session is waited for with two fixed sleeps; a hold of the process and its
release cross each other in a socket; timers fire late; networks that lie in each
other are split and put back into a queue that is being read.

Wanted: a VPN that should be connected gets its hold released and no other does;
what is told to stop ends; the service leaves when nothing runs; the tidying up
of one session never touches the next; each address goes through the tunnel if the
smallest network around it is an included one, and no other does.

### The control channel (`open/.../openvpn/src/openvpn`, the `openvpn` program)

| part | state | operations | meets |
|---|---|---|---|
| `reliable.c` | `send_reliable` and `rec_reliable` (a window of entries and `packet_id`), `rec_ack`, `lru_acks` | `reliable_send`, `reliable_send_purge`, `reliable_mark_active_incoming`, `reliable_get_entry_sequenced`, `reliable_ack_write`, .. | `ssl.c` |
| `ssl.c` | `ks->state`, the peer's session id | `tls_pre_decrypt` for each packet, `tls_process` for each turn of the event loop | the TLS engine, the socket, the same code at the other end |

Hard: UDP loses, doubles and reorders packets, acknowledgements among them; each
packet repeats old acknowledgements; entries are sent again by a timer and by
counting; both windows are small, and a packet that does not fit is dropped
without a word; the server cannot route anything but a reset at first.

Wanted: TLS reads what its peer's TLS has written, in order and once; no window
ever locks up; nothing is forgotten before the peer has it; if the network
delivers often enough, everything arrives.

### The application (`app/`, a process of its own)

| part | state | operations | meets |
|---|---|---|---|
| `ZZ`, `ZZZ` | the globals `saoState`, `saoClick`, `nowVpnUI`, which outlive a screen; `stopConnect`, `mService`, the coroutines of a screen | clicks, `startCountdown`, `startVpn` two seconds later, `openVTool`, `onStop`, `onDestroy`, `stateChanged`, `newStatus` | both engines |
| `ShadowsocksConnection`, `BaseService.Binder` | one registered callback, the binder | bind, register, read the state, the service's death | the shadowsocks service |
| `ExternalOpenVPNService` | `mMostRecentState`, `mCallbacks`, `mHandler` (in `:openvpn`) | `registerStatusCallback`, `updateState`, `disconnect`, `startVPN` | the OpenVPN service |
| other screens, the timer, HTTP requests | preferences | | the home screen |

Hard: the countdown's coroutine reads fields that a second click or a word from an
engine has changed meanwhile; one set of globals is written by the words of two
engines, neither of which knows of the other; a callback is registered and the state
read in two calls, in the one order here and in the other there; any of the three
processes may die.

Wanted: when every word has arrived, the screen shows what the engine is in that
was heard last; no countdown is shown for ever.

The file `PROJECT.json` lists the components with their status, and every hazard
at its line with the properties aimed at it.

## 2. Modules

```
ServiceStates         which state of BaseService follows which (definitions, of both
                      SsService and HomeScreen)
TunnelSpec            what a VPN service promises            (abstract)
   ^ refined by
SsService             the shadowsocks service                (state machine)
   |-- MCSsService        for TLC: the constant as a bound on waiting starts
   |-- SsServiceProofs    inductive invariant, theorems
   |     `-- SsServiceRefines   the refinement of TunnelSpec, its safety part
   |-- SsRevoke           the same with onRevoke on its real thread
PauseControl          hold, pause, resume of an OpenVPN process
   |-- MCPauseControl     networks and a binder thread for TLC
   |-- PauseControlProofs inductive invariant, theorems
OvpnService           the life of OpenVPN sessions
   |-- OvpnServiceProofs  inductive invariant, theorems
   |-- OvpnDisconnect     the same with the user's last word remembered
ControlChannel        two FIFO streams                       (abstract)
   ^ refined by
Reliable              the reliability layer, both ends and the network
   |-- MCReliable         packets and bounds for TLC
   |-- ReliableProofs     inductive invariant, theorems, the refinement
NetworkSpace          the routes of a tunnel                 (algorithm)
   |-- NetworkSpaceProofs the order of the loop, disjointness
   |     `-- NetworkSpaceRoutes  inductive invariant, what the routes are, the loop's measure
HomeScreen            the screen and both engines' words     (composition)
   |-- HomeScreenProofs inductive invariant, theorems
```

### SsService

The unit of atomicity is what the main thread does between two points where a
coroutine suspends. `connectingJob` and the clean-up launched by `stopRunner` are
two program counters:

| variable | code |
|---|---|
| `state` | `data.state` |
| `job`, `cancelled` | where `connectingJob` is suspended; a cancel that it has not met yet. `"posted"`: launched, not dispatched; `"dead"`: cancelled before it was dispatched, so its `finally` never ran and the field still points at it |
| `tries` | the local counter of `sendFd` |
| `stopper`, `restart` | the coroutine of `stopRunner`: `"joining"` in `cancelAndJoin`, `"cleaning"` in `coroutineScope`; its parameter |
| `held` | the references of `Data` and `VpnService` that are not null: through them and only through them `killProcesses` and `shutdown` reach what runs |
| `live`, `dying` | processes and socket threads that exist; those told to end |
| `exited`, `resending`, `hung` | a guard's life: an exit code sent and not yet received; `onRestartCallback` running, with no thread waiting for the process; waiting in `exitChannel.receive()` for a code that will not come |
| `fatal` | `onFatal`, posted to the main thread by a guard that gave up |
| `listening` | whether `DefaultNetworkListener` has the service |
| `starts`, `owed` | intents on their way to `onStartCommand`; `startForegroundService` not answered by `startForeground` yet |
| `boot`, `crashed` | `BootReceiver.enabled`; orphans may be left by a dead `:bg` |

| actions | code |
|---|---|
| `StartRefused`, `StartIgnored`, `StartWithoutProfile`, `StartAccepted` | the paths through the two `onStartCommand` |
| `JobBegins` .. `JobStarts` | `Executable.killAll`, `preInit`, custom rules, `startProcesses`, which may throw after any of its nine acquisitions (`Stage`) |
| `SendFdSucceeds`, `SendFdFails` | the retries with delays |
| `JobCancelled`, `JobFails` | the job's `catch` and `finally` |
| `StopRunner`, `Joined`, `Dies`, `CleanedUp` | `stopRunner` in the order of its suspensions |
| `ProcessExits`, `GuardGivesUp`, `GuardRestarts`, `ResendSucceeds`, `ResendFails`, `FatalError` | `GuardedProcessPool.Guard.looper` |
| `Close`, `Reload`, `Revoke`, `UserStart`, `Crash` | broadcasts, the framework, the user, the system |

`TunnelSpec` says, in two variables, what a controller of the service may rely on:
off means that nothing exists, a start sweeps the leavings of a crash before it
builds, a stop goes to off and nowhere else, and tearing down is not put off for
ever unless the tunnel is stuck. `Tunnel` in `SsService` is the refinement
mapping and `KeepsPromise` the refinement, fairness included.

`SsRevoke` replaces `Revoke` by the steps of a second thread: test of
`data.state`, assignment, launch, and a clean-up of its own.

### PauseControl

Handlers of `DeviceStateReceiver` run on three kinds of threads and end in a call of
`OpenVpnManagementThread`. `call[t]` is the call that thread `t` is about to make,
a step of its own because nothing separates the threads. The user's pauses and resumes
come on binder threads (`Binders`), at any time and in any order: from
`ExternalOpenVPNService` (lines 312-324) and `RemoteAction` (lines 83-86). The
notification's buttons, which would send them on the main thread, are commented out
(`OpenVPNService.java:322`), and nothing else sends `PAUSE_VPN` or `RESUME_VPN`. A resume
asks `shouldBeConnected()` before and after it sets its field, in two steps: `userPause`,
`asksAgain`. `waiting` is
`mWaitingForRelease`, `holdTimers` counts how often `mResumeHoldRunnable` is
posted (a late hold may post it a second time), `commands` and `holds` are the two directions of the management socket, and `process` is the
part of OpenVPN's main loop that the code relies on: it holds, runs, or restarts,
and a held process ignores `SIGUSR1`. `disconnects` counts how often
`mDelayDisconnectRunnable` is posted, which may be more than once.
`handleHold` is three steps (flag, question, post), `updateByteCount` two.

Two history variables let the properties name what the code gets wrong. `overtaken`
holds the threads that have set out to release the hold when a pause of the user or the
end of the 20 seconds came between. `lapse` says how the process last came to be not as
wanted: `"dropped"`, a pause removed the posted release of a VPN that should be
connected; `"crossed"`, a release was sent by an overtaken thread; `"unasked"`, one was
sent that was not wanted when its thread set out.

### OvpnService

A session is the number of the start that made it. The command thread goes
through `startOpenVPN` in nine steps; `endVpnService` is four (`clears`,
`unregisters`, `drops`, `leaves`) for each thread that may run it (`Enders`): every
session's `OpenVPNThread`, the command thread when a start fails, and the binder
thread of `onRevoke`. `gui` holds the runnables that swap the receivers, each
with the old receiver it captured. `process[i]` follows a session's process from
`waits` (for its configuration on stdin) to `configured`, `connected` to the
management socket, `told` to stop, `exited`.

`OvpnDisconnect` adds the history variable `wanted`.

### Reliable

Two ends run the same code; `Client` knows its peer's address from the start,
`Server` learns it with a reset. What an end does is one of two actions, as in the
event loop:

| action | code |
|---|---|
| `Receive` = `Handle` or `Drop` | `tls_pre_decrypt`: matching the session (`Opens`: only the peer's reset makes one), the burst at the first reset (`ScheduleNow`), the acknowledgements (`SendPurge`), and the packet itself (`Accept`: `CanGet`, `WontBreakSequentiality`, `NotReplay`, `MarkActiveIncoming`, `AcknowledgePacketId`) |
| `Process` | a call of `tls_process` with an empty `to_link`: all passes of its loop together. What is written (`Outgoing`, `Room`, `MarkActiveOutgoing`), the one packet that is sent (`Transmit`: the lowest due entry; `Acknowledge`: a dedicated acknowledgement), and what is taken to TLS (`DeliverInSequence`) |
| `Expire` | `now` reaches an entry's `next_try` |
| `Lose`, `ReceiveCopy` | the network |

| variable | code |
|---|---|
| `state`, `linked` | `ks->state` up to `S_START`; whether `session_id_remote` is known |
| `sendId`, `sendBuf` | `send_reliable`: `packet_id`, the active entries by id, with `due` for `now >= next_try` |
| `recId`, `recBuf` | `rec_reliable` likewise; the payload of each entry |
| `recAck`, `lruAcks` | the lists of the same name; of `lru_acks` only which ids it has |
| `net`, `faults` | the packets under way, how many were lost or doubled |
| `log`, `got` | history: what an end has numbered, what it has taken to TLS |

In the code a new packet is written in a later pass than an old one is sent, but
its id is higher, so the entry sent is the same; TLS may write any number of
packets that the window admits, which is what `--tls-mtu` and the length of a
record come to. The reset is deleted from the receive buffer without
`state_change`; nothing can be behind it in the buffer then, because no turn
before has acknowledged it. A reused entry keeps its `n_acks`, which nobody
reads before the entry is sent and `n_acks` reset.

`ControlChannel` is what TLS may rely on: each end reads an initial part of what
its peer has written. `Channel` in `Reliable` maps `log` and `got` to its two
variables.

### NetworkSpace

The class runs one algorithm with 32 and with 128 bits; the module has `Bits`. A
network is its first address, the length of its mask and `included`. One step is one
turn of the loop in `generateIPList`; the five disjuncts of `Turn` are its branches.

| variable | code |
|---|---|
| `mIpAddresses` | the field: what the session has added |
| `generating` | between the call of `getPositiveIPList` and the next `TunConfig` |
| `networks` | the `PriorityQueue`, a bag, since `add` does not look |
| `currentNet` | the local variable, `NoNet` for null |
| `ipsDone` | the local variable |

| action | code |
|---|---|
| `AddIP` | `addIP`, `addIPv6`: the set keeps the first of two equal networks, whatever their types |
| `Begin`, `Reset` | `openTun`, which makes a new `TunConfig` when it has built the tunnel |
| `Keep` | nothing overlaps: `currentNet` is done |
| `ForgetCurrent`, `SplitNext` | `currentNet` begins with the next network and is no greater |
| `IgnoreNext`, `SplitCurrent` | the next network lies in `currentNet` |

`Emulates` is the reference definition: the smallest network of the session around
an address says whether it is routed, and what comes out are networks of the width of an
address.

### HomeScreen

Three processes: the screen's, `:bg` and `:openvpn`. Of the engines there is what the
screen can tell: `state` and `status`, and the words that announce them. `state` may
go wherever `Follows` of `ServiceStates` lets it, at any time and for whatever reason:
a connection that comes up or fails, a revocation that arrives after the session has
gone, a start at boot or by the system, a crash. `SsService` is proved to change its
state in no other way (`StatesInOrder`), so the service of `HomeScreen` may do all that
it does. What it owes the screen is in `StartDelivered` and `CloseDelivered`: a start
wakes a stopped service, and CLOSE stops one that connects or is connected. Atomic are a handler on the screen's main
thread and the two halves of what is done in two calls of another process.

| variable | code |
|---|---|
| `saoState`, `saoClick`, `nowVpnUI` | the globals in `ZZZ` |
| `stopConnect`, `countdowns`, `opening` | the field; the coroutines of `startVpn` in their delay, any number; those of `openVTool` |
| `bound`, `ssInbox` | where `ShadowsocksConnection.onServiceConnected` is; what `stateChanged` has put on the main thread |
| `mService`, `inbox` | where `mConnection.onServiceConnected` is, or `"dead"` between a death and `onServiceDisconnected`; what `newStatus` has put there |
| `state`, `next`, `starts`, `closes` | `data.state`; the argument of `changeState` between its two lines; intents and broadcasts under way |
| `status`, `told`, `posts` | `mMostRecentState.state`, of which all states that `newStatus` ignores are `"busy"`; a session that is told to stop; the queue of `mHandler` |
| `speaker`, `missed` | history: which engine the screen has obeyed last; `"start"` after an `openVTool` that failed, `"ss"` and `"ovpn"` after a word that was lost |

| actions | code |
|---|---|
| `StartCountdown`, `CallOff`, `Leave`, `Recreate`, `Exit` | clicks, `limitClickActions`, `onStop`, `onDestroy` and `onCreate`, back |
| `CalledOff`, `ConnectSs`, `ConnectOvpn`, `disConnectHowVpn` | `startVpn` after its delay |
| `OpenVTool`, `OpenVToolFails` | `openVTool`, whose `runCatching` drops what fails |
| `DisconnectThrows`, `ReadThrows` | calls of a process that is gone, which nobody catches: the app dies |
| `Register`, `ReadState`, `ReadNothing`, `HearState` | `ShadowsocksConnection` and the two handlers of `ZZ` |
| `Tell`, `RegisterStatusCallback`, `HearStatus`, `HearNothing`, `HearReconnecting` | `registerStatusCallback` in its two halves, `newStatus` |
| `Assign`, `StartDelivered`, `CloseDelivered`, `SsMoves`, `SsCrash` | the shadowsocks service: what it is told, and what it does unasked |
| `Connects`, `LosesServer`, `Ends`, `SendToAll`, `OvpnCrash`, `Disconnected` | the OpenVPN service |

## 3. Runs

Passing runs check every property named; the others each show one disagreement
between the code and what it says of itself (section 5).

| run | states | shows |
|---|---|---|
| `ss_service` | 202 921 | All interleavings of two waiting starts, closes, reloads, revocations, process deaths, guards and crashes with the connecting job and the clean-up |
| `pause_control` | 678 536 | Network and screen events, a user's pauses and resumes on a binder thread and byte counts, with the hold and its release crossing in the socket |
| `ovpn_service` | 180 055 | One session started over another, with stops, a revocation, failing starts, dying processes and the service's destruction |
| `reliable` | 80 468 | Both ends of the control channel over a faulty network, four packets one way and the reset the other |
| `routes` | 201 548 | Every set of up to four networks of three-bit addresses, included and excluded, and every choice among equal ones |
| `home_screen` | 4 220 043 | Three gestures, one death of an engine's process, every order of words, calls and coroutines |
| `ss_stop`, `ss_revoke`, `pause_user`, `ovpn_late_end`, `ovpn_disconnect`, `routes_lost` | | a counterexample each |

`ss_service` checks

- `StoppedIsClean`, `ConnectedIsComplete`, `NoOverlap`, `NothingLeaks`,
  `BootMeansRunning`: invariants relating what the service says to what exists;
- `IInv`: the inductive invariant of the proofs, as a plain invariant;
- `OwnTunnel`: a tunnel that is reported up, torn down or repaired is this session's,
  neither an orphan of a crash nor gone while its pool is referred to. The refinement
  rests on it;
- `StatesFollow`: the states change as `ServiceStates` says, but for a crash: no job that
  was cancelled makes a service Connected, and only a clean-up makes it Stopped. It is
  what `HomeScreen` takes for granted;
- `StopCompletesOrHangs`, `ConnectingResolves`: liveness. The two exceptions are
  real: a hung guard (finding `ss_stop`) and rules being fetched from a server
  that does not answer, which a stop ends;
- `KeepsPromise`: `TunnelSpec` is implemented.

`pause_control` checks

- `HoldIsKnown`: with nothing on its way, a held process is known to be held;
- `IInv`: the inductive invariant of the proofs, as a plain invariant;
- `ReleasedOnlyIfWanted`: no thread begins to release the hold of a VPN that is
  paused or has given up its network, but on the path of finding `pause_user`, or when
  that came about since the thread asked. On the main thread it is then the pause alone:
  its network is still there;
- `ConnectsWhenWanted`: a VPN that should be connected is released, whatever was being
  paused, posted or said when that became so. The one exception is a defect, which the
  property names (`lapse = "dropped"`, section 5);
- `HeldUnlessWanted`: the other direction, for a user's pause and for a lost network. A
  pause is lost to a release it crosses (`"crossed"`), to the path of finding
  `pause_user` (`"unasked"`) and to nothing else; but where `mWaitingForRelease` is set
  for a process that runs, the flag is accepted for the hold.

`ovpn_service` checks

- `FieldIsRegistered`: the receiver that pause and resume go through hears the
  network, whatever order ends and swaps come in, but for the moment in which a
  thread has unregistered it and not reset the field yet;
- `IInv`: the inductive invariant of the proofs, as a plain invariant;
- `TheToldEnd`: what is asked to end ends, and its thread gets through
  `endVpnService`, though `forceStopOpenVpnProcess` sleeps with the lock;
- `RevokedEnd`: the stop that `onRevoke` leaves in the queue reaches the session;
- `ServiceLeaves`: a service with nothing to run stops itself, though each end
  leaves that to a start under way.

`reliable` checks

- `NothingForgotten`: an entry is freed only for a packet that the peer has, however
  late, doubled or reordered the acknowledgement is;
- `NeverClogged`: no packet under way is beyond the receive window, so the check
  against deadlock in `reliable_wont_break_sequentiality` never turns a packet of
  such a peer away, and there is a buffer for the next packet in sequence;
- `NothingUnroutable`: a packet of TLS never meets an end that no reset has opened;
- `IInv`: the inductive invariant of the proofs;
- `KeepsPromise`: `ControlChannel` is implemented;
- `Drains`: again and again nothing is outstanding and all that was written has
  been read. It fails if a replay is not acknowledged again, or if a window locks.

`routes` checks

- `Disjoint`: no two of the networks that come out overlap;
- `EmulatesElse`: but for the nestings `Eclipsed` and `Doubled`, the routes are those
  that `Emulates` defines. All that the code gets wrong (finding `routes_lost`) is among
  them: a network that is forgotten with its type's greater one, and an upper half that
  is put beside a network of the same extent. They are wider than that: `Doubled` also
  excepts nestings that the code gets right, for instance where the two networks of one
  extent are of one type, and of those the run says nothing;
- `AssertionsElse`: what the code asserts in a debug build (that halves end where the
  whole does, that a half which is left out is the network that is kept, that the
  order of the queue leaves only the three cases) holds in the same cases;
- `TurnsCount`: in the same cases each turn leaves less to be looked at, counted in
  the networks that what is left can be cut into, though it may put back more than it
  takes;
- `Ends`: the loop ends, in the two nestings as well;
- `IInv`: the inductive invariant of the proofs.

`home_screen` checks

- `Agrees`: with no word under way from the engine that the screen has obeyed last,
  the screen shows what that engine is in. `missed` names the two words that the code
  loses: one sent between the halves of a registration, and a NOPROCESS that a screen
  ignores because its `saoClick` is negative;
- `NeverStuck`: with nothing under way and nothing running, no countdown is shown. The
  exceptions are a start that `openVTool` has lost without a word, one of those two
  words, and `Hidden`: Shadowsocks connected behind the last word of OpenVPN, so that
  the start which follows is ignored by a service that runs already;
- `IInv`: the inductive invariant of the proofs. Its parts `Disconnecting` and
  `Connecting` say what a countdown that has ended leaves behind.

Every property of a passing run has a mutant in `PROJECT.json`: a definition with
a plausible bug, kept in the module before the definition it replaces, under
which TLC finds the property violated.

## 4. Proofs

`SsServiceProofs` proves with TLAPS, for every `MaxStarts`:

| theorem | statement |
|---|---|
| `Inductive` | `Spec => []IInv` |
| `TypeCorrect`, `StoppedClean`, `ConnectedComplete`, `SessionsDoNotOverlap`, `EverythingIsOwned`, `BootOnlyIfRunning` | `Spec => []` of the six invariants of `ss_service` |
| `StatesInOrder` | `Spec => StatesFollow` |

None of the six is inductive alone, so the proof strengthens them to

    IInv == TypeOK /\ Coroutines /\ Possessions /\ Guards
            /\ NoOverlap /\ NothingLeaks /\ BootMeansRunning

- `Coroutines` says which coroutine exists in which state. Without it a job could
  be active in a stopped service and `SendFdSucceeds` would break `StoppedIsClean`
  and `StatesFollow`.
- `Possessions` says what is held at each point. `NothingLeaks` needs that a job
  which still runs holds only what `onStartCommand` set up; `ConnectedIsComplete`
  needs that a job in `sendFd` has everything; `NoOverlap` needs that before
  `killAll` only orphans live and that a clean-up leaves nothing behind.
- `Guards` says that a process whose exit is being handled has a pool. Without
  it a guard could restart a process in a stopped service.

The proof takes one lemma per group of actions (`StopperInv`, `StartInv`, `JobInv`,
`EventInv`, `GuardInv`) and, since half of the actions end in it, one for
`stopRunner` alone (`StopRunnerInv`); `AcquireOwned` and `AcquireAll` are the facts
about a partial start. The proof is long because `startProcesses` may fail
anywhere, not because it is deep. The only assumption is `MaxStartsAssumption`; the
proof uses no bound on `starts` but that it is a number.

`SsServiceRefines` proves, from `IInv` and `OwnTunnel`, that the service implements the
safety part of `TunnelSpec`:

| theorem | statement |
|---|---|
| `OwnTunnelHolds` | `Spec => []OwnTunnel` |
| `Implements` | `Spec => Tunnel!Init /\ [][Tunnel!Next]_(Tunnel!vars)` |

`OwnTunnel == Aftermath /\ Anchored /\ Jammed`.

- `Aftermath`: what a crash left is processes alone, and no session has begun to end
  them. Without it an orphan could become the tunnel of a session, which `TunnelSpec`
  does not admit.
- `Anchored`: a pool that has or had a process stands beside the thread that protects
  its sockets, which `startProcesses` starts first. So a last process that dies takes
  nothing off the abstract tunnel while its session is up.
- `Jammed`: before a clean-up only the guard of tun2socks can be stuck, and its process
  is gone. So a tunnel that is stuck stays so until the session ends.

`Stutters`, `CloseRefines` and `StopRunnerRefines` say to which abstract step the three
common shapes of a step map, and `StopperRefines`, `JobRefines` and `EventRefines` go
through the actions.

`ReliableProofs` proves, for any window sizes with `SendBufs <= RecBufs` (6 and 12 in
the code), any list sizes with `SendAckMax <= AckSize`, any text and any bounds:

| theorem | statement |
|---|---|
| `Inductive` | `Spec => []IInv` |
| `TypeCorrect`, `NoneForgotten`, `NoneClogged`, `NoneUnroutable` | `Spec => []` of the invariants of `reliable` |
| `Implements` | `Spec => KeepsPromise`, the refinement of `ControlChannel` |

Since `FairSpec` implies `Spec`, they hold of it too. The invariant is

    IInv == TypeOK /\ Matching /\ NothingForgotten /\ AcksAreTrue
            /\ FrontierHeld /\ HandshakeFirst

- `Matching`: entries and packets under way carry what was written under their id,
  and TLS has read the ids before `recId`. Alone it is kept by every step but for
  the guards of `Accept`.
- `AcksAreTrue`: an id that is, was or will be acknowledged is one that was received.
  Without it a purge could break `NothingForgotten`.
- `FrontierHeld`: the id an end waits for is in no acknowledgement that has left
  it. So its peer still holds that entry, the peer's window starts at or before it,
  and `SendBufs <= RecBufs` gives `NeverClogged`. This is where the code depends on
  taking all that is in sequence to TLS in the turn that sends the acknowledgement.
- `HandshakeFirst`: nothing but a reset is numbered before the reset is received,
  and only an end that is linked has received anything.

There is one lemma per action (`ProcessInv`, `HandleInv`, `ExpireInv`,
`FewerPacketsInv` for what only takes a packet away) and one per operator they are
made of (`PurgeFacts`, `AcceptFacts`, `OutgoingFacts`, `MarkActiveFacts`,
`AckWriteFacts`, `DeliverFacts`, `SendFacts`). The refinement follows from the
invariant: `ProcessRefines` shows that a turn appends to the end's own stream and
reads on in the peer's; every other action leaves both alone.

`PauseControlProofs` proves, for any networks, any binder threads on which the user's
calls arrive and any bounds on timers, commands and holds:

| theorem | statement |
|---|---|
| `Inductive` | `Spec => []IInv` |
| `TypeCorrect`, `HoldKnown` | `Spec => []TypeOK`, `Spec => []HoldIsKnown` |
| `ReleasedWanted` | `Spec => ReleasedOnlyIfWanted` |

The invariant is `IInv == TypeOK /\ ReleaseUnderWay /\ AsksWhileWanted`.

- `ReleaseUnderWay`: a process that holds, with no `>HOLD` unread and
  `mWaitingForRelease` unset, has a `hold release` in its socket. `HoldIsKnown` is
  the case of an empty socket; alone it is not inductive, because the flag goes
  when the release is sent, not when it is read. It is kept because a held process
  passes over everything but a release, and because the flag and the command change
  in one step (`releaseHoldCmd`). It needs nothing of the threads.
- `AsksWhileWanted`: a thread that is about to release the hold, or to pass on a change
  of network, is still wanted or has been overtaken; and while it is the main thread the
  network is there, for only the main thread writes that field. The management thread
  never releases: it posts. `ReleasedOnlyIfWanted` is what the next step makes of it, and
  without it nothing would be known of a call between the question and the release.

`ManagementInv`, `HandlersInv`, `PauseInv` and `ProcessInv` take one step per action;
`NetworkFacts` says what `networkStateChange` may do, `SendFacts` that a release in the
socket stays there when another command follows, `CallFacts` what is left of
`AsksWhileWanted` when one thread changes its call, and `QuietFacts` that it is kept by
what changes neither calls nor fields. `ReleaseStep` finds, action by action, who may
begin a release.

`OvpnServiceProofs` proves, for any number of sessions and revocations:

| theorem | statement |
|---|---|
| `Inductive` | `Spec => []IInv` |
| `TypeCorrect`, `FieldRegistered` | `Spec => []TypeOK`, `Spec => []FieldIsRegistered` |

The invariant is

    IInv == TypeOK /\ RoomForAll /\ ForkedOnce /\ EndsOnce /\ FieldIsRegistered

- `FieldIsRegistered` is kept by the swap, which registers what it assigns, and by
  `endVpnService`, which unregisters what the field names and then resets it. The
  reset takes no lock, so between the two the main thread may swap another receiver
  in, which is then forgotten, and the property excepts the moment in between.
- `EndsOnce`: a thread tidies up for one reason at a time. Without it the exception
  could be lifted too early, by a thread that begins anew before it has reset the
  field.
- `ForkedOnce`: mProcessThread names only a thread that was started, and a session has
  a reader exactly when it has a process. It makes `TypeOK` inductive: `Fork` gives the
  last session a thread, a step later than the session got its number.
- `RoomForAll`: the starts in the queue and the one under way have a number left. The
  bound is tested when a start is accepted and used when the session is made, and the
  command thread serves other things between.

`PostFacts` and `TakeFacts` are about what the queue's two ends do to the number of
waiting starts; `EventsInv`, `StartInv`, `EndInv` and `SessionInv` take the actions.

`NetworkSpaceProofs` and `NetworkSpaceRoutes` prove, for addresses of any width (32 and
128 bits in the code) and any number of networks:

| theorem | statement |
|---|---|
| `TakenInOrder` | `Spec => []InOrder` |
| `RoutesDisjoint` | `Spec => []Disjoint` |
| `Inductive` | `Spec => []IInv` |
| `RoutesAsAsked` | `Spec => []EmulatesElse` |
| `AssertionsHold` | `Spec => []AssertionsElse` |
| `TurnsLeaveLess` | `Spec => TurnsCount` |

The first two need only `InOrder == TypeOK /\ Disjoint /\ Ascending`. `Ascending` says that
all that waits begins no earlier than `currentNet` and all that is done ends before it.
`Disjoint` needs it: `Keep` adds `currentNet` to what is done having looked at the next
network only. It is kept because halves begin where the whole does or later
(`HalfFacts`) and polling gives the least (`QueueFacts`); `TurnKeepsOrder` is the step
that the four branches which finish nothing have in common.

The others need the invariant

    IInv == InOrder /\ mIpAddresses \subseteq Networks /\ Distinct(mIpAddresses)
            /\ (generating => Eclipsed \/ Doubled \/ OnCourse)

`OnCourse` says that what is left and what is done route every address as the session's
networks do (`RoutedBy`), and that what is left are `Pieces` of networks:

- each is there once, though `SplitCurrent` puts its upper half back without looking. It
  is found there just if it is the next network (`HalvesAreNew`), and that is what the
  code tests by comparing masks;
- no piece is forgotten with a greater one of its type while a third of the other type
  lies between them (`Eclipses`): the session's networks do not lie so, and cutting does
  not bring it about;
- a half never comes to lie beside a piece of the other type that it would overrule
  (`Doubles`), but where the loop is cutting one network around `currentNet`
  (`CutAround`). This exception is what makes the invariant inductive: the network that
  is being cut is split again and again, each time around the same current one, until
  a half is the current one itself and is not put back. `PiecesOfNext` and
  `PiecesOfCurrent` keep it in the two branches that split, `PiecesForgotten`,
  `PiecesKept` and `PiecesLess` in the others.

That the addresses are routed as before is `RoutedForgotten`, `RoutedIgnored` and
`RoutedInHalves`, one for each thing that a turn may do; `RoutedApart` sets what is done
aside. At the end nothing is left and what is done does not overlap, so an address is
routed just if it lies in an included result (`RoutedWhenDone`); at the beginning
`RoutedBy` is the reference definition (`RoutedBySmallest`).

Underneath is how binary networks nest: `SizesDivide`, `Nesting`, `HalvesFacts`, `Buddy`
and `BesideFacts`. They are proved from `BitsAssumption` and `PowersOfTwo`, which says what
a power of two is: the provers know nothing of `^`. What is true of all numbers is proved
through the least exception (`LeastNumber`), as the library's induction theorems take an
operator.

`TurnsLeaveLess` rests on `TakenOrCut`: a turn takes one piece away or puts halves in its
place, and `SmallerPieces` maps what the halves can be cut into one to one to what the
whole can be, but for itself. What is counted is finite (`CutsFinite`). With the fairness
of `Turn` this is why the loop ends; `Ends` itself is only model-checked, and in the two
nestings nothing is known of larger addresses but what the model shows.

`HomeScreenProofs` proves, for any number of gestures, crashes and words:

| theorem | statement |
|---|---|
| `InvariantHolds` | `Spec => []IInv` |
| `ScreenAgrees`, `ScreenNeverStuck` | `Spec => []Agrees`, `Spec => []NeverStuck` |

The invariant is

    IInv == TypeOK /\ OneScreen /\ SsMirrored /\ OvpnMirrored
            /\ Disconnecting /\ Connecting

- `SsMirrored` and `OvpnMirrored` say that the last word under way is of the state the
  engine is in, or about to be; `Agrees` is what is left of them when none is under
  way. That a word is announced before it is assigned is why `announced` and not
  `state` is mirrored, and why a state that can be read with a word after it is one the
  screen ignores.
- `OneScreen`: what is shown and `saoState` change together, and a countdown that is
  shown is not called off, though `stopConnect` is shared by all of them.
- `Disconnecting` and `Connecting` say that a countdown which is shown has a coroutine,
  or has told or started an engine, or waits for a word. They need `OneScreen` for what
  the coroutine reads after its delay, and the two mirrors for what the word will be.
  `NeverStuck` follows, since nothing under way leaves only the exceptions.

`TypeOK` is proved in four parts, one for each kind of value. `AppendFacts`,
`TakeFacts` and `AnnounceFacts` are about the last word of a queue.

Every invariant and action property that a passing run checks is a theorem. Only
model-checked: liveness (`StopCompletesOrHangs`, `ConnectingResolves`, `Drains`, the
leads-to properties of the other modules, the fairness in `KeepsPromise` of `SsService`),
since ENABLED and fairness are beyond the prover; and what `SsRevoke` and
`OvpnDisconnect` add, whose runs expect a violation.

## 5. Findings

| run | what the code does | where |
|---|---|---|
| `ss_stop` | A stop that meets a process which has just ended, or is being restarted, waits for ever | `GuardedProcessPool.kt:105` |
| `ss_revoke` | `onRevoke` on its binder thread runs a second clean-up; Stopped is reported before both are over | `VpnService.kt:125` |
| `pause_user` | The network's return within 20 seconds connects a VPN that its user has paused | `DeviceStateReceiver.java:233` |
| `ovpn_late_end` | The late end of a replaced session nulls `mProcessThread` of its successor, since `mOpenVPNThread` is never assigned | `OpenVPNService.java:629` |
| `ovpn_disconnect` | A disconnect during a start is forgotten | `OpenVPNService.java:495` |
| `routes_lost` | With 0.0.0.0/0 included and 64.0.0.0/2 and 128.0.0.0/1 excluded, nearly all of 128.0.0.0/1 is routed into the tunnel; with 10.0.0.0/8 excluded from it and 10.0.0.0/16 included again, the latter is not | `NetworkSpace.java:348`, `:331` |

`PROJECT.json` quotes the line of the code that says otherwise for each. In the
first of the two cases of `routes_lost` a network of one address may be split as well;
then one with a mask longer than an address comes out, beside the one that was split.

Two more disagreements are at hand in the models without a run of their own. The
clean-up stops listening to the default network with the coroutine scope as the key, not
the service (`VpnService.kt:130`), so a stopped service stays registered:
`ListenerReleased` of `SsService` fails after the first session. A refused start calls
`stopSelf` with a `startForegroundService` still unanswered (`VpnService.kt:143`):
`PromiseKept` of `SsService` fails with `MaxStarts = 1`.

Two others are named exceptions of the liveness properties in `pause_control`, which
hold with them and fail without.

- A resume of a VPN that its user has not paused is a pause (`DeviceStateReceiver.java:126`,
  whose comment speaks of updating the reason only), and every pause removes the posted
  release. When such a resume arrives, or a pause that was made before arrives late, while
  the VPN should be connected and waits for its release, nothing wakes it again:
  `lapse = "dropped"`. `ConnectsWhenWanted` without that disjunct is violated.
- `releaseHoldCmd` sleeps up to three seconds with `mWaitingForRelease` still set
  (`OpenVpnManagementThread.java:418`). A pause on another thread in that time finds the
  flag, sends nothing, and the release follows it: `lapse = "crossed"`.
  `HeldUnlessWanted` without that disjunct is violated.

What `HomeScreen` shows of the screen contradicts no line that says otherwise, but its
exceptions are real. A NOPROCESS is ignored while `saoClick` is negative (`ZZ.kt:353`),
after the screen was left while it connected or was made anew: it then shows a
connection that has ended, and the next disconnect shows a countdown until it is called
off. Whichever engine's binder answers last at a start decides what is shown, so that a
connection of the other is hidden. `openVTool` drops every failure (`ZZ.kt:540`) and the
countdown stays. A second click within two seconds of a countdown that was called off
revives it, `stopConnect` being shared (`ZZ.kt:252`); and a countdown to disconnect
connects instead when the engine ends within its two seconds (`ZZ.kt:263`). A call of
`disconnect` between the death of `:openvpn` and `onServiceDisconnected` ends the app.

## 6. Bounds, fairness, decisions

**Bounds.** They guard actions of the environment only.

- `MaxStarts = 2` (`ss_service`): one start being served and one waiting; the
  waiting ones are alike, and the proofs are for any number. The bound limits
  `UserStart`, not the start that a reload adds. The number of sessions one after
  the other, of crashes and of deaths is not bounded. `MaxTries` is the 5 of `sendFd`.
- `MaxTimers = MaxHolds = 2`, `MaxCommands = 1` (`pause_control`): an old timer and a new
  one; a hold said twice before the first is handled. While a command is unread the
  device and its user wait, but calls that are under way go on, so that several commands
  may follow each other in the socket. Two networks: the same one comes back, or another.
  One binder thread: a second user's call waits for the first, while the main and the
  management thread cross it anywhere. The theorems are for any number of each.
  `pause_user` has one network and the bounds 1, which its counterexample needs no more than.
- `MaxSessions = 2`, `MaxRevocations = 1` (`ovpn_service`): one session replaced by
  another is what the tidying up can get wrong. With three sessions two processes
  can even be connected at once, a consequence of `ovpn_late_end`.

- `SendBufs = RecBufs = 2`, `MaxClient = 4` (`reliable`): after the reset the window
  is filled, moves, and is filled again. The receive window is as small as it may
  be. `AckSize = SendAckMax = 1`: the list of acknowledgements is full with one, so
  acknowledgements are forgotten and repeated; `NAckRetransmit = 1`: one later
  acknowledgement makes an entry due. `MaxServer = 1`: the server only sends its
  reset and acknowledgements; both directions run the same code.
- `MaxFaults = 1`, `MaxFlying = 2` (`reliable`): one packet is lost or doubled, at any
  step, and a timer may fire while another packet is under way, but not without
  end. Reordering is not bounded. The theorems need none of these bounds.

- `Bits = 3`, `MaxNetworks = 4` (`routes`), 3 in `routes_lost`: networks of four sizes,
  three of them in each other and a fourth that is beside, between or within any of
  them, halves that are and are not in the queue already, and pieces of one address.
  The proofs need no bound.

- `MaxGestures = 3`, `MaxCrashes = 1`, `MaxWords = 1` (`home_screen`): a countdown, its
  end and another; a click, a call-off and a click; a start by somebody else, which
  counts as a gesture, between two of the user's. An engine says no more while a word
  of its is under way, but a registration adds one, so that two can be; one death is
  heard of, or not, at any point. The proofs need no bound.

Deadlock is checked but in the OpenVPN session modules and the home screen: when the
bound on sessions is used up and the service has gone, or the user does nothing more,
nothing is left to happen. Which state it stops in is what `TheToldEnd`,
`ServiceLeaves` and `NeverStuck` are about.

**Fairness.** Weak, for each thread's next step: a looper dispatches what is
posted, a timer fires, a coroutine whose result has come is resumed, and what has
been told to end ends (SIGKILL, a shut-down socket, SIGINT). Users, networks,
traffic, dying processes, crashes, revocations and the fetching of rules owe
nothing. In `reliable` a packet that is not lost arrives, one fairness condition for
each id, and the event loop turns (`compute_earliest_wakeup` sees to that). The
timer of the oldest entry is strongly fair: in the code it always fires in the
end, in the model `MaxFlying` in its guard takes that away and gives it back again.
In `routes` the loop goes on; nobody owes the opening of a tunnel.
`SendFdSucceeds \/ SendFdFails` are fair together: an attempt ends, one way
or the other.

**Decisions.**

- The main looper is FIFO, so an `onFatal` posted before a pool was closed runs
  before the clean-up resumes (`~fatal` in `CleanedUp`).
- `Revoke` of `SsService` is the call as the code is written, on the main thread;
  `SsRevoke` has the thread the framework uses.
- A native process that is told to end ends, whatever signal that takes; the
  ErrnoException of `Os.kill` is left out. `Executable.killAll` signals the orphans of a
  crash and does not wait for them; they are taken to be gone when it returns. Standard error is only logged.
- `crashed` lets any subset of the child processes survive a crash.
- `PauseControl` takes the preference `netchangereconnect` as it is by default, on, and
  `screenoff` as on, though its default is off: with it off there are fewer steps, for
  `screenOff` and `updateByteCount` then change nothing. The traffic window of 60 seconds is a choice (too low or
  not); pauseReason, which only words the notification, is left out. What a handler of
  the main thread does with the receiver's fields before its call is one step, and so
  are the two questions and the assignment of `screenOn`; `mWaitingForRelease` is
  read once where `networkChange` and then `releaseHold` read it.
- Sleeps have no length: in the three seconds of `releaseHoldCmd`, the one second
  of `forceStopOpenVpnProcess` and between any two steps, any other thread may run.
- `OvpnService` leaves out the list `active`, since `stopOpenVPN` does nothing for an
  entry whose socket is gone; the keep-alive job, the state listener and the
  connected profile, set and reset along with the receiver; and the
  CancellationException of a binary that cannot be run; and the branch of
  `ALWAYS_SHOW_NOTIFICATION` (`OpenVPNService.java:503`), an extra that nothing in the
  repository sets. The path of the management
  socket belongs to the last session that has bound it, which unlinks it first.
  The service is destroyed only when it is neither started nor bound.

- The main thread's swap of receivers is one step of `OvpnService`: registering and
  unregistering hold the service's monitor, and only `DropReceiver` does not.
- `HomeScreen` has no fairness: that nothing under way leaves no countdown shown is the
  safety half of its end, and that words arrive is the looper's. The protocol that is
  chosen when a countdown ends may be either. Of a service that the screen has nothing
  to do with, the states alone are shown (`SsMoves`), a reload's as well, though nothing
  in the application sends RELOAD. A screen is not recreated while `openVTool` runs.
- `NetworkSpace` is the release build, in which a failed assertion is no exception.
  Which of several equal networks (they differ in type) the `PriorityQueue` polls
  depends on the heap's layout and is left open.
- In `Reliable` ids are numbers and do not wrap at 2^32. Its subject is the channel of
  one key until it is discarded: the renegotiation, which starts a new one, the
  negotiation timeout (`must_negotiate`), which ends in an error, and packets that
  fail authentication, which are dropped before they reach this layer, are left
  out; so are `xmit_hold`, which only TCP servers use, and the empty control packet
  in place of an acknowledgement that a server with cookies asks for. The limit of
  four acknowledgements towards Softether servers is a value of `SendAckMax`.

## 7. Not modelled, and the plan

| part | why, or when |
|---|---|
| Renegotiation and session errors of the control channel | a second key's channel beside the first, and `must_negotiate` |
| The rest of the home screen | the permission dialog, the switch of protocol, the result page, the timer; the engines themselves in place of what they say |
| The rest of `ShadowsocksConnection` and `Binder` | bandwidth listeners, whose looper starts and ends with the first and the last |
| `DefaultNetworkListener` | the actor's messages, with `SsService`'s `preInit`; a pending `get` and a late `onLost` |
| `TrafficMonitor`, direct boot | persisted against transferred, a profile deleted meanwhile |
| `VpnStatus`, `keepVPNAlive`, boot | the last level decides what the job does |
| `Subnet`, subscriptions | pure algorithms against reference definitions over short addresses |
| `ProfileManager` | order of saves, temporary profiles |
| Proxy-only and transparent-proxy services | the VPN service with fewer resources; not started by this application |
| Management protocol's questions, ACL parsing, plugins, database, preferences | one question, one answer: nothing interleaves |
| Native programs, libraries | vendored; only what the code relies on, marked external in the map |

Abstract specifications worth adding: the promise of an OpenVPN service
(`OvpnService` implements it without the late end), and of a listener registry.
Theorems worth adding: that
the channel of a second key does not disturb the first; that what the screen assumes of
OpenVPN's words (`UpdateState` in `HomeScreen`) is what `OvpnService` lets a session say,
once its states are told apart there.
