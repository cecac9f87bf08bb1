-------------------------- MODULE SsServiceRefines ---------------------------
(* SsService implements the safety part of TunnelSpec, for every bound.      *)
EXTENDS SsServiceProofs

RInv == IInv /\ OwnTunnel

\* Where the processes and the thread that protects their sockets stand in a start.
LEMMA StageFacts ==
    /\ Stage["protectThread"] = 2
    /\ Stage["ssLocal"] = 4 /\ Stage["ssLocalUdp"] = 6 /\ Stage["tun2socks"] = 9
    /\ \A p \in Processes : Stage[p] \in {4, 6, 9}
<1>1. Stage["protectThread"] = 2
  BY DEF Stage, Things, Processes, Threads
<1>2. Stage["ssLocal"] = 4
  BY DEF Stage, Things, Processes, Threads
<1>3. Stage["ssLocalUdp"] = 6
  BY DEF Stage, Things, Processes, Threads
<1>4. Stage["tun2socks"] = 9
  BY DEF Stage, Things, Processes, Threads
<1> QED
  BY <1>1, <1>2, <1>3, <1>4 DEF Processes

\* Initially there is nothing to own.
LEMMA InitOwn == Init => OwnTunnel
BY DEF Init, OwnTunnel, Aftermath, Anchored, Jammed

\* What the parts of the invariant say of a guard that waits in vain.
LEMMA DeafFacts ==
    ASSUME RInv, Deaf # {}
    PROVE  /\ "processes" \in held /\ ~crashed /\ "protectThread" \in live
           /\ state # "Stopped" /\ Deaf \subseteq Processes
<1>1. "processes" \in held /\ Deaf \subseteq Processes
  BY DEF RInv, IInv, TypeOK, Guards, Deaf, Processes
<1>2. "processes" \notin EarlyFields
  BY DEF EarlyFields
<1>3. ~crashed
  BY <1>1, <1>2 DEF RInv, OwnTunnel, Aftermath
<1>4. state # "Stopped"
  BY <1>1 DEF RInv, IInv, Possessions
<1>5. "protectThread" \in live
  BY <1>1 DEF RInv, OwnTunnel, Anchored
<1> QED
  BY <1>1, <1>3, <1>4, <1>5

\* stopRunner leaves the tunnel this session's.
LEMMA StopRunnerOwn ==
    ASSUME RInv, NEW r \in BOOLEAN, NEW h \in SUBSET Fields, StopRunner(r, h),
           h = held \/ (state = "Stopped" /\ h \subseteq EarlyFields),
           UNCHANGED <<live, crashed>>
    PROVE  OwnTunnel'
<1> USE DEF StopRunner, StopIgnored, CleanUp, CloseGuards, guards
<1>1. /\ held' \in {h, {}} /\ live' = live /\ crashed' = crashed
      /\ state' = "Stopping"
      /\ \/ UNCHANGED <<dying, exited, resending, hung>>
         \/ /\ exited' = {} /\ resending' = FALSE /\ hung' = hung \cup Deaf
            /\ dying' = {t \in live : Owner[t] \in h} /\ held' = {}
  OBVIOUS
<1>2. Aftermath'
  <2> SUFFICES ASSUME crashed PROVE /\ held' \subseteq EarlyFields /\ live \subseteq Processes
                                    /\ dying' = {} /\ hung' = {}
    BY <1>1 DEF Aftermath
  <2>1. held \subseteq EarlyFields /\ live \subseteq Processes /\ dying = {} /\ hung = {}
    BY DEF RInv, OwnTunnel, Aftermath
  <2>2. h \subseteq EarlyFields
    BY <2>1
  <2>3. Deaf = {}
    BY DeafFacts
  <2>4. {t \in live : Owner[t] \in h} = {}
    BY <2>1, <2>2, OwnerFacts DEF EarlyFields
  <2> QED
    BY <1>1, <2>1, <2>2, <2>3, <2>4
<1>3. Anchored'
  <2> SUFFICES ASSUME "processes" \in held', (live \cup Deaf') \cap Processes # {}
               PROVE  "protectThread" \in live
    BY <1>1 DEF Anchored
  <2>1. "processes" \notin EarlyFields
    BY DEF EarlyFields
  <2>2. held' = h /\ h = held /\ UNCHANGED <<exited, resending>>
    BY <1>1, <2>1
  <2>3. Deaf' = Deaf
    BY <2>2 DEF Deaf
  <2> QED
    BY <2>2, <2>3 DEF RInv, OwnTunnel, Anchored
<1>4. Jammed'
  BY <1>1 DEF Jammed, RInv, OwnTunnel
<1> QED
  BY <1>2, <1>3, <1>4 DEF OwnTunnel

\* So do the clean-up and the starts.
LEMMA StopperOwn == RInv /\ (Stopper \/ UserStart \/ OnStartCommand) => OwnTunnel'
<1> SUFFICES ASSUME RInv, Stopper \/ UserStart \/ OnStartCommand PROVE OwnTunnel'
  OBVIOUS
<1> USE DEF OwnTunnel, Aftermath, Anchored, Jammed
<1>0. /\ held \in SUBSET Fields /\ FALSE \in BOOLEAN
      /\ \A h \in {{"notification"}, {"notification", "proxy"}} : h \in SUBSET Fields /\ h \subseteq EarlyFields
  BY DEF RInv, IInv, TypeOK, Fields, EarlyFields
<1>1. CASE Joined
  <2>1. /\ stopper = "joining" /\ held' = {} /\ hung' = hung \cup Deaf /\ state' = state
        /\ resending' = FALSE /\ exited' = {}
        /\ dying' = {t \in live : Owner[t] \in held}
        /\ live' = live /\ crashed' = crashed
    BY <1>1 DEF Joined, CleanUp, CloseGuards
  <2>2. state = "Stopping"
    BY <2>1 DEF RInv, IInv, Coroutines
  <2>3. ASSUME crashed PROVE dying' = {} /\ hung' = {}
    <3>1. held \subseteq EarlyFields /\ live \subseteq Processes /\ hung = {} /\ Deaf = {}
      BY <2>3, DeafFacts DEF RInv
    <3> QED
      BY <2>1, <3>1, OwnerFacts DEF EarlyFields
  <2> QED
    BY <2>1, <2>2, <2>3 DEF RInv
<1>2. ASSUME NEW t \in Things, Dies(t) PROVE OwnTunnel'
  <2>1. /\ t \in dying /\ live' = live \ {t} /\ dying' = dying \ {t}
        /\ UNCHANGED <<state, held, exited, resending, hung, crashed>>
    BY <1>2 DEF Dies, guards
  <2>2. state = "Stopping" /\ held = {}
    BY <2>1 DEF RInv, IInv, Possessions, Coroutines
  <2> QED
    BY <2>1, <2>2 DEF RInv
<1>3. CASE CleanedUp
  <2>1. /\ dying = {} /\ hung = {} /\ UNCHANGED <<held, live, dying, exited, resending, hung, crashed>>
    BY <1>3 DEF CleanedUp, AllEnded, guards
  <2>2. Deaf' = Deaf
    BY <2>1 DEF Deaf
  <2> QED
    BY <2>1, <2>2 DEF RInv
<1>4. CASE UserStart \/ StartIgnored
  <2>1. UNCHANGED <<state, held, live, dying, exited, resending, hung, crashed>>
    BY <1>4 DEF UserStart, StartIgnored, lifecycle, guards
  <2>2. Deaf' = Deaf
    BY <2>1 DEF Deaf
  <2> QED
    BY <2>1, <2>2 DEF RInv
<1>5. CASE StartRefused
  <2>1. StopRunner(FALSE, held) /\ UNCHANGED <<live, crashed>>
    BY <1>5 DEF StartRefused
  <2> HIDE DEF OwnTunnel, Aftermath, Anchored, Jammed
  <2> QED
    BY <1>0, <2>1, StopRunnerOwn
<1>6. CASE StartWithoutProfile
  <2> HIDE DEF OwnTunnel, Aftermath, Anchored, Jammed
  <2>1. PICK h \in {{"notification"}, {"notification", "proxy"}} : StopRunner(FALSE, h)
    BY <1>6 DEF StartWithoutProfile
  <2>2. state = "Stopped" /\ UNCHANGED <<live, crashed>>
    BY <1>6 DEF StartWithoutProfile
  <2>3. h \in SUBSET Fields /\ h \subseteq EarlyFields
    BY <1>0
  <2> QED
    BY <1>0, <2>1, <2>2, <2>3, StopRunnerOwn
<1>7. CASE StartAccepted
  <2>1. /\ state = "Stopped" /\ held' \subseteq EarlyFields
        /\ UNCHANGED <<live, dying, exited, resending, hung, crashed>>
    BY <1>7 DEF StartAccepted, guards
  <2>2. hung = {} /\ "processes" \notin EarlyFields
    BY <2>1 DEF RInv, IInv, Guards, EarlyFields
  <2> QED
    BY <2>1, <2>2 DEF RInv
<1> QED
  BY <1>1, <1>2, <1>3, <1>4, <1>5, <1>6, <1>7 DEF Stopper, OnStartCommand

\* So does the connecting job: what startProcesses has started when it throws
\* includes the thread that comes before the processes.
LEMMA JobOwn == RInv /\ ConnectingJob => OwnTunnel'
<1> SUFFICES ASSUME RInv, ConnectingJob PROVE OwnTunnel'
  OBVIOUS
<1> USE DEF OwnTunnel, Aftermath, Anchored, Jammed
<1>1. CASE JobBegins
  <2>1. /\ live' = live \ Processes /\ ~crashed' /\ job = "posted" /\ ~cancelled
        /\ UNCHANGED <<state, held, dying, exited, resending, hung>>
    BY <1>1 DEF JobBegins, Executables, Runs, lifecycle, guards
  <2>2. "processes" \notin held
    BY <2>1 DEF RInv, IInv, Possessions, JobActive, EarlyFields
  <2>3. state # "Stopping"
    BY <2>1 DEF RInv, IInv, Coroutines, JobActive
  <2> QED
    BY <2>1, <2>2, <2>3 DEF RInv
<1>2. CASE JobListens \/ JobFlattens \/ JobCancelled
  <2>1. UNCHANGED <<state, held, live, dying, exited, resending, hung, crashed>>
    BY <1>2 DEF JobListens, JobFlattens, JobCancelled, lifecycle, guards
  <2>2. Deaf' = Deaf
    BY <2>1 DEF Deaf
  <2> QED
    BY <2>1, <2>2 DEF RInv
<1>3. CASE SendFdSucceeds \/ FlattenFails \/ SendFdFails
  <2>1. /\ UNCHANGED <<held, live, dying, exited, resending, hung, crashed>>
        /\ state # "Stopping"
    <3>1. JobActive /\ ~cancelled
      BY <1>3 DEF SendFdSucceeds, FlattenFails, SendFdFails, Runs, JobActive
    <3>2. state # "Stopping"
      BY <3>1 DEF RInv, IInv, Coroutines
    <3> QED
      BY <1>3, <3>2 DEF SendFdSucceeds, FlattenFails, SendFdFails, JobFails, lifecycle, guards
  <2>2. Deaf' = Deaf
    BY <2>1 DEF Deaf
  <2> QED
    BY <2>1, <2>2 DEF RInv
<1>4. CASE JobStarts
  <2>1. /\ state = "Connecting" /\ ~crashed /\ live = {} /\ held \subseteq EarlyFields
    BY <1>4 DEF RInv, IInv, Coroutines, Possessions, NoOverlap, JobStarts, Runs, JobActive
  <2>2. PICK n \in 1..LastStage : live' = ThingsUpTo(n)
    BY <1>4, <2>1 DEF JobStarts
  <2>3. "processes" \notin held
    BY <2>1 DEF EarlyFields
  <2>4. Deaf = {} /\ hung = {}
    BY <2>1, <2>3, DeafFacts DEF RInv
  <2>5. UNCHANGED <<dying, exited, resending, hung, crashed>>
    BY <1>4 DEF JobStarts, JobFails, guards
  <2>6. Deaf' = {} /\ exited' = {}
    BY <2>4, <2>5 DEF Deaf
  <2>7. ASSUME NEW p \in Processes, p \in ThingsUpTo(n)
        PROVE  "protectThread" \in ThingsUpTo(n)
    <3>1. Stage[p] <= n /\ Stage["protectThread"] = 2 /\ Stage[p] \in {4, 6, 9}
      BY <2>7, StageFacts DEF ThingsUpTo
    <3>2. "protectThread" \in ThingsOf(held)
      BY DEF ThingsOf, Things, Threads
    <3> QED
      BY <3>1, <3>2 DEF ThingsUpTo, LastStage
  <2> QED
    BY <2>1, <2>2, <2>4, <2>5, <2>6, <2>7
<1> QED
  BY <1>1, <1>2, <1>3, <1>4 DEF ConnectingJob

\* So do the events of a session and its guards.
LEMMA EventOwn == RInv /\ (FatalError \/ Close \/ Reload \/ Revoke \/ Crash \/ Guarding
                             \/ \E p \in Processes : ProcessExits(p)) => OwnTunnel'
<1> SUFFICES ASSUME RInv,
                    FatalError \/ Close \/ Reload \/ Revoke \/ Crash \/ Guarding
                      \/ \E p \in Processes : ProcessExits(p)
             PROVE  OwnTunnel'
  OBVIOUS
<1>0. held \in SUBSET Fields
  BY DEF RInv, IInv, TypeOK
<1>1. CASE FatalError \/ Close \/ Reload \/ Revoke
  <2>1. PICK r \in BOOLEAN : StopRunner(r, held)
    BY <1>1 DEF FatalError, Close, Reload, Revoke
  <2>2. UNCHANGED <<live, crashed>>
    BY <1>1 DEF FatalError, Close, Reload, Revoke
  <2> QED
    BY <1>0, <2>1, <2>2, StopRunnerOwn
<1>2. CASE Crash
  BY <1>2 DEF Crash, OwnTunnel, Aftermath, Anchored, Jammed
<1> USE DEF OwnTunnel, Aftermath, Anchored, Jammed
<1>3. ASSUME NEW p \in Processes, ProcessExits(p) PROVE OwnTunnel'
  <2>1. /\ p \in live /\ "processes" \in held /\ live' = live \ {p}
        /\ exited' = exited \cup ({p} \ Deaf)
        /\ UNCHANGED <<state, held, dying, resending, hung, crashed>>
    BY <1>3 DEF ProcessExits
  <2>2. "protectThread" \in live /\ p # "protectThread"
    BY <2>1 DEF RInv, Processes
  <2>3. ~crashed
    BY <2>1 DEF RInv, EarlyFields
  <2>4. live' \cup Deaf' = live \cup Deaf
    BY <2>1 DEF Deaf
  <2>5. ASSUME resending' PROVE "tun2socks" \notin exited'
    <3>1. resending /\ "tun2socks" \notin exited /\ "tun2socks" \in Deaf
      BY <2>1, <2>5 DEF RInv, Deaf
    <3> QED
      BY <2>1, <3>1
  <2>6. Jammed'
    BY <2>1, <2>4, <2>5 DEF RInv
  <2>7. Aftermath' /\ Anchored'
    BY <2>1, <2>2, <2>3, <2>4 DEF RInv
  <2> QED
    BY <2>6, <2>7
<1>4. ASSUME NEW p \in Processes, GuardGivesUp(p) \/ GuardRestarts(p) PROVE OwnTunnel'
  <2>1. /\ p \in exited /\ exited' = exited \ {p} /\ live' \in {live, live \cup {p}}
        /\ resending' => resending \/ (p = "tun2socks" /\ live' = live \cup {p})
        /\ UNCHANGED <<state, held, dying, hung, crashed>>
    <3>1. CASE GuardGivesUp(p)
      BY <3>1 DEF GuardGivesUp
    <3>2. CASE GuardRestarts(p)
      <4>1. resending' => resending \/ p = "tun2socks"
        BY <3>2, Zenon DEF GuardRestarts
      <4> QED
        BY <3>2, <4>1 DEF GuardRestarts
    <3> QED
      BY <1>4, <3>1, <3>2
  <2>2. p \in Deaf /\ live' \cup Deaf' \subseteq live \cup Deaf
    BY <2>1 DEF Deaf
  <2>3. "protectThread" \in live /\ ~crashed
    BY <2>2, DeafFacts
  <2> QED
    BY <2>1, <2>2, <2>3 DEF RInv
<1>5. CASE ResendSucceeds
  <2>1. /\ resending /\ ~resending'
        /\ UNCHANGED <<state, held, live, dying, exited, hung, crashed>>
    BY <1>5 DEF ResendSucceeds
  <2>2. Deaf' \subseteq Deaf
    BY <2>1 DEF Deaf
  <2> QED
    BY <2>1, <2>2 DEF RInv
<1>6. CASE ResendFails
  <2>1. /\ resending /\ ~resending' /\ live' = live \ {"tun2socks"}
        /\ hung' = hung \cup {"tun2socks"}
        /\ UNCHANGED <<state, held, dying, exited, crashed>>
    BY <1>6 DEF ResendFails
  <2>2. "tun2socks" \in Deaf /\ Deaf' = exited /\ Deaf' \subseteq Deaf
    BY <2>1 DEF Deaf
  <2>3. "protectThread" \in live /\ ~crashed /\ "processes" \in held
    BY <2>2, DeafFacts
  <2>4. state # "Stopping" => hung = {}
    BY <2>2 DEF RInv
  <2> QED
    BY <2>1, <2>2, <2>3, <2>4 DEF RInv
<1> QED
  BY <1>1, <1>2, <1>3, <1>4, <1>5, <1>6 DEF Guarding, Guard

\* Every step keeps what the refinement needs.
LEMMA OwnStep == RInv /\ [Next]_vars => OwnTunnel'
<1> SUFFICES ASSUME RInv, [Next]_vars PROVE OwnTunnel'
  OBVIOUS
<1>1. CASE UNCHANGED vars
  <2>1. UNCHANGED <<state, held, live, dying, exited, resending, hung, crashed>>
    BY <1>1 DEF vars, guards
  <2>2. Deaf' = Deaf
    BY <2>1 DEF Deaf
  <2> QED
    BY <2>1, <2>2 DEF RInv, OwnTunnel, Aftermath, Anchored, Jammed
<1> QED
  BY <1>1, StopperOwn, JobOwn, EventOwn DEF Next, Environment

-----------------------------------------------------------------------------
\* The abstract variables, before a step and after it.
LEMMA AbstractFacts ==
    ASSUME TypeOK, TypeOK'
    PROVE  /\ state = "Stopped" <=> phaseOf = "off"
           /\ state = "Connecting" <=> phaseOf = "starting"
           /\ state = "Connected" <=> phaseOf = "on"
           /\ state = "Stopping" <=> phaseOf = "stopping"
           /\ state' = "Stopped" <=> phaseOf' = "off"
           /\ state' = "Connecting" <=> phaseOf' = "starting"
           /\ state' = "Connected" <=> phaseOf' = "on"
           /\ state' = "Stopping" <=> phaseOf' = "stopping"
           /\ hung # {} => tunnelOf = "stuck"
           /\ hung = {} /\ live = {} => tunnelOf = "none"
           /\ hung = {} /\ live # {} /\ crashed => tunnelOf = "orphan"
           /\ hung = {} /\ live # {} /\ ~crashed => tunnelOf = "own"
           /\ hung' # {} => tunnelOf' = "stuck"
           /\ hung' = {} /\ live' = {} => tunnelOf' = "none"
           /\ hung' = {} /\ live' # {} /\ crashed' => tunnelOf' = "orphan"
           /\ hung' = {} /\ live' # {} /\ ~crashed' => tunnelOf' = "own"
<1>1. /\ state = "Stopped" <=> phaseOf = "off"
      /\ state = "Connecting" <=> phaseOf = "starting"
      /\ state = "Connected" <=> phaseOf = "on"
      /\ state = "Stopping" <=> phaseOf = "stopping"
  BY DEF TypeOK, States, phaseOf
<1>2. /\ state' = "Stopped" <=> phaseOf' = "off"
      /\ state' = "Connecting" <=> phaseOf' = "starting"
      /\ state' = "Connected" <=> phaseOf' = "on"
      /\ state' = "Stopping" <=> phaseOf' = "stopping"
  BY DEF TypeOK, States, phaseOf
<1>3. /\ hung # {} => tunnelOf = "stuck"
      /\ hung = {} /\ live = {} => tunnelOf = "none"
      /\ hung = {} /\ live # {} /\ crashed => tunnelOf = "orphan"
      /\ hung = {} /\ live # {} /\ ~crashed => tunnelOf = "own"
  BY DEF tunnelOf
<1>4. /\ hung' # {} => tunnelOf' = "stuck"
      /\ hung' = {} /\ live' = {} => tunnelOf' = "none"
      /\ hung' = {} /\ live' # {} /\ crashed' => tunnelOf' = "orphan"
      /\ hung' = {} /\ live' # {} /\ ~crashed' => tunnelOf' = "own"
  BY DEF tunnelOf
<1> QED
  BY <1>1, <1>2, <1>3, <1>4

\* A step that changes neither the state nor whether anything lives or is stuck.
LEMMA Stutters ==
    ASSUME TypeOK, TypeOK', UNCHANGED <<state, hung, crashed>>, live' = {} <=> live = {}
    PROVE  UNCHANGED <<phaseOf, tunnelOf>>
<1>1. phaseOf' = phaseOf
  BY DEF phaseOf
<1>2. tunnelOf' = tunnelOf
  <2>1. CASE hung # {}
    BY <2>1, AbstractFacts
  <2>2. CASE hung = {} /\ live = {}
    BY <2>2, AbstractFacts
  <2>3. CASE hung = {} /\ live # {} /\ crashed
    BY <2>3, AbstractFacts
  <2>4. CASE hung = {} /\ live # {} /\ ~crashed
    BY <2>4, AbstractFacts
  <2> QED
    BY <2>1, <2>2, <2>3, <2>4
<1> QED
  BY <1>1, <1>2

\* A tunnel that is torn down, or whose pool is closed, stays as it is or gets stuck.
LEMMA CloseRefines ==
    ASSUME RInv, TypeOK', UNCHANGED <<live, crashed>>, hung' = hung \/ hung' = hung \cup Deaf
    PROVE  \/ tunnelOf' = tunnelOf
           \/ state # "Stopped" /\ tunnelOf = "own" /\ tunnelOf' = "stuck"
<1> USE DEF RInv, IInv
<1>1. CASE hung' = hung
  BY <1>1 DEF tunnelOf
<1>2. CASE hung' = hung \cup Deaf /\ hung' # hung
  <2>1. Deaf # {} /\ hung' # {}
    BY <1>2
  <2>2. ~crashed /\ live # {} /\ state # "Stopped"
    BY <2>1, DeafFacts
  <2> QED
    BY <2>1, <2>2, AbstractFacts
<1> QED
  BY <1>1, <1>2

\* stopRunner stops, or does nothing.
LEMMA StopRunnerRefines ==
    ASSUME RInv, TypeOK', NEW r, NEW h, StopRunner(r, h), UNCHANGED <<live, crashed>>
    PROVE  Tunnel!Next \/ UNCHANGED <<phaseOf, tunnelOf>>
<1> USE DEF RInv, IInv
<1>1. \/ UNCHANGED <<state, hung>>
      \/ /\ state # "Stopping" /\ state' = "Stopping"
         /\ hung' = hung \/ hung' = hung \cup Deaf
  BY DEF StopRunner, StopIgnored, CleanUp, CloseGuards, guards
<1>2. CASE UNCHANGED <<state, hung>>
  BY <1>2, Stutters
<1>3. CASE state # "Stopping" /\ state' = "Stopping" /\ (hung' = hung \/ hung' = hung \cup Deaf)
  <2>1. phaseOf # "stopping" /\ phaseOf' = "stopping"
    BY <1>3, AbstractFacts
  <2>2. CASE tunnelOf' = tunnelOf
    BY <2>1, <2>2 DEF Tunnel!Next, Tunnel!Stop
  <2>3. CASE state # "Stopped" /\ tunnelOf = "own" /\ tunnelOf' = "stuck"
    <3>1. phaseOf # "off"
      BY <2>3, AbstractFacts
    <3> QED
      BY <2>1, <2>3, <3>1 DEF Tunnel!Next, Tunnel!Jam
  <2> QED
    BY <1>3, <2>2, <2>3, CloseRefines
<1> QED
  BY <1>1, <1>2, <1>3

\* The clean-up tears the tunnel down, and says Stopped when it is done; a start is
\* accepted only when the service is off.
LEMMA StopperRefines ==
    ASSUME RInv, TypeOK', Stopper \/ UserStart \/ OnStartCommand
    PROVE  Tunnel!Next \/ UNCHANGED <<phaseOf, tunnelOf>>
<1> USE DEF RInv, IInv
<1>1. CASE Joined
  <2>1. /\ stopper = "joining" /\ UNCHANGED <<state, live, crashed>> /\ hung' = hung \cup Deaf
    BY <1>1 DEF Joined, CleanUp, CloseGuards
  <2>2. state = "Stopping"
    BY <2>1 DEF Coroutines
  <2>3. phaseOf = "stopping" /\ phaseOf' = phaseOf
    BY <2>1, <2>2, AbstractFacts
  <2>4. CASE tunnelOf' = tunnelOf
    BY <2>3, <2>4
  <2>5. CASE tunnelOf = "own" /\ tunnelOf' = "stuck"
    BY <2>3, <2>5 DEF Tunnel!Next, Tunnel!Jam
  <2> QED
    BY <2>1, <2>4, <2>5, CloseRefines
<1>2. ASSUME NEW t \in Things, Dies(t)
      PROVE  Tunnel!Next \/ UNCHANGED <<phaseOf, tunnelOf>>
  <2>1. /\ t \in dying /\ live' = live \ {t} /\ UNCHANGED <<state, hung, crashed>>
    BY <1>2 DEF Dies, guards
  <2>2. state = "Stopping" /\ ~crashed /\ live # {}
    BY <2>1 DEF Possessions, Coroutines, OwnTunnel, Aftermath, TypeOK
  <2>3. CASE live' # {} \/ hung # {}
    <3>1. CASE live' # {}
      BY <2>1, <2>2, <3>1, Stutters
    <3>2. CASE hung # {}
      BY <2>1, <3>2, AbstractFacts DEF phaseOf
    <3> QED
      BY <2>3, <3>1, <3>2
  <2>4. CASE live' = {} /\ hung = {}
    <3>1. /\ phaseOf = "stopping" /\ phaseOf' = "stopping"
          /\ tunnelOf = "own" /\ tunnelOf' = "none"
      BY <2>1, <2>2, <2>4, AbstractFacts
    <3> QED
      BY <3>1 DEF Tunnel!Next, Tunnel!TearDown
  <2> QED
    BY <2>3, <2>4
<1>3. CASE CleanedUp
  <2>1. /\ stopper = "cleaning" /\ dying = {} /\ hung = {} /\ state' = "Stopped"
        /\ UNCHANGED <<live, hung, crashed>>
    BY <1>3 DEF CleanedUp, AllEnded, guards
  <2>2. state = "Stopping" /\ held = {}
    BY <2>1 DEF Coroutines, Possessions
  <2>3. live = {} \/ crashed
    BY <2>1, <2>2 DEF NothingLeaks
  <2>4. /\ phaseOf = "stopping" /\ phaseOf' = "off" /\ tunnelOf \in {"none", "orphan"}
        /\ tunnelOf' = tunnelOf
    BY <2>1, <2>2, <2>3, AbstractFacts
  <2> QED
    BY <2>4 DEF Tunnel!Next, Tunnel!Done
<1>4. CASE UserStart \/ StartIgnored
  BY <1>4, Stutters DEF UserStart, StartIgnored, lifecycle, guards
<1>5. CASE StartRefused
  BY <1>5, StopRunnerRefines DEF StartRefused
<1>6. CASE StartWithoutProfile
  BY <1>6, StopRunnerRefines DEF StartWithoutProfile
<1>7. CASE StartAccepted
  <2>1. state = "Stopped" /\ state' = "Connecting" /\ UNCHANGED <<live, hung, crashed>>
    BY <1>7 DEF StartAccepted, guards
  <2>2. phaseOf = "off" /\ phaseOf' = "starting" /\ tunnelOf' = tunnelOf
    BY <2>1, AbstractFacts DEF tunnelOf
  <2> QED
    BY <2>2 DEF Tunnel!Next, Tunnel!Begin
<1> QED
  BY <1>1, <1>2, <1>3, <1>4, <1>5, <1>6, <1>7 DEF Stopper, OnStartCommand

\* The connecting job sweeps what a crash left, builds, and is up with a tunnel of
\* its own.
LEMMA JobRefines ==
    ASSUME RInv, TypeOK', ConnectingJob
    PROVE  Tunnel!Next \/ UNCHANGED <<phaseOf, tunnelOf>>
<1> USE DEF RInv, IInv
<1>1. CASE JobBegins
  <2>1. /\ job = "posted" /\ ~cancelled /\ live' = live \ Processes /\ ~crashed'
        /\ UNCHANGED <<state, hung>>
    BY <1>1 DEF JobBegins, Runs, Executables, lifecycle, guards
  <2>2. state = "Connecting" /\ OnlyOrphans
    BY <2>1 DEF Coroutines, Possessions, JobActive
  <2>3. CASE live = {}
    <3>1. live' = {}
      BY <2>1, <2>3
    <3> QED
      BY <2>1, <2>3, <3>1, AbstractFacts DEF phaseOf
  <2>4. CASE live # {}
    <3>1. crashed /\ live' = {} /\ hung = {}
      BY <2>1, <2>2, <2>4 DEF OnlyOrphans, OwnTunnel, Aftermath
    <3>2. /\ phaseOf = "starting" /\ phaseOf' = "starting"
          /\ tunnelOf = "orphan" /\ tunnelOf' = "none"
      BY <2>1, <2>2, <2>4, <3>1, AbstractFacts
    <3> QED
      BY <3>2 DEF Tunnel!Next, Tunnel!Sweep
  <2> QED
    BY <2>3, <2>4
<1>2. CASE JobListens \/ JobFlattens \/ JobCancelled
  BY <1>2, Stutters DEF JobListens, JobFlattens, JobCancelled, lifecycle, guards
<1>3. CASE FlattenFails \/ SendFdFails
  <2>1. /\ UNCHANGED <<live, hung, crashed>>
        /\ state' = state \/ state' = "Stopping"
    BY <1>3 DEF FlattenFails, SendFdFails, JobFails, lifecycle, guards
  <2>2. state = "Connecting"
    BY <1>3 DEF FlattenFails, SendFdFails, Runs, Coroutines, JobActive
  <2>3. CASE state' = state
    BY <2>1, <2>3, Stutters
  <2>4. CASE state' = "Stopping"
    <3>1. phaseOf = "starting" /\ phaseOf' = "stopping" /\ tunnelOf' = tunnelOf
      BY <2>1, <2>2, <2>4, AbstractFacts DEF tunnelOf
    <3> QED
      BY <3>1 DEF Tunnel!Next, Tunnel!Stop
  <2> QED
    BY <2>1, <2>3, <2>4
<1>4. CASE SendFdSucceeds
  <2>1. /\ job = "sendFd" /\ ~cancelled /\ "tun2socks" \in live /\ state' = "Connected"
        /\ UNCHANGED <<live, hung, crashed>>
    BY <1>4 DEF SendFdSucceeds, Runs, guards
  <2>2. state = "Connecting" /\ ~crashed
    BY <2>1 DEF Coroutines, Possessions, JobActive
  <2>3. hung = {}
    BY <2>1, <2>2 DEF OwnTunnel, Jammed
  <2>4. /\ phaseOf = "starting" /\ phaseOf' = "on" /\ tunnelOf = "own" /\ tunnelOf' = tunnelOf
    BY <2>1, <2>2, <2>3, AbstractFacts DEF tunnelOf
  <2> QED
    BY <2>4 DEF Tunnel!Next, Tunnel!Up
<1>5. CASE JobStarts
  <2>1. state = "Connecting" /\ ~crashed /\ live = {} /\ held \subseteq EarlyFields
    BY <1>5 DEF Coroutines, Possessions, NoOverlap, JobStarts, Runs, JobActive
  <2>2. hung = {}
    BY <2>1 DEF OwnTunnel, Jammed, EarlyFields
  <2>3. /\ UNCHANGED <<hung, crashed>> /\ state' \in {state, "Stopping"}
        /\ state' = state => live' = ThingsUpTo(LastStage)
    BY <1>5, <2>1 DEF JobStarts, JobFails, guards
  <2>4. CASE state' = state
    <3>1. "protectThread" \in live'
      BY <2>3, <2>4, AcquireAll DEF ThingsOf, Things, Threads
    <3>2. /\ phaseOf = "starting" /\ phaseOf' = phaseOf /\ tunnelOf = "none" /\ tunnelOf' = "own"
      BY <2>1, <2>2, <2>3, <2>4, <3>1, AbstractFacts
    <3> QED
      BY <3>2 DEF Tunnel!Next, Tunnel!Build
  <2>5. CASE state' = "Stopping"
    <3>1. phaseOf = "starting" /\ phaseOf' = "stopping" /\ tunnelOf = "none"
      BY <2>1, <2>2, <2>5, AbstractFacts
    <3>2. tunnelOf' \in {"none", "own"}
      BY <2>1, <2>2, <2>3, AbstractFacts
    <3> QED
      BY <3>1, <3>2 DEF Tunnel!Next, Tunnel!Stop, Tunnel!BuildFails
  <2> QED
    BY <2>3, <2>4, <2>5
<1> QED
  BY <1>1, <1>2, <1>3, <1>4, <1>5 DEF ConnectingJob

\* Events stop the session or leave the tunnel as it is, a crash leaves orphans at
\* most, and a guard that cannot send the descriptor jams the tunnel.
LEMMA EventRefines ==
    ASSUME RInv, TypeOK',
           FatalError \/ Close \/ Reload \/ Revoke \/ Crash \/ Guarding
             \/ \E p \in Processes : ProcessExits(p)
    PROVE  Tunnel!Next \/ UNCHANGED <<phaseOf, tunnelOf>>
<1> USE DEF RInv, IInv
<1>1. CASE FatalError \/ Close \/ Reload \/ Revoke
  BY <1>1, StopRunnerRefines DEF FatalError, Close, Reload, Revoke
<1>2. CASE Crash
  <2>1. /\ state' = "Stopped" /\ hung' = {} /\ crashed' /\ live' \subseteq live
    BY <1>2 DEF Crash
  <2>2. phaseOf' = "off" /\ tunnelOf' \in {"none", "orphan"}
    BY <2>1, AbstractFacts
  <2>3. tunnelOf = "none" => tunnelOf' = "none"
    <3>1. ASSUME tunnelOf = "none" PROVE live = {}
      BY <3>1, AbstractFacts
    <3>2. live = {} => live' = {}
      BY <2>1
    <3> QED
      BY <2>1, <3>1, <3>2, AbstractFacts
  <2> QED
    BY <2>2, <2>3 DEF Tunnel!Next, Tunnel!Die
<1>3. ASSUME NEW p \in Processes, ProcessExits(p)
      PROVE  UNCHANGED <<phaseOf, tunnelOf>>
  <2>1. /\ p \in live /\ "processes" \in held /\ live' = live \ {p}
        /\ UNCHANGED <<state, hung, crashed>>
    BY <1>3 DEF ProcessExits
  <2>2. "protectThread" \in live /\ p # "protectThread"
    BY <2>1 DEF OwnTunnel, Anchored, Processes
  <2>3. live # {} /\ live' # {}
    BY <2>1, <2>2
  <2> QED
    BY <2>1, <2>3, Stutters
<1>4. ASSUME NEW p \in Processes, GuardGivesUp(p) \/ GuardRestarts(p)
      PROVE  UNCHANGED <<phaseOf, tunnelOf>>
  <2>1. /\ p \in exited /\ live' \in {live, live \cup {p}} /\ UNCHANGED <<state, hung, crashed>>
    BY <1>4 DEF GuardGivesUp, GuardRestarts
  <2>2. live # {} /\ live' # {}
    BY <2>1, DeafFacts DEF Deaf
  <2> QED
    BY <2>1, <2>2, Stutters
<1>5. CASE ResendSucceeds
  BY <1>5, Stutters DEF ResendSucceeds
<1>6. CASE ResendFails
  <2>1. /\ resending /\ hung' = hung \cup {"tun2socks"} /\ UNCHANGED <<state, crashed>>
    BY <1>6 DEF ResendFails
  <2>2. live # {} /\ ~crashed /\ state # "Stopped"
    BY <2>1, DeafFacts DEF Deaf
  <2>3. phaseOf # "off" /\ phaseOf' = phaseOf /\ tunnelOf' = "stuck"
    BY <2>1, <2>2, AbstractFacts DEF phaseOf
  <2>4. tunnelOf \in {"own", "stuck"}
    BY <2>2, AbstractFacts
  <2> QED
    BY <2>3, <2>4 DEF Tunnel!Next, Tunnel!Jam
<1> QED
  BY <1>1, <1>2, <1>3, <1>4, <1>5, <1>6 DEF Guarding, Guard

-----------------------------------------------------------------------------
\* The invariant of the refinement holds in every reachable state.
THEOREM OwnTunnelHolds == Spec => []OwnTunnel
<1>1. Spec => []RInv
  <2>1. Init => RInv
    BY InitInv, InitOwn DEF RInv
  <2>2. IInv /\ IInv' /\ RInv /\ [Next]_vars => RInv'
    BY OwnStep DEF RInv
  <2> QED
    BY <2>1, <2>2, Inductive, PTL DEF Spec
<1>2. RInv => OwnTunnel
  BY DEF RInv
<1> QED
  BY <1>1, <1>2, PTL

\* The service implements the safety part of TunnelSpec: it says off only when
\* nothing of a session exists, on only with a tunnel of its own, and builds none
\* beside another (BaseService.stopRunner, onStartCommand, VpnService.startProcesses).
THEOREM Implements == Spec => Tunnel!Init /\ [][Tunnel!Next]_(Tunnel!vars)
<1>1. Init => Tunnel!Init
  BY DEF Init, Tunnel!Init, phaseOf, tunnelOf
<1>2. IInv /\ IInv' /\ OwnTunnel /\ [Next]_vars => [Tunnel!Next]_(Tunnel!vars)
  <2> SUFFICES ASSUME IInv, IInv', OwnTunnel, [Next]_vars
               PROVE  Tunnel!Next \/ UNCHANGED <<phaseOf, tunnelOf>>
    BY DEF Tunnel!vars
  <2>1. RInv /\ TypeOK'
    BY DEF RInv, IInv
  <2>2. CASE UNCHANGED vars
    BY <2>2 DEF vars, guards, phaseOf, tunnelOf
  <2> QED
    BY <2>1, <2>2, StopperRefines, JobRefines, EventRefines DEF Next, Environment
<1> QED
  BY <1>1, <1>2, Inductive, OwnTunnelHolds, PTL DEF Spec

=============================================================================
