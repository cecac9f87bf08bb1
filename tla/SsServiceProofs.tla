--------------------------- MODULE SsServiceProofs ---------------------------
(* Theorems about SsService, for every bound on the waiting starts. *)
EXTENDS SsService, TLAPS

\* The three kinds of things, and that what owns a thing is acquired no later than it.
LEMMA OwnerFacts ==
    /\ \A t \in Processes : Owner[t] = "processes"
    /\ \A t \in Things : Owner[t] \in Fields
    /\ \A t \in Things : Stage[t] \in 1..LastStage
    /\ \A f \in RunFields : Stage[f] \in 1..LastStage
    /\ \A t \in Things : Owner[t] \in RunFields => Stage[Owner[t]] <= Stage[t]
    /\ \A t \in Things : Owner[t] = "udpFallback" => t = "trafficUdp"
BY DEF Owner, Stage, LastStage, Things, Processes, Threads, Fields, EarlyFields, RunFields

\* Init establishes the inductive invariant.
LEMMA InitInv == Init => IInv
<1> SUFFICES ASSUME Init PROVE IInv
  OBVIOUS
<1> USE DEF Init
<1>1. TypeOK
  <2>1. tries \in 0..(MaxTries + 1) /\ starts \in Nat
    BY SMT DEF MaxTries
  <2>2. QED
    BY <2>1, Zenon DEF TypeOK, States, JobPcs
<1>2. Coroutines /\ Possessions /\ Guards
  BY DEF Coroutines, Possessions, Guards, Deaf, JobActive
<1>3. NoOverlap /\ NothingLeaks /\ BootMeansRunning
  BY DEF NoOverlap, NothingLeaks, BootMeansRunning
<1> QED
  BY <1>1, <1>2, <1>3 DEF IInv

\* stopRunner preserves the invariant, from whichever handler it is called: it is
\* given the fields that are set, which only onStartCommand, in state Stopped,
\* extends first.
LEMMA StopRunnerInv ==
    ASSUME IInv, NEW r \in BOOLEAN, NEW h \in SUBSET Fields, StopRunner(r, h),
           state # "Stopped" => h = held,
           UNCHANGED <<job, tries, live, listening, crashed>>,
           fatal' \in BOOLEAN, starts' \in Nat, boot' \in BOOLEAN, owed' \in BOOLEAN
    PROVE  IInv'
<1> USE DEF IInv, TypeOK, StopRunner, StopIgnored, CleanUp, CloseGuards, guards
<1>0. Deaf \subseteq Processes
  BY DEF Deaf, Processes
<1>1. TypeOK'
  <2>1. /\ state' \in States /\ restart' \in BOOLEAN /\ cancelled' \in BOOLEAN
        /\ stopper' \in {"none", "joining", "cleaning"}
    BY Zenon DEF States
  <2>2. held' \subseteq Fields /\ dying' \subseteq live'
    OBVIOUS
  <2>3. exited' \subseteq Processes /\ hung' \subseteq Processes
    BY <1>0
  <2>4. resending' \in BOOLEAN
    BY Zenon
  <2>5. QED
    BY <2>1, <2>2, <2>3, <2>4, Zenon
<1>2. Coroutines'
  BY DEF Coroutines, JobActive
<1>3. Possessions'
  BY DEF Coroutines, Possessions, JobActive, OnlyOrphans
<1>7. Guards'
  BY DEF Guards, Deaf, Possessions
<1>4. NoOverlap'
  BY DEF NoOverlap
<1>5. NothingLeaks'
  BY DEF NothingLeaks, Coroutines, Possessions
<1>6. BootMeansRunning'
  BY DEF BootMeansRunning
<1> QED
  BY <1>1, <1>2, <1>3, <1>4, <1>5, <1>6, <1>7, Zenon

\* Acquiring the things and fields up to a stage leaves nothing without an owner.
LEMMA AcquireOwned ==
    ASSUME NEW n \in 1..LastStage, NEW t \in ThingsUpTo(n),
           EarlyFields \ {"udpFallback"} \subseteq held
    PROVE  t \in Things /\ Owner[t] \in held \cup FieldsUpTo(n)
<1> USE DEF ThingsUpTo, ThingsOf
<1>1. t \in Things /\ Stage[t] <= n
  OBVIOUS
<1>2. CASE Owner[t] \in RunFields
  BY <1>1, <1>2, OwnerFacts DEF FieldsUpTo, LastStage
<1>3. CASE Owner[t] \in EarlyFields
  BY <1>1, <1>3, OwnerFacts
<1> QED
  BY <1>1, <1>2, <1>3, OwnerFacts DEF Fields

\* A complete start leaves the session whole.
LEMMA AcquireAll == ThingsUpTo(LastStage) = ThingsOf(held)
BY OwnerFacts DEF ThingsUpTo, ThingsOf, LastStage

\* Ending and leaving, the steps of the clean-up.
LEMMA StopperInv == IInv /\ Stopper => IInv'
<1> SUFFICES ASSUME IInv, Stopper PROVE IInv'
  OBVIOUS
<1> USE DEF IInv, TypeOK, Coroutines, Possessions, NoOverlap, NothingLeaks, BootMeansRunning,
            OnlyOrphans, SessionWhole, JobActive, Guards, Deaf, States, JobPcs
<1>1. CASE Joined
  <2>1. Deaf \subseteq Processes
    BY DEF Deaf, Processes
  <2> QED
    BY <1>1, <2>1 DEF Joined, CleanUp, CloseGuards
<1>2. ASSUME NEW t \in Things, Dies(t) PROVE IInv'
  BY <1>2 DEF Dies, guards
<1>3. CASE CleanedUp
  <2>1. /\ state' = "Stopped" /\ stopper' = "none" /\ ~restart' /\ restart' \in BOOLEAN
        /\ UNCHANGED <<job, cancelled, tries, held, live, dying, exited, resending, hung,
                       fatal, listening, crashed>>
        /\ stopper = "cleaning" /\ dying = {} /\ hung = {} /\ ~fatal
    BY <1>3, Zenon DEF CleanedUp, AllEnded, guards
  <2>2. /\ starts' \in Nat /\ boot' \in BOOLEAN /\ owed' \in BOOLEAN
        /\ boot' => starts' > 0 \/ crashed'
    <3>1. CASE restart
      BY <1>3, <3>1 DEF CleanedUp, StartAgainOrLeave
    <3>2. CASE ~restart
      BY <1>3, <3>2 DEF CleanedUp, StartAgainOrLeave
    <3> QED
      BY <3>1, <3>2
  <2> QED
    BY <2>1, <2>2
<1> QED
  BY <1>1, <1>2, <1>3 DEF Stopper

\* Starting, up to the launch of the connecting job.
LEMMA StartInv == IInv /\ (UserStart \/ OnStartCommand) => IInv'
<1> SUFFICES ASSUME IInv, UserStart \/ OnStartCommand PROVE IInv'
  OBVIOUS
<1> USE DEF IInv, TypeOK
<1>1. CASE UserStart
  BY <1>1 DEF UserStart, lifecycle, guards, Coroutines, Possessions, NoOverlap, NothingLeaks,
              BootMeansRunning, OnlyOrphans, SessionWhole, JobActive, Guards, Deaf
<1>2. CASE StartRefused
  <2>1. starts' \in Nat
    BY <1>2 DEF StartRefused
  <2>2. /\ StopRunner(FALSE, held) /\ held \in SUBSET Fields
        /\ UNCHANGED <<job, tries, live, listening, crashed>>
        /\ fatal' \in BOOLEAN /\ boot' \in BOOLEAN /\ owed' \in BOOLEAN
    BY <1>2, Zenon DEF StartRefused
  <2> QED
    BY <2>1, <2>2, StopRunnerInv, Zenon
<1>3. CASE StartIgnored
  BY <1>3 DEF StartIgnored, lifecycle, guards, Coroutines, Possessions, NoOverlap, NothingLeaks,
              BootMeansRunning, OnlyOrphans, SessionWhole, JobActive, Guards, Deaf
<1>4. CASE StartWithoutProfile
  <2>1. PICK h \in {{"notification"}, {"notification", "proxy"}} : StopRunner(FALSE, h)
    BY <1>4 DEF StartWithoutProfile
  <2>2. h \in SUBSET Fields
    BY DEF Fields, EarlyFields
  <2>3. starts' \in Nat
    BY <1>4 DEF StartWithoutProfile
  <2>4. /\ UNCHANGED <<job, tries, live, listening, crashed>>
        /\ fatal' \in BOOLEAN /\ boot' \in BOOLEAN /\ owed' \in BOOLEAN
        /\ state = "Stopped"
    BY <1>4, Zenon DEF StartWithoutProfile
  <2> QED
    BY <2>1, <2>2, <2>3, <2>4, StopRunnerInv, Zenon
<1>5. CASE StartAccepted
  <2>1. /\ state = "Stopped" /\ state' = "Connecting" /\ job' = "posted"
        /\ boot' \in BOOLEAN /\ owed' \in BOOLEAN
        /\ UNCHANGED <<cancelled, tries, stopper, restart, live, dying, exited, resending,
                       hung, fatal, listening, crashed>>
    BY <1>5, Zenon DEF StartAccepted, guards
  <2>6. /\ starts' \in Nat
        /\ EarlyFields \ {"udpFallback"} \subseteq held' /\ held' \subseteq Fields
        /\ held' \subseteq EarlyFields
    BY <1>5 DEF StartAccepted, Fields
  <2>2. TypeOK'
    <3>1. job' \in JobPcs /\ state' \in States
      BY <2>1 DEF JobPcs, States
    <3> QED
      BY <2>1, <2>6, <3>1
  <2>3. Coroutines'
    BY <2>1 DEF Coroutines, JobActive
  <2>4. held = {} /\ dying = {} /\ OnlyOrphans
    BY <2>1 DEF Possessions, Coroutines, NothingLeaks, OnlyOrphans
  <2>7. Guards'
    BY <2>1, <2>4 DEF Guards, Deaf
  <2>5. Possessions' /\ NoOverlap' /\ NothingLeaks' /\ BootMeansRunning'
    BY <2>1, <2>6, <2>4 DEF Possessions, Coroutines, OnlyOrphans, NoOverlap, NothingLeaks,
                      BootMeansRunning, JobActive, SessionWhole
  <2> QED
    BY <2>2, <2>3, <2>5, <2>7
<1> QED
  BY <1>1, <1>2, <1>3, <1>4, <1>5 DEF OnStartCommand

\* startProcesses: on success the session is whole, and wherever it throws, what
\* exists by then is owned by a field that the clean-up will find.
LEMMA JobStartsInv == IInv /\ JobStarts => IInv'
<1> SUFFICES ASSUME IInv, JobStarts PROVE IInv'
  OBVIOUS
<1>1. /\ state = "Connecting" /\ ~cancelled /\ ~crashed /\ stopper = "none"
      /\ EarlyFields \ {"udpFallback"} \subseteq held /\ live = {} /\ dying = {}
  BY DEF IInv, TypeOK, Coroutines, Possessions, NoOverlap, JobStarts, Runs, JobActive
<1>2. PICK n \in 1..LastStage :
         /\ live' = ThingsUpTo(n)
         /\ \/ /\ n = LastStage /\ job' = "sendFd" /\ tries' = 0
               /\ held' = held \cup RunFields
               /\ UNCHANGED <<state, cancelled, stopper, restart, dying, guards>>
            \/ JobFails(held \cup FieldsUpTo(n)) /\ UNCHANGED tries
  BY <1>1 DEF JobStarts
<1>3. UNCHANGED <<exited, resending, hung, fatal, listening, starts, boot, owed, crashed>>
  BY <1>2 DEF JobStarts, JobFails, guards
<1>4. /\ ThingsUpTo(n) \subseteq Things
      /\ FieldsUpTo(n) \subseteq RunFields /\ RunFields \subseteq Fields
  BY DEF ThingsUpTo, ThingsOf, FieldsUpTo, Fields
<1>5. \A t \in live' : Owner[t] \in held \cup FieldsUpTo(n)
  BY <1>1, <1>2, AcquireOwned
<1>6. CASE job' = "sendFd" /\ n = LastStage /\ held' = held \cup RunFields
           /\ tries' = 0 /\ UNCHANGED <<state, cancelled, stopper, restart, dying, guards>>
  <2>1. live' = ThingsOf(held')
    BY <1>2, <1>6, AcquireAll DEF ThingsOf, RunFields
  <2>2. SessionWhole'
    BY <1>1, <1>6, <2>1 DEF SessionWhole, Fields
  <2>3. NothingLeaks'
    BY <1>4, <1>5, <1>6 DEF NothingLeaks
  <2>4. TypeOK'
    BY <1>1, <1>2, <1>3, <1>4, <1>6 DEF IInv, TypeOK, JobPcs, MaxTries
  <2>5. Coroutines' /\ Possessions' /\ Guards' /\ NoOverlap' /\ BootMeansRunning'
    BY <1>1, <1>3, <1>6, <2>2
       DEF IInv, Coroutines, Possessions, Guards, Deaf, NoOverlap, BootMeansRunning, JobActive
  <2> QED
    BY <2>3, <2>4, <2>5 DEF IInv
<1>7. CASE JobFails(held \cup FieldsUpTo(n)) /\ UNCHANGED tries
  <2>1. NothingLeaks'
    BY <1>5, <1>7 DEF NothingLeaks, JobFails
  <2>2. TypeOK'
    BY <1>1, <1>2, <1>3, <1>4, <1>7 DEF IInv, TypeOK, JobPcs, States, JobFails
  <2>3. Coroutines' /\ Possessions' /\ Guards' /\ NoOverlap' /\ BootMeansRunning'
    BY <1>1, <1>3, <1>7
       DEF IInv, Coroutines, Possessions, Guards, Deaf, NoOverlap, BootMeansRunning, JobActive, JobFails
  <2> QED
    BY <2>1, <2>2, <2>3 DEF IInv
<1> QED
  BY <1>2, <1>6, <1>7

\* The connecting job, from launch to completion or cancellation.
LEMMA JobInv == IInv /\ ConnectingJob => IInv'
<1> SUFFICES ASSUME IInv, ConnectingJob PROVE IInv'
  OBVIOUS
<1> USE DEF IInv, TypeOK, Coroutines, Possessions, NoOverlap, NothingLeaks, BootMeansRunning,
            OnlyOrphans, SessionWhole, JobActive, Guards, Deaf, Runs, lifecycle, guards, States, JobPcs
<1>1. CASE JobBegins
  BY <1>1 DEF JobBegins, Executables
<1>2. CASE JobListens
  BY <1>2 DEF JobListens
<1>3. CASE JobFlattens
  BY <1>3 DEF JobFlattens
<1>4. CASE FlattenFails
  BY <1>4 DEF FlattenFails, JobFails
<1>5. CASE JobStarts
  BY <1>5, JobStartsInv DEF IInv
<1>6. CASE SendFdSucceeds
  BY <1>6 DEF SendFdSucceeds
<1>7. CASE SendFdFails
  <2>1. CASE GivesUp
    <3>1. JobFails(held)
      BY <1>7, <2>1, Zenon DEF SendFdFails
    <3>2. UNCHANGED <<tries, live, fatal, listening, starts, boot, owed, crashed>>
      BY <1>7, <2>1, Zenon DEF SendFdFails
    <3>3. Runs("sendFd")
      BY <1>7, Zenon DEF SendFdFails
    <3> QED
      BY <3>1, <3>2, <3>3 DEF JobFails
  <2>2. CASE ~GivesUp
    <3>1. tries' \in 0..(MaxTries + 1)
      BY <1>7, <2>2 DEF SendFdFails, GivesUp, MaxTries
    <3>2. UNCHANGED <<lifecycle, job, live, fatal, listening, starts, boot, owed, crashed>>
      BY <1>7, <2>2 DEF SendFdFails
    <3> QED
      BY <3>1, <3>2
  <2> QED
    BY <2>1, <2>2
<1>8. CASE JobCancelled
  <2>1. TypeOK'
    BY <1>8 DEF JobCancelled
  <2>2. /\ stopper = "joining" /\ state = "Stopping" /\ ~JobActive' /\ ~cancelled'
        /\ UNCHANGED <<state, stopper, held, live, dying, guards, fatal, starts, boot, crashed>>
    BY <1>8 DEF JobCancelled
  <2>3. Coroutines' /\ Possessions' /\ Guards'
    BY <2>2
  <2>4. NoOverlap' /\ NothingLeaks' /\ BootMeansRunning'
    BY <2>2, <1>8 DEF JobCancelled
  <2> QED
    BY <2>1, <2>3, <2>4
<1> QED
  BY <1>1, <1>2, <1>3, <1>4, <1>5, <1>6, <1>7, <1>8 DEF ConnectingJob

\* Failures, the receiver, the system: the events of a session.
LEMMA EventInv == IInv /\ (FatalError \/ Close \/ Reload \/ Revoke \/ Crash
                            \/ \E p \in Processes : ProcessExits(p)) => IInv'
<1> SUFFICES ASSUME IInv,
                    FatalError \/ Close \/ Reload \/ Revoke \/ Crash
                      \/ \E p \in Processes : ProcessExits(p)
             PROVE  IInv'
  OBVIOUS
<1>0. /\ held \in SUBSET Fields /\ fatal \in BOOLEAN /\ starts \in Nat
      /\ boot \in BOOLEAN /\ owed \in BOOLEAN
  BY DEF IInv, TypeOK
<1>1. CASE FatalError
  BY <1>0, <1>1, StopRunnerInv, Zenon DEF FatalError
<1>2. CASE Close
  BY <1>0, <1>2, StopRunnerInv, Zenon DEF Close
<1>3. CASE Reload
  BY <1>0, <1>3, StopRunnerInv, Zenon DEF Reload
<1>4. CASE Revoke
  BY <1>0, <1>4, StopRunnerInv, Zenon DEF Revoke
<1>5. CASE Crash
  <2>1. TypeOK'
    <3>1. tries' \in 0..(MaxTries + 1)
      BY <1>5 DEF Crash, MaxTries
    <3>2. live' \subseteq live /\ live \subseteq Things
      BY <1>5 DEF Crash, IInv, TypeOK
    <3> QED
      BY <1>0, <1>5, <3>1, <3>2, Zenon DEF Crash, TypeOK, States, JobPcs
  <2>2. Coroutines' /\ Possessions' /\ Guards'
    BY <1>5 DEF Crash, Coroutines, Possessions, Guards, Deaf, JobActive
  <2>3. NoOverlap' /\ NothingLeaks' /\ BootMeansRunning'
    BY <1>5 DEF Crash, NoOverlap, NothingLeaks, BootMeansRunning
  <2> QED
    BY <2>1, <2>2, <2>3 DEF IInv
<1>6. ASSUME NEW p \in Processes, ProcessExits(p) PROVE IInv'
  BY <1>6 DEF ProcessExits, IInv, TypeOK, Coroutines, Possessions, NoOverlap, NothingLeaks,
              BootMeansRunning, OnlyOrphans, SessionWhole, JobActive, Guards, Deaf, guards
<1> QED
  BY <1>1, <1>2, <1>3, <1>4, <1>5, <1>6

\* The guards: an exit they hear of, a restart, and the descriptor sent again.
LEMMA GuardInv == IInv /\ Guarding => IInv'
<1> SUFFICES ASSUME IInv, Guarding PROVE IInv'
  OBVIOUS
<1> USE DEF IInv, TypeOK, Coroutines, Possessions, NoOverlap, NothingLeaks, BootMeansRunning,
            OnlyOrphans, SessionWhole, JobActive, Guards, Deaf
<1>1. ASSUME NEW p \in Processes, GuardGivesUp(p) PROVE IInv'
  <2>1. "processes" \in held /\ state # "Stopped" /\ fatal' /\ Deaf' \subseteq Deaf
    BY <1>1 DEF GuardGivesUp
  <2>2. /\ exited' \subseteq Processes /\ fatal' \in BOOLEAN
        /\ UNCHANGED <<state, job, cancelled, tries, stopper, restart, held, live, dying,
                       resending, hung, listening, starts, boot, owed, crashed>>
    BY <1>1 DEF GuardGivesUp
  <2>3. TypeOK' /\ Coroutines' /\ NoOverlap' /\ NothingLeaks' /\ BootMeansRunning'
    BY <2>2
  <2>4. Possessions' /\ Guards'
    BY <2>1, <2>2
  <2> QED
    BY <2>3, <2>4
<1>2. ASSUME NEW p \in Processes, GuardRestarts(p) PROVE IInv'
  <2>1. /\ "processes" \in held /\ state # "Stopped" /\ stopper # "cleaning"
        /\ job \in {"none", "sendFd", "dead"}
    BY <1>2 DEF GuardRestarts, EarlyFields
  <2>2. Owner[p] = "processes" /\ p \in Things
    BY OwnerFacts DEF Things
  <2>3. /\ live' = live \cup {p} /\ exited' = exited \ {p} /\ resending' \in BOOLEAN
        /\ resending' <=> resending \/ p = "tun2socks"
        /\ UNCHANGED <<state, job, cancelled, tries, stopper, restart, held, dying, hung,
                       fatal, listening, starts, boot, owed, crashed>>
    BY <1>2 DEF GuardRestarts
  <2>4. TypeOK' /\ Coroutines' /\ NoOverlap' /\ NothingLeaks' /\ BootMeansRunning'
    BY <2>1, <2>2, <2>3
  <2>5. Possessions' /\ Guards'
    BY <2>1, <2>3
  <2> QED
    BY <2>4, <2>5
<1>3. CASE ResendSucceeds
  <2>1. /\ "processes" \in held /\ resending' \in BOOLEAN
        /\ \A x : x \in Deaf \ live => x \in Deaf' \ live
    BY <1>3 DEF ResendSucceeds
  <2>2. UNCHANGED <<state, job, cancelled, tries, stopper, restart, held, live, dying, exited,
                    hung, fatal, listening, starts, boot, owed, crashed>>
    BY <1>3 DEF ResendSucceeds
  <2>3. TypeOK' /\ Coroutines' /\ NoOverlap' /\ NothingLeaks' /\ BootMeansRunning'
    BY <2>1, <2>2
  <2>4. ThingsOf(held)' = ThingsOf(held)
    BY <2>2 DEF ThingsOf
  <2>5. SessionWhole => SessionWhole'
    BY <2>1, <2>2, <2>4
  <2>6. Possessions' /\ Guards'
    BY <2>1, <2>2, <2>5
  <2> QED
    BY <2>3, <2>6
<1>4. CASE ResendFails
  <2>1. "processes" \in held /\ state # "Stopped" /\ fatal' /\ Deaf' \subseteq Deaf
        /\ "tun2socks" \in Processes
    BY <1>4 DEF ResendFails, Processes
  <2>2. /\ live' \subseteq live /\ resending' \in BOOLEAN /\ fatal' \in BOOLEAN
        /\ hung' \subseteq Processes /\ dying = {} /\ ~resending'
        /\ live' = live \ {"tun2socks"}
        /\ UNCHANGED <<state, job, cancelled, tries, stopper, restart, held, dying, exited,
                       listening, starts, boot, owed, crashed>>
    BY <1>4, <2>1 DEF ResendFails
  <2>3. TypeOK' /\ Coroutines' /\ NoOverlap' /\ NothingLeaks' /\ BootMeansRunning'
    BY <2>1, <2>2
  <2>4. ThingsOf(held) \ Processes \subseteq live => ThingsOf(held) \ Processes \subseteq live'
    BY <2>1, <2>2
  <2>5. Possessions' /\ Guards'
    BY <2>1, <2>2, <2>4 DEF ThingsOf
  <2> QED
    BY <2>3, <2>5
<1> QED
  BY <1>1, <1>2, <1>3, <1>4 DEF Guarding, Guard

\* The strengthened invariant holds in every reachable state.
THEOREM Inductive == Spec => []IInv
<1>1. IInv /\ [Next]_vars => IInv'
  <2> SUFFICES ASSUME IInv, [Next]_vars PROVE IInv'
    OBVIOUS
  <2>1. CASE UNCHANGED vars
    BY <2>1 DEF vars, guards, IInv, TypeOK, Coroutines, Possessions, NoOverlap, NothingLeaks,
                BootMeansRunning, OnlyOrphans, SessionWhole, JobActive, Guards, Deaf
  <2> QED
    BY <2>1, StopperInv, StartInv, JobInv, GuardInv, EventInv DEF Next, Environment
<1> QED
  BY <1>1, InitInv, PTL DEF Spec

\* Every variable keeps its type.
THEOREM TypeCorrect == Spec => []TypeOK
BY Inductive, PTL DEF IInv

\* A service that reports Stopped holds nothing that belongs to a session
\* (BaseService.stopRunner).
THEOREM StoppedClean == Spec => []StoppedIsClean
<1>1. IInv => StoppedIsClean
  BY DEF IInv, Coroutines, Possessions, Guards, NothingLeaks, StoppedIsClean
<1> QED
  BY <1>1, Inductive, PTL

\* A service that reports Connected has a complete session (BaseService.onStartCommand,
\* VpnService.startProcesses).
THEOREM ConnectedComplete == Spec => []ConnectedIsComplete
<1>1. IInv => ConnectedIsComplete
  BY DEF IInv, Possessions, SessionWhole, ConnectedIsComplete
<1> QED
  BY <1>1, Inductive, PTL

\* No two sessions overlap, stopped, restarted or crashed (Executable.killAll and the
\* joins of stopRunner's coroutineScope).
THEOREM SessionsDoNotOverlap == Spec => []NoOverlap
BY Inductive, PTL DEF IInv

\* Whatever runs can still be ended.
THEOREM EverythingIsOwned == Spec => []NothingLeaks
BY Inductive, PTL DEF IInv

\* A device starts a VPN at boot only if the VPN was running.
THEOREM BootOnlyIfRunning == Spec => []BootMeansRunning
BY Inductive, PTL DEF IInv

\* The states follow each other as the clients of the service take for granted: a
\* cancelled connecting job never makes it Connected, and nothing but a clean-up or
\* the death of the process makes it Stopped.
THEOREM StatesInOrder == Spec => StatesFollow
<1>1. IInv /\ [Next]_vars => [state' = state \/ state' \in Follows[state] \/ Crash]_vars
  <2> SUFFICES ASSUME IInv, Next, state' # state, ~Crash
               PROVE  state' \in Follows[state]
    BY DEF vars
  <2> USE DEF Follows
  <2>1. state \in States
    BY DEF IInv, TypeOK
  <2>2. ASSUME NEW r, NEW h, StopRunner(r, h) PROVE state' \in Follows[state]
    <3>1. state # "Stopping" /\ state' = "Stopping"
      BY <2>2 DEF StopRunner, StopIgnored
    <3> QED
      BY <2>1, <3>1 DEF States
  <2>3. CASE OnStartCommand
    <3>1. CASE StartAccepted
      BY <3>1 DEF StartAccepted
    <3> QED
      BY <2>2, <2>3, <3>1
         DEF OnStartCommand, StartRefused, StartIgnored, StartWithoutProfile, lifecycle
  <2>4. CASE ConnectingJob
    <3>1. job # "none" /\ job # "dead" /\ ~cancelled => state = "Connecting"
      BY DEF IInv, Coroutines, JobActive
    <3> QED
      BY <2>4, <3>1
         DEF ConnectingJob, JobBegins, JobListens, JobFlattens, FlattenFails, JobStarts, JobFails,
             SendFdSucceeds, SendFdFails, JobCancelled, Runs, lifecycle
  <2>5. CASE Stopper
    <3>1. stopper # "none" => state = "Stopping"
      BY DEF IInv, Coroutines
    <3> QED
      BY <2>5, <3>1 DEF Stopper, Joined, Dies, CleanedUp
  <2>6. CASE FatalError \/ Close \/ Reload \/ Revoke
    BY <2>2, <2>6 DEF FatalError, Close, Reload, Revoke
  <2>7. CASE UserStart \/ Guarding \/ \E p \in Processes : ProcessExits(p)
    BY <2>7 DEF UserStart, Guarding, Guard, GuardGivesUp, GuardRestarts, ResendSucceeds,
                ResendFails, ProcessExits, lifecycle
  <2> QED
    BY <2>3, <2>4, <2>5, <2>6, <2>7 DEF Next, Environment
<1> QED
  BY <1>1, Inductive, PTL DEF Spec, StatesFollow

=============================================================================
