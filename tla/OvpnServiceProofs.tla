------------------------- MODULE OvpnServiceProofs --------------------------
(* Theorems about OvpnService, for any number of sessions and revocations.  *)
EXTENDS OvpnService, FiniteSetTheorems, TLAPS

Messages == {"start", "stop"}

\* The starts that wait in a queue can be counted.
LEMMA WaitingFinite ==
    ASSUME NEW q \in Seq(Messages)
    PROVE  /\ IsFiniteSet(Waiting(q)) /\ Cardinality(Waiting(q)) \in Nat
           /\ Waiting(q) \subseteq 1 .. Len(q)
<1>1. Waiting(q) \in SUBSET (1 .. Len(q)) /\ Len(q) \in Nat
  BY DEF Waiting
<1>2. IsFiniteSet(1 .. Len(q))
  BY <1>1, FS_Interval
<1>3. IsFiniteSet(Waiting(q))
  BY <1>1, <1>2, FS_Subset
<1> QED
  BY <1>1, <1>3, FS_CardinalityType

\* A start that is posted is one more, a stop none.
LEMMA PostFacts ==
    ASSUME NEW q \in Seq(Messages), NEW m \in Messages
    PROVE  /\ Append(q, m) \in Seq(Messages)
           /\ Cardinality(Waiting(Append(q, m))) =
                Cardinality(Waiting(q)) + IF m = "start" THEN 1 ELSE 0
<1>1. /\ Append(q, m) \in Seq(Messages) /\ Len(q) \in Nat
      /\ DOMAIN Append(q, m) = 1 .. Len(q) + 1 /\ DOMAIN q = 1 .. Len(q)
      /\ Append(q, m)[Len(q) + 1] = m
      /\ \A i \in 1 .. Len(q) : Append(q, m)[i] = q[i]
  OBVIOUS
<1>2. CASE m = "start"
  <2>1. Waiting(Append(q, m)) = Waiting(q) \cup {Len(q) + 1}
    BY <1>1, <1>2 DEF Waiting
  <2>2. Len(q) + 1 \notin Waiting(q)
    BY <1>1, WaitingFinite
  <2> QED
    BY <1>1, <1>2, <2>1, <2>2, WaitingFinite, FS_AddElement
<1>3. CASE m # "start"
  <2>1. Waiting(Append(q, m)) = Waiting(q)
    BY <1>1, <1>3 DEF Waiting
  <2> QED
    BY <1>1, <1>3, <2>1, WaitingFinite
<1> QED
  BY <1>2, <1>3

\* A message that is taken off the queue was one of the waiting starts, or none.
LEMMA TakeFacts ==
    ASSUME NEW q \in Seq(Messages), q # <<>>
    PROVE  /\ Tail(q) \in Seq(Messages) /\ Head(q) \in Messages
           /\ Cardinality(Waiting(Tail(q))) =
                Cardinality(Waiting(q)) - IF Head(q) = "start" THEN 1 ELSE 0
<1> DEFINE W == Waiting(q) \ {1}
           V == Waiting(Tail(q))
<1>1. /\ Tail(q) \in Seq(Messages) /\ Len(q) \in Nat /\ Len(q) > 0
      /\ DOMAIN q = 1 .. Len(q) /\ DOMAIN Tail(q) = 1 .. Len(q) - 1
      /\ Head(q) = q[1] /\ q[1] \in Messages
      /\ \A i \in 1 .. Len(q) - 1 : Tail(q)[i] = q[i + 1]
  OBVIOUS
<1>2. /\ 1 \in Waiting(q) <=> Head(q) = "start"
      /\ \A k \in W : k \in Nat /\ k - 1 \in V
      /\ \A k \in V : k \in Nat /\ k + 1 \in W
  BY <1>1 DEF Waiting
<1> HIDE DEF W, V
<1>3. ExistsBijection(W, V)
  <2> DEFINE f == [k \in W |-> k - 1]
  <2>1. f \in [W -> V]
    BY <1>2
  <2>2. \A a, b \in W : f[a] = f[b] => a = b
    BY <1>2
  <2>3. \A c \in V : \E a \in W : f[a] = c
    <3> TAKE c \in V
    <3>1. c + 1 \in W /\ f[c + 1] = c
      BY <1>2
    <3> QED
      BY <3>1
  <2> HIDE DEF f
  <2>4. f \in Bijection(W, V)
    <3>1. f \in Injection(W, V)
      BY <2>1, <2>2 DEF Injection, IsInjective
    <3>2. f \in Surjection(W, V)
      BY <2>1, <2>3 DEF Surjection
    <3> QED
      BY <3>1, <3>2 DEF Bijection
  <2> QED
    BY <2>4 DEF ExistsBijection
<1>4. IsFiniteSet(Waiting(q)) /\ Cardinality(Waiting(q)) \in Nat
  BY WaitingFinite
<1>5. /\ IsFiniteSet(W)
      /\ Cardinality(W) = IF 1 \in Waiting(q) THEN Cardinality(Waiting(q)) - 1
                          ELSE Cardinality(Waiting(q))
  BY <1>4, FS_RemoveElement DEF W
<1>6. Cardinality(V) = Cardinality(W)
  BY <1>3, <1>5, FS_Bijection
<1> QED
  BY <1>1, <1>2, <1>4, <1>5, <1>6 DEF V

-----------------------------------------------------------------------------
\* stopOpenVPN ends no process by itself and makes none.
LEMMA StopAllFacts ==
    ASSUME TypeOK, StopAll
    PROVE  /\ process' \in [Sessions -> Alive \cup {"none", "exited"}]
           /\ \A i \in Sessions : process'[i] = "none" <=> process[i] = "none"
BY DEF StopAll, TypeOK, Alive

\* The threads that may run endVpnService are told apart.
LEMMA EnderFacts ==
    /\ Sessions \subseteq Enders /\ CommandThread \in Enders /\ BinderThread \in Enders
    /\ CommandThread \notin Sessions /\ BinderThread \notin Sessions
    /\ CommandThread # BinderThread
BY OvpnAssumption DEF Enders, Sessions, CommandThread, BinderThread

\* Initially there is room for every session.
LEMMA InitInv == Init => IInv
<1> SUFFICES ASSUME Init PROVE IInv
  OBVIOUS
<1>1. /\ MaxSessions \in Nat /\ MaxRevocations \in Nat /\ 0 \in 0 .. MaxSessions
      /\ 0 \in 0 .. MaxRevocations /\ <<>> \in Seq(Messages)
      /\ <<>> \in Seq((0 .. MaxSessions) \X Sessions)
  BY OvpnAssumption
<1>2. TypeOK
  BY <1>1 DEF Init, TypeOK, Messages
<1>3. RoomForAll
  <2>1. Waiting(<<>>) = {}
    BY DEF Waiting
  <2>2. Starts = 0
    BY <2>1, FS_EmptySet DEF Init, Starts, Starting
  <2> QED
    BY <1>1, <2>2 DEF Init, RoomForAll
<1>4. ForkedOnce /\ EndsOnce /\ FieldIsRegistered
  BY EnderFacts DEF Init, ForkedOnce, EndsOnce, FieldIsRegistered
<1> QED
  BY <1>2, <1>3, <1>4 DEF IInv

-----------------------------------------------------------------------------
\* A step that takes neither queue nor sessions and keeps the command thread's place,
\* or moves it where as many starts are counted.
LEMMA RoomKept ==
    ASSUME RoomForAll, TypeOK, queue' = queue, mManagement' = mManagement,
           Starting' => Starting
    PROVE  RoomForAll'
<1>1. Cardinality(Waiting(queue)) \in Nat /\ mManagement \in Nat /\ MaxSessions \in Nat
  BY WaitingFinite, OvpnAssumption DEF TypeOK, Messages
<1>2. Waiting(queue)' = Waiting(queue)
  BY DEF Waiting
<1>3. Starts = Cardinality(Waiting(queue)) + IF Starting THEN 1 ELSE 0
  BY DEF Starts
<1>4. Starts' = Cardinality(Waiting(queue)) + IF Starting' THEN 1 ELSE 0
  BY <1>2 DEF Starts
<1>5. CASE Starting'
  BY <1>1, <1>3, <1>4, <1>5 DEF RoomForAll
<1>6. CASE ~Starting'
  BY <1>1, <1>3, <1>4, <1>6 DEF RoomForAll
<1> QED
  BY <1>5, <1>6

\* Users, the system and the main thread keep the invariant.
LEMMA EventsInv ==
    ASSUME IInv, Start \/ Stop \/ Revoke \/ Destroy \/ SwapReceiver
    PROVE  IInv'
<1> USE DEF IInv
<1>0. /\ MaxSessions \in Nat \ {0} /\ MaxRevocations \in Nat
      /\ queue \in Seq(Messages) /\ Cardinality(Waiting(queue)) \in Nat
      /\ mManagement \in 0 .. MaxSessions
  BY OvpnAssumption, WaitingFinite DEF TypeOK, Messages
<1>1. CASE Start
  <2>1. /\ started' = TRUE /\ queue' = Append(queue, "start") /\ mManagement + Starts < MaxSessions
        /\ UNCHANGED <<destroyed, revocations, command, fields, receivers, ending, management, session>>
    BY <1>1 DEF Start
  <2>2. queue' \in Seq(Messages) /\ Cardinality(Waiting(queue')) = Cardinality(Waiting(queue)) + 1
    BY <1>0, <2>1, PostFacts DEF Messages
  <2>3. TypeOK'
    BY <2>1, <2>2 DEF TypeOK, Messages, fields, receivers, management, session
  <2>4. Starts' = Starts + 1
    <3>1. Waiting(queue)' = Waiting(queue') /\ Starting' = Starting
      BY <2>1 DEF Waiting, Starting
    <3> QED
      BY <1>0, <2>2, <3>1 DEF Starts
  <2>5. RoomForAll'
    <3>1. Starts \in Nat
      BY <1>0 DEF Starts
    <3> QED
      BY <1>0, <2>1, <2>4, <3>1 DEF RoomForAll, management
  <2>6. ForkedOnce' /\ EndsOnce' /\ FieldIsRegistered'
    BY <2>1 DEF ForkedOnce, EndsOnce, FieldIsRegistered, fields, receivers, management, session
  <2> QED
    BY <2>3, <2>5, <2>6
<1>2. CASE Stop
  <2>1. /\ StopAll
        /\ UNCHANGED <<service, queue, command, fields, receivers, ending, management, reader, interrupted>>
    BY <1>2 DEF Stop
  <2>2. TypeOK'
    BY <2>1, StopAllFacts DEF TypeOK, service, environment, fields, receivers, management
  <2>3. RoomForAll'
    BY <2>1, RoomKept DEF management, Starting
  <2>4. ForkedOnce' /\ EndsOnce' /\ FieldIsRegistered'
    BY <2>1, StopAllFacts DEF ForkedOnce, EndsOnce, FieldIsRegistered, fields, receivers, management
  <2> QED
    BY <2>2, <2>3, <2>4
<1>3. CASE Revoke
  <2>1. /\ revocations < MaxRevocations /\ revocations' = revocations + 1
        /\ ending[BinderThread] = "no"
        /\ queue' = Append(queue, "stop")
        /\ ending' = [ending EXCEPT ![BinderThread] = "clears"]
        /\ UNCHANGED <<started, destroyed, command, fields, receivers, management, session>>
    BY <1>3 DEF Revoke
  <2>2. queue' \in Seq(Messages) /\ Cardinality(Waiting(queue')) = Cardinality(Waiting(queue))
    BY <1>0, <2>1, PostFacts DEF Messages
  <2>3. revocations' \in 0 .. MaxRevocations
    BY <1>0, <2>1 DEF TypeOK
  <2>4. TypeOK'
    BY <2>1, <2>2, <2>3 DEF TypeOK, Messages, fields, receivers, management, session
  <2>5. RoomForAll'
    <3>1. Waiting(queue)' = Waiting(queue') /\ Starting' = Starting
      BY <2>1 DEF Waiting, Starting
    <3>2. Starts' = Starts
      BY <2>2, <3>1 DEF Starts
    <3> QED
      BY <2>1, <3>2 DEF RoomForAll, management
  <2>6. \A e \in Enders : ending'[e] = IF e = BinderThread THEN "clears" ELSE ending[e]
    BY <2>1 DEF TypeOK
  <2>7. ForkedOnce' /\ EndsOnce'
    BY <2>1, <2>6, EnderFacts DEF ForkedOnce, EndsOnce, fields, management, session
  <2>8. FieldIsRegistered'
    BY <2>1, <2>6, EnderFacts DEF FieldIsRegistered, receivers
  <2> QED
    BY <2>4, <2>5, <2>7, <2>8
<1>4. CASE Destroy
  <2>1. /\ destroyed' = TRUE /\ (StopAll \/ UNCHANGED process)
        /\ registered' = Unregister(mDeviceStateReceiver) /\ mDeviceStateReceiver' = 0
        /\ UNCHANGED <<started, revocations, queue, command, fields, gui, ending, management,
                       reader, interrupted>>
    BY <1>4 DEF Destroy
  <2>2. registered' \subseteq Sessions
    BY <2>1 DEF Unregister, TypeOK
  <2>0. /\ process' \in [Sessions -> Alive \cup {"none", "exited"}]
        /\ \A i \in Sessions : process'[i] = "none" <=> process[i] = "none"
    BY <2>1, StopAllFacts DEF TypeOK
  <2>3. TypeOK'
    BY <1>0, <2>0, <2>1, <2>2 DEF TypeOK, fields, management
  <2>4. RoomForAll'
    BY <2>1, RoomKept DEF management, Starting
  <2>5. ForkedOnce' /\ EndsOnce' /\ FieldIsRegistered'
    BY <2>0, <2>1 DEF ForkedOnce, EndsOnce, FieldIsRegistered, fields, management
  <2> QED
    BY <2>3, <2>4, <2>5
<1>5. CASE SwapReceiver
  <2> DEFINE new == Head(gui)[2]
  <2>1. /\ gui # <<>> /\ gui' = Tail(gui) /\ mDeviceStateReceiver' = new
        /\ new \in registered'
        /\ registered' \subseteq registered \cup {new}
        /\ UNCHANGED <<service, queue, command, fields, ending, management, session>>
    BY <1>5 DEF SwapReceiver, Unregister
  <2>2. gui' \in Seq((0 .. MaxSessions) \X Sessions) /\ new \in Sessions
    BY <2>1 DEF TypeOK
  <2>3. TypeOK'
    BY <1>0, <2>1, <2>2 DEF TypeOK, Sessions, service, environment, fields, management, session
  <2>4. RoomForAll'
    BY <2>1, RoomKept DEF management, Starting
  <2>5. ForkedOnce' /\ EndsOnce' /\ FieldIsRegistered'
    BY <2>1 DEF ForkedOnce, EndsOnce, FieldIsRegistered, fields, management, session
  <2> QED
    BY <2>3, <2>4, <2>5
<1> QED
  BY <1>1, <1>2, <1>3, <1>4, <1>5

\* startOpenVPN keeps it: a start is counted from the queue to the fork.
LEMMA StartInv ==
    ASSUME IInv, startOpenVPN
    PROVE  IInv'
<1> USE DEF IInv
<1>0. /\ MaxSessions \in Nat \ {0} /\ MaxRevocations \in Nat
      /\ queue \in Seq(Messages) /\ Cardinality(Waiting(queue)) \in Nat
      /\ mManagement \in 0 .. MaxSessions /\ mManagement \in Nat
      /\ mManagement # 0 => mManagement \in Sessions
      /\ CommandThread \in Enders
  BY OvpnAssumption, WaitingFinite DEF TypeOK, Messages, Sessions, Enders
<1>t. ASSUME queue # <<>>
      PROVE  /\ Tail(queue) \in Seq(Messages)
             /\ Cardinality(Waiting(Tail(queue))) =
                  Cardinality(Waiting(queue)) - IF Head(queue) = "start" THEN 1 ELSE 0
  BY <1>0, <1>t, TakeFacts
<1>1. CASE StartWithoutProfile
  <2>1. /\ command = "idle" /\ queue # <<>> /\ Head(queue) = "start" /\ queue' = Tail(queue)
        /\ started' \in BOOLEAN
        /\ UNCHANGED <<environment, command, fields, receivers, ending, management, session>>
    BY <1>1 DEF StartWithoutProfile, TypeOK
  <2>2. TypeOK'
    BY <1>t, <2>1 DEF TypeOK, Messages, environment, fields, receivers, management, session
  <2>3. RoomForAll'
    <3>1. Waiting(queue)' = Waiting(Tail(queue)) /\ Starting' = Starting
      BY <2>1 DEF Waiting, Starting
    <3>2. Starts' = Starts - 1 /\ Starts \in Nat
      BY <1>0, <1>t, <2>1, <3>1 DEF Starts
    <3> QED
      BY <1>0, <2>1, <3>2 DEF RoomForAll, management
  <2>4. ForkedOnce' /\ EndsOnce' /\ FieldIsRegistered'
    BY <2>1 DEF ForkedOnce, EndsOnce, FieldIsRegistered, fields, receivers, management, session
  <2> QED
    BY <2>2, <2>3, <2>4
<1>2. CASE StartBegins
  <2>1. /\ command = "idle" /\ queue # <<>> /\ Head(queue) = "start" /\ queue' = Tail(queue)
        /\ mStarting' = TRUE /\ command' = "stops"
        /\ UNCHANGED <<service, mProcessThread, receivers, ending, management, session>>
    BY <1>2 DEF StartBegins
  <2>2. TypeOK'
    BY <1>t, <2>1 DEF TypeOK, Messages, service, environment, receivers, management, session
  <2>3. RoomForAll'
    <3>1. Waiting(queue)' = Waiting(Tail(queue)) /\ Starting' /\ ~Starting
      BY <2>1 DEF Waiting, Starting
    <3>2. Starts' = Starts
      BY <1>0, <1>t, <2>1, <3>1 DEF Starts
    <3> QED
      BY <2>1, <3>2 DEF RoomForAll, management
  <2>4. ForkedOnce' /\ EndsOnce' /\ FieldIsRegistered'
    BY <2>1 DEF ForkedOnce, EndsOnce, FieldIsRegistered, receivers, management, session
  <2> QED
    BY <2>2, <2>3, <2>4
<1>3. CASE StopOld
  <2>1. /\ command = "stops" /\ command' = "forces" /\ (StopAll \/ UNCHANGED process)
        /\ UNCHANGED <<service, queue, fields, receivers, ending, management, reader, interrupted>>
    BY <1>3 DEF StopOld
  <2>2. /\ process' \in [Sessions -> Alive \cup {"none", "exited"}]
        /\ \A i \in Sessions : process'[i] = "none" <=> process[i] = "none"
    BY <2>1, StopAllFacts DEF TypeOK
  <2>3. TypeOK'
    BY <2>1, <2>2 DEF TypeOK, service, environment, fields, receivers, management
  <2>4. RoomForAll'
    BY <2>1, RoomKept DEF management, Starting
  <2>5. ForkedOnce' /\ EndsOnce' /\ FieldIsRegistered'
    BY <2>1, <2>2 DEF ForkedOnce, EndsOnce, FieldIsRegistered, fields, receivers, management
  <2> QED
    BY <2>3, <2>4, <2>5
<1>4. CASE ForceStop
  <2>1. /\ command = "forces" /\ command' \in {"sleeps", "stopped"}
        /\ interrupted' = interrupted \cup {i \in Sessions : i = mProcessThread /\ reader[i] = "reads"}
        /\ UNCHANGED <<service, queue, fields, receivers, ending, management, reader, process>>
    BY <1>4 DEF ForceStop
  <2>2. TypeOK'
    BY <2>1 DEF TypeOK, service, environment, fields, receivers, management
  <2>3. RoomForAll'
    BY <2>1, RoomKept DEF management, Starting
  <2>4. ForkedOnce' /\ EndsOnce' /\ FieldIsRegistered'
    BY <2>1 DEF ForkedOnce, EndsOnce, FieldIsRegistered, fields, receivers, management
  <2> QED
    BY <2>2, <2>3, <2>4
<1>5. CASE ForceStopEnds \/ StoppedOld
  <2>1. /\ command \in {"sleeps", "stopped"} /\ command' \in {"stopped", "opens"}
        /\ mStarting' = mStarting \/ mStarting' = FALSE
        /\ UNCHANGED <<service, queue, mProcessThread, receivers, ending, management, session>>
    BY <1>5 DEF ForceStopEnds, StoppedOld, fields
  <2>2. TypeOK'
    BY <2>1 DEF TypeOK, service, environment, receivers, management, session
  <2>3. RoomForAll'
    BY <2>1, RoomKept DEF management, Starting
  <2>4. ForkedOnce' /\ EndsOnce' /\ FieldIsRegistered'
    BY <2>1 DEF ForkedOnce, EndsOnce, FieldIsRegistered, receivers, management, session
  <2> QED
    BY <2>2, <2>3, <2>4
<1>6. CASE OpenManagement
  <2>1. /\ command = "opens" /\ command' = "forks" /\ mManagement' = mManagement + 1
        /\ accepting' = TRUE
        /\ UNCHANGED <<service, queue, fields, receivers, ending, session>>
    BY <1>6 DEF OpenManagement
  <2>2. Waiting(queue)' = Waiting(queue) /\ Starting /\ ~Starting'
    BY <2>1 DEF Waiting, Starting
  <2>3. Starts' = Starts - 1 /\ Starts \in Nat /\ Starts >= 1
    BY <1>0, <2>2 DEF Starts
  <2>4. mManagement' \in 0 .. MaxSessions /\ mManagement' # 0 /\ mManagement' \in Sessions
    BY <1>0, <2>1, <2>3 DEF RoomForAll, Sessions
  <2>5. TypeOK'
    BY <2>1, <2>4 DEF TypeOK, service, environment, fields, receivers, session
  <2>6. RoomForAll'
    BY <1>0, <2>1, <2>3 DEF RoomForAll
  <2>7. ForkedOnce'
    <3>1. \A i \in Sessions : i \in Nat
      BY DEF Sessions
    <3>2. reader[mManagement'] = "none"
      BY <1>0, <2>1, <2>4 DEF ForkedOnce
    <3>3. \A i \in Sessions : i > mManagement' => i > mManagement
      BY <1>0, <2>1, <3>1
    <3> QED
      BY <2>1, <2>4, <3>2, <3>3 DEF ForkedOnce, fields, session
  <2>8. EndsOnce' /\ FieldIsRegistered'
    BY <2>1 DEF EndsOnce, FieldIsRegistered, receivers, session
  <2> QED
    BY <2>5, <2>6, <2>7, <2>8
<1>7. CASE OpenFails \/ ConfigureFails
  <2>1. /\ command' = "fails" /\ ending' = [ending EXCEPT ![CommandThread] = "clears"]
        /\ ending[CommandThread] = "no"
        /\ UNCHANGED <<service, queue, fields, receivers, management, session>>
    BY <1>7 DEF OpenFails, ConfigureFails, GiveUp, EndsOnce
  <2>2. TypeOK'
    BY <2>1 DEF TypeOK, service, environment, fields, receivers, management, session
  <2>3. RoomForAll'
    BY <2>1, RoomKept DEF management, Starting
  <2>4. \A e \in Enders : ending'[e] = IF e = CommandThread THEN "clears" ELSE ending[e]
    BY <2>1 DEF TypeOK
  <2>5. ForkedOnce' /\ EndsOnce'
    BY <2>1, <2>4, EnderFacts DEF ForkedOnce, EndsOnce, fields, management, session
  <2>6. FieldIsRegistered'
    BY <2>1, <2>4, EnderFacts DEF FieldIsRegistered, receivers
  <2> QED
    BY <2>2, <2>3, <2>5, <2>6
<1>8. CASE Fork
  <2>1. /\ command = "forks" /\ command' = "configures" /\ mProcessThread' = mManagement
        /\ reader' = [reader EXCEPT ![mManagement] = "reads"]
        /\ process' = [process EXCEPT ![mManagement] = "waits"]
        /\ UNCHANGED <<service, queue, mStarting, receivers, ending, management, interrupted>>
    BY <1>8 DEF Fork
  <2>2. mManagement # 0 /\ mManagement \in Sessions
    BY <1>0, <2>1 DEF ForkedOnce
  <2>3. /\ reader' \in [Sessions -> {"none", "reads", "over"}]
        /\ process' \in [Sessions -> Alive \cup {"none", "exited"}]
        /\ reader'[mManagement] = "reads" /\ process'[mManagement] = "waits"
        /\ \A i \in Sessions \ {mManagement} : reader'[i] = reader[i] /\ process'[i] = process[i]
    BY <2>1, <2>2 DEF TypeOK, Alive
  <2>4. TypeOK'
    BY <1>0, <2>1, <2>3 DEF TypeOK, service, environment, receivers, management
  <2>5. RoomForAll'
    BY <2>1, RoomKept DEF management, Starting
  <2>6. ForkedOnce'
    <3>1. ASSUME NEW i \in Sessions
          PROVE  /\ i > mManagement' => reader'[i] = "none"
                 /\ reader'[i] = "none" <=> process'[i] = "none"
                 /\ i \in interrupted' => reader'[i] = "reads"
      <4>1. CASE i = mManagement
        BY <1>0, <2>1, <2>3, <4>1 DEF management
      <4>2. CASE i # mManagement
        BY <2>1, <2>3, <4>2 DEF ForkedOnce, management
      <4> QED
        BY <4>1, <4>2
    <3> QED
      BY <2>1, <2>2, <2>3, <3>1 DEF ForkedOnce, management
  <2>7. EndsOnce' /\ FieldIsRegistered'
    <3>1. \A i \in Sessions : reader'[i] # "over" => reader[i] # "over"
      BY <2>1, <2>3 DEF ForkedOnce
    <3> QED
      BY <2>1, <3>1 DEF EndsOnce, FieldIsRegistered, receivers
  <2> QED
    BY <2>4, <2>5, <2>6, <2>7
<1>9. CASE Configure
  <2>1. /\ command = "configures" /\ command' = "idle" /\ process[mManagement] = "waits"
        /\ process' = [process EXCEPT ![mManagement] = "configured"]
        /\ gui' = Append(gui, <<mDeviceStateReceiver, mManagement>>)
        /\ UNCHANGED <<service, queue, fields, mDeviceStateReceiver, registered, ending, management,
                       reader, interrupted>>
    BY <1>9 DEF Configure
  <2>2. mManagement \in Sessions
    BY <1>0, <2>1 DEF ForkedOnce
  <2>3. /\ process' \in [Sessions -> Alive \cup {"none", "exited"}]
        /\ \A i \in Sessions : process'[i] = "none" <=> process[i] = "none"
    BY <2>1, <2>2 DEF TypeOK, Alive
  <2>4. gui' \in Seq((0 .. MaxSessions) \X Sessions)
    <3>1. <<mDeviceStateReceiver, mManagement>> \in (0 .. MaxSessions) \X Sessions
      BY <2>2 DEF TypeOK
    <3>2. gui \in Seq((0 .. MaxSessions) \X Sessions)
      BY DEF TypeOK
    <3> QED
      BY <2>1, <3>1, <3>2
  <2>5. TypeOK'
    BY <2>1, <2>3, <2>4 DEF TypeOK, service, environment, fields, management
  <2>6. RoomForAll'
    BY <2>1, RoomKept DEF management, Starting
  <2>7. ForkedOnce' /\ EndsOnce' /\ FieldIsRegistered'
    BY <2>1, <2>3 DEF ForkedOnce, EndsOnce, FieldIsRegistered, fields, management
  <2> QED
    BY <2>5, <2>6, <2>7
<1>10. CASE StartFailed
  <2>1. /\ command = "fails" /\ command' = "idle" /\ ending[CommandThread] = "no"
        /\ UNCHANGED <<service, queue, fields, receivers, ending, management, session>>
    BY <1>10 DEF StartFailed
  <2>2. TypeOK'
    BY <2>1 DEF TypeOK, service, environment, fields, receivers, management, session
  <2>3. RoomForAll'
    BY <2>1, RoomKept DEF management, Starting
  <2>4. ForkedOnce' /\ EndsOnce' /\ FieldIsRegistered'
    BY <2>1 DEF ForkedOnce, EndsOnce, FieldIsRegistered, fields, receivers, management, session
  <2> QED
    BY <2>2, <2>3, <2>4
<1>11. CASE StopPosted
  <2>1. /\ command = "idle" /\ queue # <<>> /\ Head(queue) = "stop" /\ queue' = Tail(queue) /\ StopAll
        /\ UNCHANGED <<service, command, fields, receivers, ending, management, reader, interrupted>>
    BY <1>11 DEF StopPosted
  <2>2. TypeOK'
    BY <1>t, <2>1, StopAllFacts DEF TypeOK, Messages, service, environment, fields, receivers, management
  <2>3. RoomForAll'
    <3>1. Waiting(queue)' = Waiting(Tail(queue)) /\ Starting' = Starting
      BY <2>1 DEF Waiting, Starting
    <3>2. Starts' = Starts
      BY <1>0, <1>t, <2>1, <3>1 DEF Starts
    <3> QED
      BY <2>1, <3>2 DEF RoomForAll, management
  <2>4. ForkedOnce' /\ EndsOnce' /\ FieldIsRegistered'
    BY <2>1, StopAllFacts DEF ForkedOnce, EndsOnce, FieldIsRegistered, fields, receivers, management
  <2> QED
    BY <2>2, <2>3, <2>4
<1> QED
  BY <1>1, <1>2, <1>3, <1>4, <1>5, <1>6, <1>7, <1>8, <1>9, <1>10, <1>11 DEF startOpenVPN

\* So does endVpnService, on whatever thread.
LEMMA EndInv ==
    ASSUME IInv, NEW e \in Enders, endVpnService(e)
    PROVE  IInv'
<1> USE DEF IInv
<1>0. 0 \in 0 .. MaxSessions
  BY OvpnAssumption
<1>1. ASSUME NEW x \in {"clears", "unregisters", "drops", "leaves", "no"},
             ending[e] # "no", ending' = [ending EXCEPT ![e] = x],
             UNCHANGED <<command, reader>>
      PROVE  EndsOnce' /\ \A d \in Enders : ending'[d] = IF d = e THEN x ELSE ending[d]
  <2>1. \A d \in Enders : ending'[d] = IF d = e THEN x ELSE ending[d]
    BY <1>1 DEF TypeOK
  <2> QED
    BY <1>1, <2>1, EnderFacts DEF EndsOnce
<1>2. CASE ClearProcessThread(e)
  <2>1. /\ ending[e] = "clears" /\ mProcessThread' = 0
        /\ ending' = [ending EXCEPT ![e] = "unregisters"]
        /\ UNCHANGED <<service, queue, command, mStarting, receivers, management, session>>
    BY <1>2 DEF ClearProcessThread
  <2>2. TypeOK'
    BY <1>0, <2>1 DEF TypeOK, service, environment, receivers, management, session
  <2>3. RoomForAll'
    BY <2>1, RoomKept DEF management, Starting
  <2>4. ForkedOnce'
    BY <2>1 DEF ForkedOnce, management, session
  <2>5. EndsOnce' /\ FieldIsRegistered'
    BY <1>1, <2>1 DEF FieldIsRegistered, receivers, session
  <2> QED
    BY <2>2, <2>3, <2>4, <2>5
<1>3. CASE UnregisterReceiver(e)
  <2>1. /\ ending[e] = "unregisters" /\ registered' = Unregister(mDeviceStateReceiver)
        /\ ending' = [ending EXCEPT ![e] = "drops"]
        /\ UNCHANGED <<service, queue, command, fields, mDeviceStateReceiver, gui, management, session>>
    BY <1>3 DEF UnregisterReceiver
  <2>2. registered' \subseteq Sessions
    BY <2>1 DEF Unregister, TypeOK
  <2>3. TypeOK'
    BY <2>1, <2>2 DEF TypeOK, service, environment, fields, management, session
  <2>4. RoomForAll'
    BY <2>1, RoomKept DEF management, Starting
  <2>5. ForkedOnce'
    BY <2>1 DEF ForkedOnce, fields, management, session
  <2>6. EndsOnce' /\ FieldIsRegistered'
    BY <1>1, <2>1 DEF FieldIsRegistered, session
  <2> QED
    BY <2>3, <2>4, <2>5, <2>6
<1>4. CASE DropReceiver(e)
  <2>1. /\ ending[e] = "drops" /\ mDeviceStateReceiver' = 0
        /\ ending' = [ending EXCEPT ![e] = "leaves"]
        /\ UNCHANGED <<service, queue, command, fields, registered, gui, management, session>>
    BY <1>4 DEF DropReceiver
  <2>2. TypeOK'
    BY <1>0, <2>1 DEF TypeOK, service, environment, fields, management, session
  <2>3. RoomForAll'
    BY <2>1, RoomKept DEF management, Starting
  <2>4. ForkedOnce'
    BY <2>1 DEF ForkedOnce, fields, management, session
  <2>5. EndsOnce' /\ FieldIsRegistered'
    BY <1>1, <2>1 DEF FieldIsRegistered, session
  <2> QED
    BY <2>2, <2>3, <2>4, <2>5
<1>5. CASE Leave(e)
  <2>1. /\ ending[e] = "leaves" /\ started' \in BOOLEAN /\ ending' = [ending EXCEPT ![e] = "no"]
        /\ UNCHANGED <<environment, queue, command, fields, receivers, management, session>>
    BY <1>5 DEF Leave, TypeOK
  <2>2. TypeOK'
    BY <2>1 DEF TypeOK, environment, fields, receivers, management, session
  <2>3. RoomForAll'
    BY <2>1, RoomKept DEF management, Starting
  <2>4. ForkedOnce'
    BY <2>1 DEF ForkedOnce, fields, management, session
  <2>5. EndsOnce' /\ FieldIsRegistered'
    BY <1>1, <2>1 DEF FieldIsRegistered, receivers, session
  <2> QED
    BY <2>2, <2>3, <2>4, <2>5
<1> QED
  BY <1>2, <1>3, <1>4, <1>5 DEF endVpnService

\* So do a session's process and the thread that reads what it prints.
LEMMA SessionInv ==
    ASSUME IInv, NEW i \in Sessions, ReaderEnds(i) \/ ProcessGoesOn(i) \/ ProcessDies(i)
    PROVE  IInv'
<1> USE DEF IInv
<1>1. CASE ReaderEnds(i)
  <2>1. /\ reader[i] = "reads" /\ reader' = [reader EXCEPT ![i] = "over"]
        /\ interrupted' = interrupted \ {i} /\ ending' = [ending EXCEPT ![i] = "clears"]
        /\ UNCHANGED <<service, queue, command, fields, receivers, management, process>>
    BY <1>1 DEF ReaderEnds
  <2>2. /\ reader' \in [Sessions -> {"none", "reads", "over"}]
        /\ reader'[i] = "over" /\ \A j \in Sessions \ {i} : reader'[j] = reader[j]
        /\ \A j \in Sessions : reader'[j] = "none" <=> reader[j] = "none"
    BY <2>1 DEF TypeOK
  <2>3. TypeOK'
    BY <2>1, <2>2 DEF TypeOK, service, environment, fields, receivers, management
  <2>4. RoomForAll'
    BY <2>1, RoomKept DEF management, Starting
  <2>5. ForkedOnce'
    <3>1. \A j \in {mManagement, mProcessThread} :
             j # 0 => (reader'[j] = "none" <=> reader[j] = "none")
      BY <2>2 DEF TypeOK, Sessions
    <3> QED
      BY <2>1, <2>2, <3>1 DEF ForkedOnce, fields, management
  <2>6. \A e \in Enders : ending'[e] = IF e = i THEN "clears" ELSE ending[e]
    BY <2>1 DEF TypeOK
  <2>7. ending[i] = "no"
    BY <2>1 DEF EndsOnce
  <2>8. EndsOnce'
    <3>1. \A j \in Sessions : reader'[j] # "over" => j # i /\ reader[j] # "over"
      BY <2>2
    <3> QED
      BY <2>1, <2>6, <3>1, EnderFacts DEF EndsOnce
  <2>9. FieldIsRegistered'
    <3>1. ASSUME \A e \in Enders : ending'[e] # "drops", NEW e \in Enders
          PROVE  ending[e] # "drops"
      BY <2>6, <2>7, <3>1
    <3> QED
      BY <2>1, <3>1 DEF FieldIsRegistered, receivers
  <2> QED
    BY <2>3, <2>4, <2>5, <2>8, <2>9
<1>2. CASE ProcessGoesOn(i) \/ ProcessDies(i)
  <2>1. /\ process[i] \in Alive
        /\ process' \in {[process EXCEPT ![i] = "connected"], [process EXCEPT ![i] = "exited"]}
        /\ accepting' \in BOOLEAN
        /\ UNCHANGED <<service, queue, command, fields, receivers, ending, mManagement, reader, interrupted>>
    BY <1>2 DEF ProcessGoesOn, ProcessDies, ProcessConnects, ProcessRefused, ProcessStops,
                ReaderDestroys, Alive, TypeOK, management
  <2>2. /\ process' \in [Sessions -> Alive \cup {"none", "exited"}]
        /\ \A j \in Sessions : process'[j] = "none" <=> process[j] = "none"
    BY <2>1 DEF TypeOK, Alive
  <2>3. TypeOK'
    BY <2>1, <2>2 DEF TypeOK, service, environment, fields, receivers
  <2>4. RoomForAll'
    BY <2>1, RoomKept DEF Starting
  <2>5. ForkedOnce' /\ EndsOnce' /\ FieldIsRegistered'
    BY <2>1, <2>2 DEF ForkedOnce, EndsOnce, FieldIsRegistered, fields, receivers
  <2> QED
    BY <2>3, <2>4, <2>5
<1> QED
  BY <1>1, <1>2

\* Every step keeps the invariant.
LEMMA StepInv == IInv /\ [Next]_vars => IInv'
<1> SUFFICES ASSUME IInv, [Next]_vars PROVE IInv'
  OBVIOUS
<1>1. CASE Start \/ Stop \/ Revoke \/ Destroy \/ SwapReceiver
  BY <1>1, EventsInv
<1>2. CASE startOpenVPN
  BY <1>2, StartInv
<1>3. ASSUME NEW e \in Enders, endVpnService(e) PROVE IInv'
  BY <1>3, EndInv
<1>4. ASSUME NEW i \in Sessions, ReaderEnds(i) \/ ProcessGoesOn(i) \/ ProcessDies(i) PROVE IInv'
  BY <1>4, SessionInv
<1>5. CASE UNCHANGED vars
  <2>1. RoomForAll'
    BY <1>5, RoomKept DEF IInv, vars, management, Starting
  <2>2. TypeOK' /\ ForkedOnce' /\ EndsOnce' /\ FieldIsRegistered'
    BY <1>5 DEF IInv, TypeOK, ForkedOnce, EndsOnce, FieldIsRegistered, vars, service, environment, fields,
                receivers, management, session
  <2> QED
    BY <2>1, <2>2 DEF IInv
<1> QED
  BY <1>1, <1>2, <1>3, <1>4, <1>5 DEF Next, Others

-----------------------------------------------------------------------------
\* The invariant holds in every reachable state, for any number of sessions.
THEOREM Inductive == Spec => []IInv
<1> QED
  BY InitInv, StepInv, PTL DEF Spec

\* Every field keeps its type; no session is made beyond the starts that were
\* accepted, and the fields of OpenVPNService name only sessions that there are.
THEOREM TypeCorrect == Spec => []TypeOK
<1>1. IInv => TypeOK
  BY DEF IInv
<1> QED
  BY <1>1, Inductive, PTL

\* The receiver that mDeviceStateReceiver names is registered, whichever threads run
\* endVpnService while the main thread swaps receivers (startOpenVPN, endVpnService,
\* unregisterDeviceStateReceiver, onDestroy).
THEOREM FieldRegistered == Spec => []FieldIsRegistered
<1>1. IInv => FieldIsRegistered
  BY DEF IInv
<1> QED
  BY <1>1, Inductive, PTL

=============================================================================
