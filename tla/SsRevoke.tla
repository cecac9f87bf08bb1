------------------------------- MODULE SsRevoke -------------------------------
(***************************************************************************)
(* onRevoke of core/'s VpnService, on the thread it really runs on.  The   *)
(* framework calls it from a binder transaction, so stopRunner's check of  *)
(* data.state, the assignment of Stopping and the launch of the clean-up   *)
(* are three steps among those of the main thread, and its clean-up is a   *)
(* second coroutine beside the one a stop on the main thread launched.     *)
(* Everything else is SsService.                                           *)
(***************************************************************************)
EXTENDS SsService

VARIABLES
    revoker,     \* the binder thread's stopRunner, then its clean-up coroutine
    waitingFor   \* what that clean-up has told to end

revokeVars == <<revoker, waitingFor>>
allVars == <<vars, revokeVars>>

RevokeInit == Init /\ revoker = "idle" /\ waitingFor = {}

\* if (data.state == State.Stopping) return
RevokeChecks ==
    /\ revoker = "idle" /\ "conn" \in held /\ state # "Stopping"
    /\ revoker' = "checked"
    /\ UNCHANGED <<vars, waitingFor>>

\* data.changeState(State.Stopping); the coroutine is posted to the main thread.
RevokeSetsState ==
    /\ revoker = "checked"
    /\ revoker' = "posted"
    /\ state' = "Stopping"
    /\ UNCHANGED <<job, cancelled, tries, stopper, restart, held, live, dying, guards,
                   fatal, listening, starts, boot, owed, crashed, waitingFor>>

\* The coroutine begins: it cancels the connecting job, if there is one.
RevokeCancels ==
    /\ revoker = "posted" /\ JobActive
    /\ revoker' = "joining"
    /\ cancelled' = TRUE
    /\ UNCHANGED <<state, job, tries, stopper, restart, held, live, dying, guards,
                   fatal, listening, starts, boot, owed, crashed, waitingFor>>

\* killProcesses and the rest of the clean-up.
RevokeCleansUp ==
    /\ revoker \in {"posted", "joining"} /\ ~JobActive
    /\ revoker' = "cleaning"
    /\ waitingFor' = {t \in live : Owner[t] \in held}
    /\ held' = {}
    /\ CloseGuards
    /\ UNCHANGED <<state, job, cancelled, tries, stopper, restart, live, dying,
                   fatal, listening, starts, boot, owed, crashed>>

RevokedDies(t) ==
    /\ t \in waitingFor
    /\ waitingFor' = waitingFor \ {t}
    /\ live' = live \ {t}
    /\ UNCHANGED <<state, job, cancelled, tries, stopper, restart, held, dying, guards,
                   fatal, listening, starts, boot, owed, crashed, revoker>>

\* data.changeState(State.Stopped); stopSelf().
RevokeDone ==
    /\ revoker = "cleaning" /\ waitingFor = {} /\ hung = {}
    /\ revoker' = "idle"
    /\ state' = "Stopped" /\ boot' = FALSE /\ owed' = FALSE
    /\ UNCHANGED <<job, cancelled, tries, stopper, restart, held, live, dying, guards,
                   fatal, listening, starts, crashed, waitingFor>>

RevokeNext ==
    \/ (OnStartCommand \/ ConnectingJob \/ Stopper \/ FatalError \/ UserStart
        \/ Close \/ Reload \/ Guarding \/ \E p \in Processes : ProcessExits(p))
       /\ UNCHANGED revokeVars
    \/ RevokeChecks \/ RevokeSetsState \/ RevokeCancels \/ RevokeCleansUp \/ RevokeDone
    \/ \E t \in Things : RevokedDies(t)

RevokeSpec == RevokeInit /\ [][RevokeNext]_allVars

\* Stopped is reported after every clean-up: stopRunner changes the state last,
\* when its coroutineScope has waited for what it stopped.
StoppedAfterCleanUp ==
    state = "Stopped" => held = {} /\ live \subseteq Processes /\ stopper = "none"

=============================================================================
