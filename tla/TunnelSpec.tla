------------------------------ MODULE TunnelSpec ------------------------------
(***************************************************************************)
(* What a VPN service promises to the code that controls it, whatever its  *)
(* coroutines and native processes do: the phase it reports and whether    *)
(* something of a tunnel exists.  SsService implements it.                 *)
(***************************************************************************)

VARIABLES
    phase,   \* "off", "starting", "on" or "stopping"
    tunnel   \* "none", "own" for this session's, "orphan" for a dead one's, and
             \* "stuck" for one whose end nobody will see

vars == <<phase, tunnel>>

Init == phase = "off" /\ tunnel = "none"

\* A start is accepted only when the service is off.
Begin == phase = "off" /\ phase' = "starting" /\ UNCHANGED tunnel

\* What a crash left behind is removed before anything is built.
Sweep == phase = "starting" /\ tunnel = "orphan" /\ tunnel' = "none" /\ UNCHANGED phase

Build == phase = "starting" /\ tunnel = "none" /\ tunnel' = "own" /\ UNCHANGED phase

\* Building fails half-way: what exists by then is the clean-up's business.
BuildFails ==
    /\ phase = "starting" /\ tunnel = "none"
    /\ phase' = "stopping" /\ tunnel' = "own"

Up == phase = "starting" /\ tunnel = "own" /\ phase' = "on" /\ UNCHANGED tunnel

Stop == phase # "stopping" /\ phase' = "stopping" /\ UNCHANGED tunnel

\* A tunnel may get stuck when it is being repaired or torn down.
Jam ==
    /\ phase # "off" /\ tunnel = "own" /\ tunnel' = "stuck"
    /\ phase' \in {phase, "stopping"}

TearDown == phase = "stopping" /\ tunnel = "own" /\ tunnel' = "none" /\ UNCHANGED phase

\* Off is reported only when nothing of the session exists any more.
Done == phase = "stopping" /\ tunnel \in {"none", "orphan"} /\ phase' = "off" /\ UNCHANGED tunnel

\* The service's process dies; its children may outlive it.
Die ==
    /\ phase' = "off"
    /\ tunnel' \in IF tunnel = "none" THEN {"none"} ELSE {"none", "orphan"}

Next ==
    \/ Begin \/ Sweep \/ Build \/ BuildFails \/ Up
    \/ Stop \/ Jam \/ TearDown \/ Done \/ Die

Spec == Init /\ [][Next]_vars /\ WF_vars(TearDown) /\ WF_vars(Done)

=============================================================================
