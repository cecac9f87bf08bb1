--------------------------- MODULE OvpnDisconnect ---------------------------
(***************************************************************************)
(* OvpnService with the user's last word remembered: whether a disconnect  *)
(* (IOpenVPNAPIService.disconnect, stopVPN) is followed by the end of the  *)
(* session, also when it comes while the session is being started.         *)
(***************************************************************************)
EXTENDS OvpnService

VARIABLE wanted  \* whether the user's last word was a start

\* Before the first session stopVPN finds no management thread and does nothing.
Disconnect == Stop \/ (mManagement = 0 /\ UNCHANGED vars)

HistoryInit == Init /\ wanted = FALSE

HistoryNext ==
    \/ Start /\ wanted' = TRUE
    \/ Disconnect /\ wanted' = FALSE
    \/ Others /\ UNCHANGED wanted

HistorySpec == HistoryInit /\ [][HistoryNext]_<<vars, wanted>> /\ Fairness

\* disconnect ends the session ("Disconnect the VPN" in the interface): but
\* stopVPN reaches connected processes only, and a session that is still being
\* started goes on to connect.
DisconnectEnds ==
    ~wanted ~> (wanted \/ \A i \in Sessions : process[i] \notin Alive)

=============================================================================
