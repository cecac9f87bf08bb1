----------------------------- MODULE ServiceStates -----------------------------
(* The states that BaseService.Data reports, and which of them follows which.   *)
(* SsService is shown to keep to it; HomeScreen relies on no more than that.    *)

States == {"Connecting", "Connected", "Stopping", "Stopped"}

\* What a call of changeState may replace.  A service with nothing to connect to
\* goes from Stopped to Stopping at once.
Follows ==
    [Stopped    |-> {"Connecting", "Stopping"},
     Connecting |-> {"Connected", "Stopping"},
     Connected  |-> {"Stopping"},
     Stopping   |-> {"Stopped"}]

================================================================================
