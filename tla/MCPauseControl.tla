--------------------------- MODULE MCPauseControl ---------------------------
(* Model-checks PauseControl with one session, two networks, and one binder *)
(* thread for the calls of the user.                                        *)
EXTENDS PauseControl

TwoNetworks == {"wifi", "mobile"}
OneNetwork == {"wifi"}
OneCaller == {"binder"}
=============================================================================
