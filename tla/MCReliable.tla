---------------------------- MODULE MCReliable ----------------------------
(* Model-checks Reliable: windows, lists and bounds small enough to fill.  *)
EXTENDS Reliable
CONSTANTS MaxClient, MaxServer
MCMaxPackets == [e \in Ends |-> IF e = Client THEN MaxClient ELSE MaxServer]
(* Every packet differs from every other. *)
MCData == Ends \X (1 .. MaxClient + MaxServer)
MCCiphertext(e, id) == <<e, id>>
=============================================================================
