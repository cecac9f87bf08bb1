-------------------------- MODULE ControlChannel --------------------------
(***************************************************************************)
(* What OpenVPN's control channel promises to the TLS engines at its two   *)
(* ends: a pair of FIFO streams.  What one end reads is, at any time, an   *)
(* initial part of what the other has written: nothing is lost, doubled or *)
(* out of order.  Module Reliable shows how the reliability layer of the   *)
(* openvpn binary keeps that promise over UDP.                             *)
(***************************************************************************)
EXTENDS Naturals, Sequences

CONSTANTS Ends,       \* the two ends
          Payload,    \* what one packet of the stream may carry
          Peer(_)     \* the other end

VARIABLES written,    \* what an end has written so far
          delivered   \* what an end has read of its peer's stream

vars == <<written, delivered>>

Init == /\ written = [e \in Ends |-> <<>>]
        /\ delivered = [e \in Ends |-> <<>>]

(* Some packets are added to an end's stream. *)
Write(e) ==
    /\ Len(written'[e]) >= Len(written[e])
    /\ SubSeq(written'[e], 1, Len(written[e])) = written[e]
    /\ \A o \in Ends \ {e} : written'[o] = written[o]

(* An end reads on, in the order in which its peer wrote. *)
Read(e) ==
    /\ Len(delivered'[e]) \in Len(delivered[e]) .. Len(written[Peer(e)])
    /\ delivered'[e] = SubSeq(written[Peer(e)], 1, Len(delivered'[e]))
    /\ \A o \in Ends \ {e} : delivered'[o] = delivered[o]

(* One turn of an end may both write and read. *)
Next == \E e \in Ends : Write(e) /\ Read(e)

Spec == Init /\ [][Next]_vars
=============================================================================
