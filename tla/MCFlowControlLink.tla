-------------------------- MODULE MCFlowControlLink -------------------------
(***************************************************************************)
(* A sends data to B on one channel, and the switches of both sides        *)
(* exchange flow control packets.  A packet of MaxChunks and its header    *)
(* fit into FifoSize - ReturnThreshold, except in the run about packets    *)
(* that are too large.                                                     *)
(***************************************************************************)
EXTENDS FlowControlLink

CONSTANTS A, B

MCSide == {A, B}

OneWay == (A :> 1) @@ (B :> 0)

\* Bound: no more than one flow control packet waits to be sent.  Without it
\* the multi-cycle arbiter lets them queue up behind data, and the unchecked
\* credits of the flow control queue wrap again and again.
SoonSent == \A x \in Side : headerFIFO'[x] <= 1

BoundedSpec == Init /\ [][Next /\ SoonSent]_vars

-----------------------------------------------------------------------------

\* Flow control packets, which no credit holds back, find room, and so no $finish
\* of the two switches is reached
\* (flowcontrol-egress.bsv:343-382; flowcontrol-ingress.bsv:304-346, 542).
FlowControlIsBounded == FlowControlFits /\ NeverFinishes

=============================================================================
