------------------------------ MODULE MCUdpTest ------------------------------
(* A small instance of UdpTest: who may run which mode. *)
EXTENDS UdpTest

CONSTANT c1

\* One client in any mode in which it sends, or announces itself.
Alone == {[c \in Clients |-> m] : m \in {"forward", "reverse", "onesend"}}
=============================================================================
