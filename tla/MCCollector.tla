----------------------------- MODULE MCCollector -----------------------------
(***************************************************************************)
(* Who shares a collector: the handlers of a server and a caller of        *)
(* Server::get_measurements, or one run of a client and a caller of        *)
(* Client::get_measurements.                                               *)
(***************************************************************************)
EXTENDS Collector

CONSTANTS p1, p2

Shared(k1, k2) == [p \in Procs |-> IF p = p1 THEN k1 ELSE k2]

SharedByTwo ==
  {Shared("TcpReceive", "TcpReceive"), Shared("TcpReceive", "UdpReceive"),
   Shared("TcpSend", "UdpSend")}
    \cup {Shared(k, "User") : k \in Clients}

ASSUME AloneAssumption == ClientsAreAlone

\* The other task of each pair goes round twice.
OnceOrTwice == [k \in Kinds |-> IF k \in {"User", "UdpSend", "UdpReceive"} THEN 1 ELSE 2]
=============================================================================
