----------------------------- MODULE MCTestSetup -----------------------------
(* Command lines and setter calls for TestSetup. *)
EXTENDS TestSetup

CONSTANTS c1, c2

Text(n, u) == [number |-> n, unit |-> u]

Line == [udp |-> FALSE, time |-> 10, bandwidth |-> None, length |-> DefaultLength,
         parallel |-> 1, reverse |-> FALSE, oneWaySend |-> FALSE,
         oneWayReceive |-> FALSE, socketBuf |-> None]
UdpLine == [Line EXCEPT !.udp = TRUE]

\* Both protocols in both directions, both one-way options and both of them at
\* once, bandwidths that fit, overflow or cannot be read.
SomeClientLines ==
  {[Line EXCEPT !.reverse = TRUE, !.bandwidth = Text(8, "M")],
   [Line EXCEPT !.oneWayReceive = TRUE],
   [UdpLine EXCEPT !.bandwidth = Text(16, "G"), !.time = 0],
   [UdpLine EXCEPT !.bandwidth = Text(20, "G")],
   [UdpLine EXCEPT !.bandwidth = Text(-1, "")],
   [UdpLine EXCEPT !.oneWaySend = TRUE, !.oneWayReceive = TRUE, !.reverse = TRUE],
   [UdpLine EXCEPT !.oneWayReceive = TRUE, !.socketBuf = Text(32, "M")],
   [UdpLine EXCEPT !.oneWaySend = TRUE, !.parallel = 2, !.length = 9000,
                   !.bandwidth = Text(7, "")]}

SomeServerLines ==
  {[udp |-> FALSE, socketBuf |-> None], [udp |-> TRUE, socketBuf |-> Text(1, "M")],
   [udp |-> FALSE, socketBuf |-> Text(-1, "K")]}

Setter(f, v) == [set |-> f, to |-> v]

\* A duration of less than a second, one that is no whole number of seconds.
SomeCalls ==
  {Setter("protocol", "Udp"), Setter("reverse", TRUE), Setter("oneWay", "Send"),
   Setter("oneWay", "Receive"), Setter("bandwidth", 12), Setter("buffer", 4),
   Setter("buffer", 1000), Setter("parallel", 4), Setter("duration", 1),
   Setter("duration", 5)}

SomeServerCalls ==
  {Setter("oneWay", "Send"), Setter("buffer", 1000), Setter("reverse", TRUE)}

\* The first client is a library user's, or typed; the second is typed.
ThreeCalls == [c \in Clients |-> IF c = c1 THEN 3 ELSE 0]
=============================================================================
