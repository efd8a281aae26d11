------------------------------- MODULE MCWire -------------------------------
(* Frames for TLC: short ones, the longest whose lengths do not wrap, the  *)
(* shortest whose lengths do, and broken ones.                             *)
EXTENDS Wire

Adu(length, reads, count) ==
  [proto |-> "modbus", length |-> length, reads |-> reads, count |-> count]
Packet(protocol, valid, area, count) ==
  [proto |-> protocol, valid |-> valid, area |-> area, count |-> count]

Adus == {Adu(6, "holding_registers", 32766), Adu(6, "input_registers", 32767),
         Adu(6, "coils", 65535), Adu(253, "none", 123),
         Adu(0, "none", 0), Adu(1, "none", 0)}
Packets(protocol) ==
  {Packet(protocol, TRUE, "coils", 9), Packet(protocol, TRUE, "coils", 65528),
   Packet(protocol, TRUE, "discrete_inputs", 65529),
   Packet(protocol, TRUE, "holding_registers", 5000),
   Packet(protocol, TRUE, "coils", 0), Packet(protocol, FALSE, "coils", 1)}

AllFrames == Adus \cup Packets("rawingest") \cup Packets("raw")

(* Into, just before and just after each kind of header, and into a body.  *)
Some == {1, 7, 10, 11, 14}
=============================================================================
