----------------------------- MODULE MCGateway -----------------------------
(* Instances of Gateway for TLC.                                           *)
EXTENDS Gateway, TLC

CONSTANTS c1, c2

Symmetry == Permutations(Conns)

(* Two memories with the same unit id on two ports.  The first is sealed   *)
(* by its coil 0; the second has an area Modbus may only read.             *)
sealed == [port |-> 502, unit |-> 1]
plain  == [port |-> 503, unit |-> 1]
TwoMemories == {sealed, plain}

One(start) == [start |-> start, size |-> 1]
SmallLayouts == [m \in TwoMemories |-> [a \in Areas |->
  CASE m = sealed /\ a = "coils" -> One(0)
    [] a = "holding_registers" -> One(7)
    [] m = plain /\ a = "input_registers" -> One(7)
    [] OTHER -> Undefined]]
Flags == [m \in TwoMemories |-> IF m = sealed THEN 0 ELSE NoFlag]

(* The viewer's rule comes first: it may read, whatever the second allows. *)
Rules == <<[sources |-> {"viewer"}, fcs |-> {3}],
           [sources |-> {"viewer", "plc"}, fcs |-> {3, 4, 5, 6, 7, 16}]>>
Policies == [m \in TwoMemories |-> Rules]

At(port, source, speaks) == [port |-> port, source |-> source, speaks |-> speaks]

Adu(tx, unit, fc, address, count, v) ==
  [kind |-> "adu", tx |-> tx, unit |-> unit, fc |-> fc, fits |-> TRUE,
   address |-> address, count |-> count, data |-> [i \in 0 .. (count - 1) |-> v]]
Pkt(unit, area, address, v) ==
  [kind |-> "packet", unit |-> unit, area |-> area, address |-> address,
   count |-> 1, data |-> [i \in {0} |-> v]]

(* Sealing: a plc, and an ingest that sets and clears the flag; with the   *)
(* same unit id served on another port, or not.                            *)
SealEndpoints == {At(502, "plc", "modbus"), At(502, "ingest", "raw")}
TwoPorts      == SealEndpoints \cup {At(503, "plc", "modbus")}
SealAdus      == {Adu(1, 1, 5, 0, 1, 1), Adu(2, 1, 3, 7, 1, 0)}
SealPackets   == {Pkt(1, "coils", 0, 1), Pkt(1, "coils", 0, 0)}

(* Liveness: a write and a packet.                                         *)
LiveAdus    == {Adu(1, 1, 5, 0, 1, 1)}
LivePackets == {Pkt(1, "coils", 0, 1)}

(* One connection at a time and every kind of message: on either port, as  *)
(* any client, function codes and payloads of every sort, and everything   *)
(* the framing refuses.                                                    *)
AllEndpoints == {At(502, "plc", "modbus"), At(503, "plc", "modbus"),
                 At(503, "viewer", "modbus"), At(503, "stranger", "modbus"),
                 At(502, "ingest", "raw"), At(503, "ingest", "raw")}
AllAdus ==
  {Adu(1, 1, 6, 7, 1, 1),             \* a write of the register
   [Adu(2, 1, 5, 0, 1, 0) EXCEPT !.fits = FALSE],
   Adu(3, 1, 4, 7, 1, 0),
   Adu(4, 1, 16, 7, 2, 1),            \* out of bounds
   Adu(5, 1, 3, 7, 0, 0),             \* quantity 0, left to the memory
   Adu(6, 1, 16, 7, 0, 0),            \* quantity 0, refused by the decoder
   Adu(7, 1, 7, 0, 0, 0),             \* a function code nobody serves
   Adu(8, 2, 3, 7, 1, 0),             \* a unit nobody configured
   Adu(RI, 1, 3, 7, 1, 0)}            \* 'R','I' as the transaction id
AllPackets ==
  {Pkt(1, "coils", 0, 1), Pkt(1, "holding_registers", 7, 1),
   Pkt(1, "input_registers", 7, 1), Pkt(2, "holding_registers", 7, 1)}
=============================================================================
