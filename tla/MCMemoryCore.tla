---------------------------- MODULE MCMemoryCore ----------------------------
(* Instances of MemoryCore for TLC.                                        *)
EXTENDS MemoryCore, TLC

CONSTANTS t1, t2, t3

Symmetry == Permutations(Callers)

(* A bit area that ends at the last address, a register area in the middle *)
(* of the space; the other two areas are not configured.                   *)
SmallLayouts ==
  [a \in Areas |-> CASE a = "coils" -> [start |-> 65534, size |-> 2]
                     [] a = "holding_registers" -> [start |-> 10, size |-> 2]
                     [] OTHER -> Undefined]

Req(fn, area, address, count, blen, v) ==
  [fn |-> fn, area |-> area, address |-> address, count |-> count,
   blen |-> blen, data |-> IF fn \in ReadCalls THEN <<>>
                           ELSE [i \in 0 .. (count - 1) |-> v]]

(* Whole and partial reads and writes of the registers and the coils, and  *)
(* one call for each check: past the end, nothing, the wrong kind of area, *)
(* an undefined area, a short buffer.                                      *)
SafeRequests ==
  {Req("ReadRegs", "holding_registers", 10, 2, 4, 0),
   Req("WriteRegs", "holding_registers", 10, 2, 4, 1),
   Req("WriteRegs", "holding_registers", 11, 1, 2, 0),
   Req("WriteRegs", "holding_registers", 11, 2, 4, 1),
   Req("ReadRegs", "holding_registers", 10, 0, 0, 0),
   Req("WriteRegs", "coils", 65534, 1, 2, 1),
   Req("WriteRegs", "holding_registers", 10, 2, 3, 1),
   Req("ReadBits", "coils", 65534, 2, 1, 0),
   Req("WriteBits", "coils", 65534, 2, 1, 1),
   Req("WriteBits", "coils", 65535, 2, 1, 1),
   Req("ReadBits", "discrete_inputs", 0, 1, 1, 0)}

(* Liveness: readers and writers that overlap, and a refusal.              *)
LiveRequests ==
  {Req("ReadRegs", "holding_registers", 10, 2, 4, 0),
   Req("WriteRegs", "holding_registers", 10, 1, 2, 1),
   Req("WriteRegs", "holding_registers", 9, 2, 4, 1)}

(* A coil area whose backing slice has no bytes: 65530 + 7 wraps to 1.     *)
HugeLayouts ==
  [a \in Areas |-> IF a = "coils" THEN [start |-> 0, size |-> 65530]
                                  ELSE Undefined]
HugeRequests == {Req("WriteBits", "coils", 3, 1, 1, 1)}
=============================================================================
