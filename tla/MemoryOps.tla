----------------------------- MODULE MemoryOps -----------------------------
(***************************************************************************)
(* The pure part of internal/memorycore: areas, layouts, bounds, packed    *)
(* bit storage and the checks every memory call makes before it takes the  *)
(* lock.  uint16 arithmetic is written out where the code uses it, so      *)
(* BytesForBits wraps exactly as the code's does.                          *)
(*                                                                         *)
(* Payloads are abstracted to the elements they encode: one element is a   *)
(* bit of a bit area or a register of a register area.                     *)
(***************************************************************************)
EXTENDS Integers

Word     == 65536      \* uint16 values are 0 .. Word - 1
ByteBits == 8
U16(n)   == n % Word
UInt16   == 0 .. (Word - 1)

BitAreas == {"coils", "discrete_inputs"}
RegAreas == {"holding_registers", "input_registers"}
Areas    == BitAreas \cup RegAreas

(***************************************************************************)
(* A layout.  Size 0 stands for the nil *AreaLayout: config builds a       *)
(* layout only for a positive count and Validate refuses a zero size.      *)
(***************************************************************************)
LayoutType     == [start : UInt16, size : UInt16]
Undefined      == [start |-> 0, size |-> 0]
Defined(l)     == l.size # 0
ValidLayout(l) == Defined(l) /\ l.start + l.size <= Word

(* Two bugs the runs of MemoryCore must notice: a bound off by one, and a  *)
(* byte count that rounds down.                                            *)
ContainsOneTooMany(l, address, count) ==
  /\ count # 0
  /\ address >= l.start
  /\ address + count <= l.start + l.size + 1

BytesForBitsDown(n) == n \div ByteBits

Contains(l, address, count) ==
  /\ count # 0
  /\ address >= l.start
  /\ address + count <= l.start + l.size

Offset(l, address) == U16(address - l.start)

(* The sum is taken in uint16, so the seven largest counts give zero.      *)
BytesForBits(n) == IF n = 0 THEN 0 ELSE U16(n + 7) \div ByteBits

(* How many elements the backing slice made by NewMemory can hold.         *)
Capacity(area, l) ==
  IF area \in BitAreas THEN ByteBits * BytesForBits(l.size) ELSE l.size

(* Bytes a caller's buffer must have for count elements.                   *)
Want(area, count) ==
  IF area \in BitAreas THEN BytesForBits(count) ELSE 2 * count

(***************************************************************************)
(* The four memory calls.  A request carries the length in bytes of the    *)
(* caller's buffer and, for a write, the elements it encodes.              *)
(***************************************************************************)
ReadCalls  == {"ReadBits", "ReadRegs"}
WriteCalls == {"WriteBits", "WriteRegs"}
Calls      == ReadCalls \cup WriteCalls
AreasOf(fn) == IF fn \in {"ReadBits", "WriteBits"} THEN BitAreas ELSE RegAreas

IsRead(r)  == r.fn \in ReadCalls
IsWrite(r) == r.fn \in WriteCalls

(* No check failed.  Which error a failing call returns is not modelled:   *)
(* every caller in the program maps all of them to the same answer.        *)
Accepted(layouts, r) ==
  /\ r.count # 0
  /\ r.area \in AreasOf(r.fn)
  /\ Defined(layouts[r.area])
  /\ Contains(layouts[r.area], r.address, r.count)
  /\ r.blen >= Want(r.area, r.count)

(* The backing index of the request's i-th element.                        *)
Index(layouts, r, i) == U16(Offset(layouts[r.area], r.address) + i)

(* The element loop goes on at i.  For bits it also stops, silently, when  *)
(* a byte index leaves either slice.                                       *)
LoopGoesOn(layouts, r, i) ==
  /\ i < r.count
  /\ r.area \in BitAreas =>
       /\ i < ByteBits * BytesForBits(r.count)
       /\ Index(layouts, r, i) < Capacity(r.area, layouts[r.area])
=============================================================================
