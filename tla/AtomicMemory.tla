---------------------------- MODULE AtomicMemory ----------------------------
(***************************************************************************)
(* What docs/05_MEMORY_MODEL.md promises of one memory: every call is      *)
(* bounds-checked, a refused call changes nothing and says so, and an      *)
(* accepted call happens as a whole at one instant between its start and   *)
(* its return.  There are no locks, buffers, offsets or bytes here, and    *)
(* the arithmetic is that of the integers.                                 *)
(***************************************************************************)
EXTENDS Integers

CONSTANTS
  Callers,   \* the goroutines that call the memory
  Areas,     \* the areas of a memory
  Bits,      \* those of them whose elements are bits
  Addresses, \* Addresses[a]: the addresses configured in area a
  Value,     \* what an element may hold
  Zero,      \* what it holds when the memory is made
  Requests   \* the calls that may be made

VARIABLES
  content,   \* content[a][x]: the element at address x of area a
  status,    \* status[t]: "idle", "pending" or "done"
  request,   \* request[t]: the call t is making, or made last
  reply      \* reply[t]: what the call returned, once it is done

vars == <<content, status, request, reply>>

Failure       == [ok |-> FALSE, data |-> <<>>]
Success(data) == [ok |-> TRUE, data |-> data]

Touched(r) == r.address .. (r.address + r.count - 1)

RightArea(r) == (r.fn \in {"ReadBits", "WriteBits"}) <=> (r.area \in Bits)
Fits(r)      == IF r.area \in Bits THEN 8 * r.blen >= r.count
                                   ELSE r.blen >= 2 * r.count

InBounds(r) ==
  /\ r.count > 0
  /\ r.area \in Areas
  /\ RightArea(r)
  /\ Touched(r) \subseteq Addresses[r.area]
  /\ Fits(r)

Snapshot(r) == [i \in 0 .. (r.count - 1) |-> content[r.area][r.address + i]]

Updated(r) ==
  [content EXCEPT ![r.area] =
     [x \in DOMAIN @ |-> IF x \in Touched(r) THEN r.data[x - r.address]
                                             ELSE @[x]]]
-----------------------------------------------------------------------------
Init ==
  /\ content = [a \in Areas |-> [x \in Addresses[a] |-> Zero]]
  /\ status  = [t \in Callers |-> "idle"]
  /\ request \in [Callers -> Requests]
  /\ reply   = [t \in Callers |-> Failure]

Call(t) ==
  /\ status[t] = "idle"
  /\ status' = [status EXCEPT ![t] = "pending"]
  /\ \E r \in Requests : request' = [request EXCEPT ![t] = r]
  /\ UNCHANGED <<content, reply>>

Finish(t, answer) ==
  /\ status[t] = "pending"
  /\ status' = [status EXCEPT ![t] = "done"]
  /\ reply'  = [reply EXCEPT ![t] = answer]
  /\ UNCHANGED request

Refuse(t) ==
  /\ ~ InBounds(request[t])
  /\ Finish(t, Failure)
  /\ UNCHANGED content

Read(t) ==
  /\ InBounds(request[t])
  /\ request[t].fn \in {"ReadBits", "ReadRegs"}
  /\ Finish(t, Success(Snapshot(request[t])))
  /\ UNCHANGED content

Write(t) ==
  /\ InBounds(request[t])
  /\ request[t].fn \in {"WriteBits", "WriteRegs"}
  /\ Finish(t, Success(<<>>))
  /\ content' = Updated(request[t])

Return(t) ==
  /\ status[t] = "done"
  /\ status' = [status EXCEPT ![t] = "idle"]
  /\ reply'  = [reply EXCEPT ![t] = Failure]
  /\ UNCHANGED <<content, request>>

Next == \E t \in Callers :
          Call(t) \/ Refuse(t) \/ Read(t) \/ Write(t) \/ Return(t)

Spec == Init /\ [][Next]_vars

=============================================================================
