-------------------------- MODULE MemoryCoreProofs --------------------------
(***************************************************************************)
(* What TLAPS proves about MemoryCore, for every set of goroutines, every  *)
(* valid layout and every set of requests.                                 *)
(*                                                                         *)
(* One hypothesis is not of the code: NoWrap, no bit area so large that    *)
(* bytesForBits wraps.  Only the theorems about complete calls need it,    *)
(* and without it they are false, as the run memory_huge shows.            *)
(***************************************************************************)
EXTENDS MemoryCore, TLAPS

NoWrap == \A a \in BitAreas : Layouts[a].size + ByteBits <= Word

-----------------------------------------------------------------------------
(* The lock.  readers and parked are exactly the goroutines whose program  *)
(* counter says so, the writer is one that announced itself, and a writer  *)
(* that is in is alone.                                                    *)
LockOK ==
  /\ readers = {t \in Callers : pc[t] = "copy" /\ IsRead(req[t])}
  /\ parked = {t \in Callers : pc[t] = "parked"}
  /\ parked # {} => writer # NoCaller
  /\ \A t \in Callers : pc[t] = "parked" => IsRead(req[t])
  /\ \A t \in Callers : pc[t] = "drain" => IsWrite(req[t])
  /\ \A t \in Callers : (writer = t) <=> (pc[t] = "drain" \/ Writing(t))
  /\ \A t \in Callers : Writing(t) => readers = {}

(* Past the checks, the request is within the bounds of a defined area.    *)
Past(t)   == pc[t] \in {"lock", "parked", "drain", "copy"}
CheckedOK == \A t \in Callers : Past(t) => Accepted(Layouts, req[t])

(* A call's cursor starts at 0, never passes what was asked for, and a     *)
(* refused call has not moved it.                                          *)
CursorOK == \A t \in Callers :
  /\ pc[t] \notin {"copy", "done"} => idx[t] = 0
  /\ pc[t] # "done" => ~ err[t]
  /\ err[t] => idx[t] = 0

IInv == TypeOK /\ LockOK /\ CheckedOK /\ CursorOK

(* A call that returned without an error passed the checks and copied it   *)
(* all: what IInv lacks to give CompleteCall, and all that needs NoWrap.   *)
DoneOK == \A t \in Callers :
  (pc[t] = "done" /\ ~ err[t]) =>
    Accepted(Layouts, req[t]) /\ idx[t] = req[t].count

-----------------------------------------------------------------------------
(* A call is a read or a write, never both.                                *)
LEMMA ReadOrWrite == \A r \in Requests : IsRead(r) <=> ~ IsWrite(r)
BY RequestAssumption DEF Calls, ReadCalls, WriteCalls, IsRead, IsWrite

(* uint16 fields are naturals below 2^16.                                  *)
LEMMA Fields ==
  \A r \in Requests : /\ r.area \in Areas
                      /\ r.address \in Nat /\ r.address < Word
                      /\ r.count \in Nat /\ r.count < Word
<1>1. \A r \in Requests : r.area \in Areas /\ r.address \in UInt16 /\ r.count \in UInt16
  BY RequestAssumption
<1>2. \A n \in UInt16 : n \in Nat /\ n < Word
  <2>1. Word \in Int
    BY DEF Word
  <2>2. QED
    BY <2>1 DEF UInt16
<1>3. QED
  BY <1>1, <1>2

LEMMA LayoutFields ==
  \A a \in Areas : /\ Layouts[a].start \in Nat /\ Layouts[a].size \in Nat
                   /\ Defined(Layouts[a]) =>
                        Layouts[a].start + Layouts[a].size <= Word
<1>1. \A a \in Areas : /\ Layouts[a].start \in UInt16
                       /\ Layouts[a].size \in UInt16
                       /\ Defined(Layouts[a]) => ValidLayout(Layouts[a])
  BY LayoutAssumption DEF LayoutAssumption, LayoutType
<1>2. \A n \in UInt16 : n \in Nat
  BY DEF UInt16
<1>3. QED
  BY <1>1, <1>2 DEF ValidLayout

(* Whatever the size of an area, the loops of memory.go and bits.go index  *)
(* only places the backing slice has: the bit loops check, and for the     *)
(* register loops the bounds check is enough.                              *)
LEMMA IndexInRoom ==
  ASSUME NEW r \in Requests, Accepted(Layouts, r),
         NEW i \in Nat, LoopGoesOn(Layouts, r, i)
  PROVE  Index(Layouts, r, i) \in Room(r.area)
<1> DEFINE l == Layouts[r.area]
           k == Index(Layouts, r, i)
<1>1. /\ r.area \in Areas /\ r.address \in Nat /\ r.count \in Nat
      /\ i < r.count
  BY Fields DEF LoopGoesOn
<1>2. l.start \in Nat /\ l.size \in Nat /\ l.start + l.size <= Word
  BY <1>1, LayoutFields DEF Accepted
<1>3. r.address >= l.start /\ r.address + r.count <= l.start + l.size
  BY DEF Accepted, Contains
<1>4. k \in Nat
  BY <1>1, <1>2, <1>3 DEF Index, Offset, U16, Word
<1>5. CASE r.area \in BitAreas
  <2>1. k < Capacity(r.area, l)
    BY <1>5 DEF LoopGoesOn
  <2>2. Capacity(r.area, l) \in Int
    BY <1>2, <1>5 DEF Capacity, BytesForBits, U16, Word, ByteBits
  <2>3. k \in 0 .. (Capacity(r.area, l) - 1)
    BY <1>4, <2>1, <2>2
  <2>4. QED
    BY <2>3 DEF Room
<1>6. CASE r.area \notin BitAreas
  <2>1. k < l.size
    BY <1>1, <1>2, <1>3 DEF Index, Offset, U16, Word
  <2>2. k \in 0 .. (l.size - 1)
    BY <1>2, <1>4, <2>1
  <2>3. QED
    BY <1>6, <2>2 DEF Room, Capacity
<1>7. QED
  BY <1>5, <1>6

-----------------------------------------------------------------------------
(* Every initial state of memory.go's model satisfies the invariant.       *)
LEMMA InitIInv == Init => IInv
<1> SUFFICES ASSUME Init
             PROVE  IInv
  OBVIOUS
<1>1. TypeOK
  BY ValueAssumption, Fields DEF Init, TypeOK, PCs
<1>2. LockOK
  BY CallerAssumption DEF Init, LockOK, Writing
<1>3. CheckedOK
  BY DEF Init, CheckedOK, Past
<1>4. CursorOK
  BY DEF Init, CursorOK
<1>5. QED
  BY <1>1, <1>2, <1>3, <1>4 DEF IInv

(* Every step of every goroutine preserves it.                             *)
LEMMA StepIInv ==
  ASSUME IInv, [Next]_vars
  PROVE  IInv'
<1> USE DEF IInv, Goto, mutex
<1>0. CASE UNCHANGED vars
  BY <1>0 DEF vars, TypeOK, LockOK, Writing, CheckedOK, Past, CursorOK
<1>1. ASSUME NEW t \in Callers, Call(t)
      PROVE  IInv'
  <2>1. TypeOK'
    BY <1>1, Fields DEF Call, TypeOK, PCs, CursorOK
  <2>2. LockOK'
    BY <1>1, ReadOrWrite, CallerAssumption DEF Call, LockOK, Writing, TypeOK, PCs
  <2>3. CheckedOK'
    BY <1>1 DEF Call, CheckedOK, Past, TypeOK
  <2>4. CursorOK'
    BY <1>1, Fields DEF Call, CursorOK, TypeOK, PCs
  <2>5. QED
    BY <2>1, <2>2, <2>3, <2>4
<1>2. ASSUME NEW t \in Callers, Refuse(t)
      PROVE  IInv'
  <2>1. TypeOK'
    BY <1>2, Fields DEF Refuse, TypeOK, PCs, CursorOK
  <2>2. LockOK'
    BY <1>2, ReadOrWrite, CallerAssumption DEF Refuse, LockOK, Writing, TypeOK, PCs
  <2>3. CheckedOK'
    BY <1>2 DEF Refuse, CheckedOK, Past, TypeOK
  <2>4. CursorOK'
    BY <1>2, Fields DEF Refuse, CursorOK, TypeOK, PCs
  <2>5. QED
    BY <2>1, <2>2, <2>3, <2>4
<1>3. ASSUME NEW t \in Callers, Admit(t)
      PROVE  IInv'
  <2>1. TypeOK'
    BY <1>3, Fields DEF Admit, TypeOK, PCs, CursorOK
  <2>2. LockOK'
    BY <1>3, ReadOrWrite, CallerAssumption DEF Admit, LockOK, Writing, TypeOK, PCs
  <2>3. CheckedOK'
    BY <1>3 DEF Admit, CheckedOK, Past, TypeOK
  <2>4. CursorOK'
    BY <1>3, Fields DEF Admit, CursorOK, TypeOK, PCs
  <2>5. QED
    BY <2>1, <2>2, <2>3, <2>4
<1>4. ASSUME NEW t \in Callers, RLock(t)
      PROVE  IInv'
  <2>1. TypeOK'
    BY <1>4, Fields DEF RLock, TypeOK, PCs, CursorOK
  <2>2. LockOK'
    BY <1>4, ReadOrWrite, CallerAssumption DEF RLock, LockOK, Writing, TypeOK, PCs
  <2>3. CheckedOK'
    BY <1>4 DEF RLock, CheckedOK, Past, TypeOK
  <2>4. CursorOK'
    BY <1>4, Fields DEF RLock, CursorOK, TypeOK, PCs
  <2>5. QED
    BY <2>1, <2>2, <2>3, <2>4
<1>5. ASSUME NEW t \in Callers, Announce(t)
      PROVE  IInv'
  <2>1. TypeOK'
    BY <1>5, Fields DEF Announce, TypeOK, PCs, CursorOK
  <2>2. LockOK'
    BY <1>5, ReadOrWrite, CallerAssumption DEF Announce, LockOK, Writing, TypeOK, PCs
  <2>3. CheckedOK'
    BY <1>5 DEF Announce, CheckedOK, Past, TypeOK
  <2>4. CursorOK'
    BY <1>5, Fields DEF Announce, CursorOK, TypeOK, PCs
  <2>5. QED
    BY <2>1, <2>2, <2>3, <2>4
<1>6. ASSUME NEW t \in Callers, Enter(t)
      PROVE  IInv'
  <2>1. TypeOK'
    BY <1>6, Fields DEF Enter, TypeOK, PCs, CursorOK
  <2>2. LockOK'
    BY <1>6, ReadOrWrite, CallerAssumption DEF Enter, LockOK, Writing, TypeOK, PCs
  <2>3. CheckedOK'
    BY <1>6 DEF Enter, CheckedOK, Past, TypeOK
  <2>4. CursorOK'
    BY <1>6, Fields DEF Enter, CursorOK, TypeOK, PCs
  <2>5. QED
    BY <2>1, <2>2, <2>3, <2>4
<1>7. ASSUME NEW t \in Callers, CopyOut(t)
      PROVE  IInv'
  <2>0. /\ req[t] \in Requests /\ pc[t] = "copy" /\ ~ err[t]
        /\ idx[t] \in Nat /\ req[t].count \in Nat /\ idx[t] < req[t].count
    BY <1>7, Fields DEF CopyOut, TypeOK, CursorOK, LoopGoesOn
  <2>1. TypeOK'
    BY <1>7, <2>0 DEF CopyOut, TypeOK
  <2>2. LockOK'
    BY <1>7, ReadOrWrite, CallerAssumption DEF CopyOut, LockOK, Writing, TypeOK, PCs
  <2>3. CheckedOK'
    BY <1>7 DEF CopyOut, CheckedOK, Past, TypeOK
  <2>4. CursorOK'
    BY <1>7, <2>0 DEF CopyOut, CursorOK, TypeOK
  <2>5. QED
    BY <2>1, <2>2, <2>3, <2>4
<1>8. ASSUME NEW t \in Callers, CopyIn(t)
      PROVE  IInv'
  <2>0. /\ req[t] \in Requests /\ pc[t] = "copy" /\ ~ err[t]
        /\ idx[t] \in Nat /\ req[t].count \in Nat /\ idx[t] < req[t].count
    BY <1>8, Fields DEF CopyIn, TypeOK, CursorOK, LoopGoesOn
  <2>1. TypeOK'
    <3> DEFINE a == req[t].area
               k == Index(Layouts, req[t], idx[t])
               v == req[t].data[idx[t]]
    <3>1. a \in Areas /\ k \in Room(a)
      BY <1>8, <2>0, Fields, IndexInRoom DEF CopyIn, CheckedOK, Past
    <3>2. v \in Value
      BY <1>8, <2>0, RequestAssumption DEF CopyIn
    <3>3. \A b \in Areas : cells[b] \in [Room(b) -> Value]
      BY DEF TypeOK
    <3>4. cells' = [cells EXCEPT ![a] = [cells[a] EXCEPT ![k] = v]]
      BY <1>8 DEF CopyIn
    <3>5. \A b \in Areas : cells'[b] \in [Room(b) -> Value]
      BY <3>1, <3>2, <3>3, <3>4 DEF TypeOK
    <3>6. cells' \in [Areas -> UNION {[Room(b) -> Value] : b \in Areas}]
      BY <3>1, <3>4, <3>5 DEF TypeOK
    <3>7. QED
      BY <1>8, <2>0, <3>5, <3>6 DEF CopyIn, TypeOK
  <2>2. LockOK'
    BY <1>8, ReadOrWrite, CallerAssumption DEF CopyIn, LockOK, Writing, TypeOK, PCs
  <2>3. CheckedOK'
    BY <1>8 DEF CopyIn, CheckedOK, Past, TypeOK
  <2>4. CursorOK'
    BY <1>8, <2>0 DEF CopyIn, CursorOK, TypeOK
  <2>5. QED
    BY <2>1, <2>2, <2>3, <2>4
<1>9. ASSUME NEW t \in Callers, RUnlock(t)
      PROVE  IInv'
  <2>1. TypeOK'
    BY <1>9, Fields DEF RUnlock, TypeOK, PCs, CursorOK
  <2>2. LockOK'
    BY <1>9, ReadOrWrite, CallerAssumption DEF RUnlock, LockOK, Writing, TypeOK, PCs
  <2>3. CheckedOK'
    BY <1>9 DEF RUnlock, CheckedOK, Past, TypeOK
  <2>4. CursorOK'
    BY <1>9 DEF RUnlock, CursorOK, TypeOK
  <2>5. QED
    BY <2>1, <2>2, <2>3, <2>4
<1>10. ASSUME NEW t \in Callers, Unlock(t)
      PROVE  IInv'
  <2>1. TypeOK'
    BY <1>10, Fields DEF Unlock, TypeOK, PCs, CursorOK
  <2>2. LockOK'
    BY <1>10, ReadOrWrite, CallerAssumption DEF Unlock, LockOK, Writing, TypeOK, PCs
  <2>3. CheckedOK'
    BY <1>10 DEF Unlock, CheckedOK, Past, TypeOK, LockOK
  <2>4. CursorOK'
    BY <1>10 DEF Unlock, CursorOK, TypeOK, LockOK
  <2>5. QED
    BY <2>1, <2>2, <2>3, <2>4
<1>11. ASSUME NEW t \in Callers, Return(t)
      PROVE  IInv'
  <2>1. TypeOK'
    BY <1>11, Fields DEF Return, TypeOK, PCs, CursorOK
  <2>2. LockOK'
    BY <1>11, ReadOrWrite, CallerAssumption DEF Return, LockOK, Writing, TypeOK, PCs
  <2>3. CheckedOK'
    BY <1>11 DEF Return, CheckedOK, Past, TypeOK
  <2>4. CursorOK'
    BY <1>11, Fields DEF Return, CursorOK, TypeOK, PCs
  <2>5. QED
    BY <2>1, <2>2, <2>3, <2>4
<1>12. QED
  BY <1>0, <1>1, <1>2, <1>3, <1>4, <1>5, <1>6, <1>7, <1>8, <1>9, <1>10, <1>11 DEF Next

(* TypeOK, and what it takes to keep it, in every reachable state of       *)
(* memory.go's model.                                                      *)
THEOREM Invariance == Spec => []IInv
<1>1. Init => IInv
  BY InitIInv
<1>2. IInv /\ [Next]_vars => IInv'
  BY StepIInv
<1>3. QED
  BY <1>1, <1>2, PTL DEF Spec

(* The state of the calls and of the RWMutex stays well formed.            *)
THEOREM TypeSafety == Spec => []TypeOK
<1>1. IInv => TypeOK
  BY DEF IInv
<1>2. QED
  BY <1>1, Invariance, PTL

(* No call of memory.go can index outside a backing slice, whatever the    *)
(* size of the area.                                                       *)
THEOREM IndexSafety == Spec => []IndexSafe
<1>1. IInv => IndexSafe
  BY IndexInRoom DEF IInv, TypeOK, CheckedOK, Past, IndexSafe, Copying
<1>2. QED
  BY <1>1, Invariance, PTL

(* m.mu keeps a writing goroutine apart from every other, for any number   *)
(* of them.                                                                *)
THEOREM RaceFreedom == Spec => []NoRace
<1>1. IInv => NoRace
  BY ReadOrWrite DEF IInv, TypeOK, LockOK, Writing, NoRace, Copying
<1>2. QED
  BY <1>1, Invariance, PTL

(* Nobody is left waiting for a lock that nobody holds.                    *)
THEOREM NoLostWakeup == Spec => []WaitsForSomebody
<1>1. IInv => WaitsForSomebody
  BY DEF IInv, LockOK, WaitsForSomebody
<1>2. QED
  BY <1>1, Invariance, PTL

-----------------------------------------------------------------------------
(* A goroutine's own step and the Unlock of another are all that can move  *)
(* its call; both leave it fewer steps.                                    *)
LEMMA StepMovesOn ==
  ASSUME IInv, [Next]_vars, NEW t \in Callers
  PROVE  MovesOn(t)
<1> USE DEF Goto, mutex
<1>0. /\ req[t] \in Requests /\ pc[t] \in PCs /\ pc \in [Callers -> PCs]
      /\ idx[t] \in Nat /\ req[t].count \in Nat /\ idx[t] <= req[t].count
      /\ pc[t] \notin {"copy", "done"} => idx[t] = 0
      /\ req \in [Callers -> Requests] /\ idx \in [Callers -> Nat]
  BY Fields DEF IInv, TypeOK, CursorOK
<1>1. ASSUME NEW u \in Callers, Call(u) \/ Return(u)
      PROVE  MovesOn(t)
  BY <1>0, <1>1 DEF Call, Return, MovesOn
<1>2. ASSUME NEW u \in Callers, Refuse(u) \/ Admit(u)
      PROVE  MovesOn(t)
  BY <1>0, <1>2 DEF Refuse, Admit, MovesOn, StepsLeft
<1>3. ASSUME NEW u \in Callers, RLock(u) \/ Announce(u) \/ Enter(u)
      PROVE  MovesOn(t)
  BY <1>0, <1>3 DEF RLock, Announce, Enter, MovesOn, StepsLeft
<1>4. ASSUME NEW u \in Callers, CopyOut(u) \/ CopyIn(u)
      PROVE  MovesOn(t)
  <2>1. /\ pc[u] = "copy" /\ idx[u] \in Nat /\ idx[u] < req[u].count
        /\ pc' = pc /\ req' = req /\ idx' = [idx EXCEPT ![u] = @ + 1]
    BY <1>0, <1>4 DEF CopyOut, CopyIn, LoopGoesOn
  <2>2. QED
    BY <1>0, <2>1 DEF MovesOn, StepsLeft
<1>5. ASSUME NEW u \in Callers, RUnlock(u)
      PROVE  MovesOn(t)
  BY <1>0, <1>5 DEF RUnlock, MovesOn, StepsLeft
<1>6. ASSUME NEW u \in Callers, Unlock(u)
      PROVE  MovesOn(t)
  <2>1. \A v \in parked : pc[v] = "parked"
    BY DEF IInv, LockOK
  <2>2. /\ pc[u] = "copy" /\ req' = req /\ idx' = idx
        /\ pc'[t] = IF t = u THEN "done"
                    ELSE IF t \in parked THEN "copy" ELSE pc[t]
    BY <1>6 DEF Unlock
  <2>3. QED
    BY <1>0, <2>1, <2>2 DEF MovesOn, StepsLeft
<1>7. CASE UNCHANGED vars
  BY <1>7 DEF vars, MovesOn
<1>8. QED
  BY <1>1, <1>2, <1>3, <1>4, <1>5, <1>6, <1>7 DEF Next

(* No step of memory.go sends a call back, and each that moves it leaves   *)
(* it fewer: nothing can turn for ever inside the memory.                  *)
THEOREM CallsAreFinite == Spec => CallsMoveOn
<1>1. IInv /\ [Next]_vars => [\A t \in Callers : MovesOn(t)]_vars
  BY StepMovesOn
<1>2. QED
  BY <1>1, Invariance, PTL DEF Spec, CallsMoveOn

-----------------------------------------------------------------------------
(* bytesForBits (bits.go) gives room for all its bits as long as its sum   *)
(* stays below 2^16.                                                       *)
LEMMA BytesHoldBits ==
  ASSUME NEW n \in Nat, n + ByteBits <= Word
  PROVE  /\ BytesForBits(n) \in Nat
         /\ n <= ByteBits * BytesForBits(n)
BY DEF BytesForBits, U16, ByteBits, Word

(* The slices NewMemory makes hold every element of their layout.          *)
LEMMA RoomForLayout ==
  ASSUME NoWrap, NEW a \in Areas
  PROVE  /\ Capacity(a, Layouts[a]) \in Nat
         /\ Layouts[a].size <= Capacity(a, Layouts[a])
<1>1. Layouts[a].size \in Nat
  BY LayoutFields
<1>2. CASE a \in BitAreas
  <2>1. Layouts[a].size + ByteBits <= Word
    BY <1>2 DEF NoWrap
  <2>2. QED
    BY <1>1, <1>2, <2>1, BytesHoldBits DEF Capacity, ByteBits
<1>3. CASE a \notin BitAreas
  BY <1>1, <1>3 DEF Capacity
<1>4. QED
  BY <1>2, <1>3

(* The bounds check of memory.go is enough: every element of an accepted   *)
(* request has its own place in the backing slice, and neither slice       *)
(* stops the loop early.                                                   *)
LEMMA AcceptedFits ==
  ASSUME NoWrap, NEW r \in Requests, Accepted(Layouts, r),
         NEW i \in Nat, i < r.count
  PROVE  /\ Index(Layouts, r, i) = r.address - Layouts[r.area].start + i
         /\ Index(Layouts, r, i) \in Room(r.area)
         /\ LoopGoesOn(Layouts, r, i)
<1> DEFINE l == Layouts[r.area]
<1>1. /\ r.area \in Areas /\ r.address \in Nat /\ r.count \in Nat
      /\ r.address < Word
  BY Fields
<1>2. /\ l.start \in Nat /\ l.size \in Nat
      /\ l.start + l.size <= Word
  BY <1>1, LayoutFields DEF Accepted
<1>3. r.address >= l.start /\ r.address + r.count <= l.start + l.size
  BY DEF Accepted, Contains
<1>4. Index(Layouts, r, i) = r.address - l.start + i
  BY <1>1, <1>2, <1>3 DEF Index, Offset, U16, Word
<1>5. Capacity(r.area, l) \in Nat /\ l.size <= Capacity(r.area, l)
  BY <1>1, RoomForLayout
<1>6. Index(Layouts, r, i) \in 0 .. (Capacity(r.area, l) - 1)
  BY <1>1, <1>2, <1>3, <1>4, <1>5
<1>7. ASSUME r.area \in BitAreas
      PROVE  i < ByteBits * BytesForBits(r.count)
  <2>1. r.count + ByteBits <= Word
    BY <1>1, <1>2, <1>3, <1>7 DEF NoWrap, ByteBits, Word
  <2>2. QED
    BY <1>1, <2>1, BytesHoldBits DEF ByteBits
<1>8. QED
  BY <1>4, <1>5, <1>6, <1>7 DEF Room, LoopGoesOn

(* So the loop ends exactly when every element has been copied.            *)
LEMMA LoopEnds ==
  ASSUME NoWrap, NEW r \in Requests, Accepted(Layouts, r),
         NEW i \in Nat, i <= r.count
  PROVE  ~ LoopGoesOn(Layouts, r, i) <=> i = r.count
<1>1. r.count \in Nat
  BY Fields
<1>2. QED
  BY <1>1, AcceptedFits DEF LoopGoesOn

LEMMA StepDoneOK ==
  ASSUME NoWrap, IInv, DoneOK, [Next]_vars
  PROVE  DoneOK'
<1> USE DEF DoneOK, Goto, mutex
<1>1. ASSUME NEW t \in Callers, RUnlock(t)
      PROVE  DoneOK'
  <2>1. Accepted(Layouts, req[t]) /\ idx[t] = req[t].count
    BY <1>1, LoopEnds DEF RUnlock, IInv, TypeOK, CheckedOK, Past
  <2>2. QED
    BY <1>1, <2>1 DEF RUnlock, IInv, TypeOK
<1>2. ASSUME NEW t \in Callers, Unlock(t)
      PROVE  DoneOK'
  <2>1. Accepted(Layouts, req[t]) /\ idx[t] = req[t].count
    BY <1>2, LoopEnds DEF Unlock, IInv, TypeOK, CheckedOK, Past
  <2>2. QED
    BY <1>2, <2>1 DEF Unlock, IInv, TypeOK
<1>3. ASSUME NEW t \in Callers, Call(t) \/ Return(t) \/ CopyOut(t) \/ CopyIn(t)
      PROVE  DoneOK'
  BY <1>3 DEF Call, Return, CopyOut, CopyIn, IInv, TypeOK
<1>4. ASSUME NEW t \in Callers,
             Refuse(t) \/ Admit(t) \/ RLock(t) \/ Announce(t) \/ Enter(t)
      PROVE  DoneOK'
  BY <1>4 DEF Refuse, Admit, RLock, Announce, Enter, IInv, TypeOK
<1>5. CASE UNCHANGED vars
  BY <1>5 DEF vars
<1>6. QED
  BY <1>1, <1>2, <1>3, <1>4, <1>5 DEF Next

(* memory.go never returns success for a part of what was asked, unless a  *)
(* bit area is within a byte of the whole address space.                   *)
THEOREM Completeness == NoWrap => (Spec => []CompleteCall)
<1> SUFFICES ASSUME NoWrap
             PROVE  Spec => []CompleteCall
  OBVIOUS
<1>1. Init => DoneOK
  BY DEF Init, DoneOK
<1>2. IInv /\ DoneOK /\ [Next]_vars => DoneOK'
  BY StepDoneOK
<1>3. DoneOK => CompleteCall
  BY DEF DoneOK, CompleteCall
<1>4. QED
  BY <1>1, <1>2, <1>3, Invariance, PTL DEF Spec
=============================================================================
