----------------------------- MODULE MemoryCore -----------------------------
(***************************************************************************)
(* One memorycore.Memory and the goroutines that call it: ReadBits,        *)
(* WriteBits, ReadRegs and WriteRegs of internal/memorycore/memory.go, at  *)
(* the grain of one element per step, with the sync.RWMutex that guards    *)
(* the backing slices.                                                     *)
(*                                                                         *)
(* A call is    idle -> check -> done                        (refused)     *)
(*              idle -> check -> lock -> (parked) -> copy -> done   (read) *)
(*              idle -> check -> lock -> drain -> copy -> done     (write) *)
(***************************************************************************)
EXTENDS MemoryOps

CONSTANTS
  Callers,   \* goroutines: one per connection
  Layouts,   \* Layouts[a]: the area's layout, Undefined when nil
  Value,     \* what one element (bit or register) may hold
  Zero,      \* what make() puts there
  Requests,  \* the calls the goroutines may make
  NoCaller   \* nobody

ASSUME ValueAssumption  == Zero \in Value
ASSUME CallerAssumption == NoCaller \notin Callers
ASSUME LayoutAssumption ==
  /\ Layouts \in [Areas -> LayoutType]
  /\ \A a \in Areas : Defined(Layouts[a]) => ValidLayout(Layouts[a])
ASSUME RequestAssumption ==
  \A r \in Requests :
    /\ r.fn \in Calls
    /\ r.area \in Areas
    /\ r.address \in UInt16
    /\ r.count \in UInt16
    /\ r.blen \in Nat
    /\ IsWrite(r) => r.data \in [0 .. (r.count - 1) -> Value]

VARIABLES
  cells,   \* cells[a][k]: element k of the area's backing slice
  pc,      \* where each goroutine is in its call
  req,     \* req[t]: the call being made
  idx,     \* idx[t]: elements copied so far
  buf,     \* buf[t]: elements a read has put into the caller's buffer
  err,     \* err[t]: the call returned an error
  readers, \* RWMutex: goroutines holding the read lock
  parked,  \* RWMutex: readers waiting for the announced writer
  writer   \* RWMutex: the goroutine holding rw.w, waiting or writing

mutex == <<readers, parked, writer>>
vars  == <<cells, pc, req, idx, buf, err, mutex>>

PCs == {"idle", "check", "lock", "parked", "drain", "copy", "done"}

Goto(t, p) == pc' = [pc EXCEPT ![t] = p]
Room(a)    == 0 .. (Capacity(a, Layouts[a]) - 1)
-----------------------------------------------------------------------------
(* Bugs the runs must notice, each a wrong form of the action it is named  *)
(* after: a read lock that ignores writers, a write lock that ignores      *)
(* readers, an RUnlock forgotten on return, an Unlock that wakes nobody,   *)
(* one whose readers have to try again, a cursor that survives its call.   *)
RLockPastWriter(t) ==
  /\ pc[t] = "lock" /\ IsRead(req[t])
  /\ readers' = readers \cup {t}
  /\ Goto(t, "copy")
  /\ UNCHANGED <<cells, req, idx, buf, err, parked, writer>>

EnterPastReaders(t) ==
  /\ pc[t] = "drain"
  /\ Goto(t, "copy")
  /\ UNCHANGED <<cells, req, idx, buf, err, mutex>>

RUnlockForgotten(t) ==
  /\ pc[t] = "copy" /\ IsRead(req[t])
  /\ ~ LoopGoesOn(Layouts, req[t], idx[t])
  /\ Goto(t, "done")
  /\ UNCHANGED <<cells, req, idx, buf, err, mutex>>

UnlockWakesNobody(t) ==
  /\ pc[t] = "copy" /\ IsWrite(req[t])
  /\ ~ LoopGoesOn(Layouts, req[t], idx[t])
  /\ writer' = NoCaller
  /\ Goto(t, "done")
  /\ UNCHANGED <<cells, req, idx, buf, err, readers, parked>>

UnlockSendsBack(t) ==
  /\ pc[t] = "copy" /\ IsWrite(req[t])
  /\ ~ LoopGoesOn(Layouts, req[t], idx[t])
  /\ writer' = NoCaller /\ parked' = {}
  /\ pc' = [u \in Callers |-> IF u = t THEN "done"
                              ELSE IF u \in parked THEN "lock" ELSE pc[u]]
  /\ UNCHANGED <<cells, req, idx, buf, err, readers>>

ReturnKeepsCursor(t) ==
  /\ pc[t] = "done"
  /\ Goto(t, "idle")
  /\ buf' = [buf EXCEPT ![t] = <<>>]
  /\ err' = [err EXCEPT ![t] = FALSE]
  /\ UNCHANGED <<cells, req, idx, mutex>>
-----------------------------------------------------------------------------
(* No call has been made: req is read only after Call has set it.          *)
Init ==
  /\ cells = [a \in Areas |-> [k \in Room(a) |-> Zero]]
  /\ pc    = [t \in Callers |-> "idle"]
  /\ req \in [Callers -> Requests]
  /\ idx   = [t \in Callers |-> 0]
  /\ buf   = [t \in Callers |-> <<>>]
  /\ err   = [t \in Callers |-> FALSE]
  /\ readers = {} /\ parked = {} /\ writer = NoCaller

(* A connection's goroutine calls the memory with an empty buffer.         *)
Call(t) ==
  /\ pc[t] = "idle"
  /\ \E r \in Requests : req' = [req EXCEPT ![t] = r]
  /\ Goto(t, "check")
  /\ UNCHANGED <<cells, idx, buf, err, mutex>>

(* The checks before the lock: an early return with an error ...           *)
Refuse(t) ==
  /\ pc[t] = "check"
  /\ ~ Accepted(Layouts, req[t])
  /\ err' = [err EXCEPT ![t] = TRUE]
  /\ Goto(t, "done")
  /\ UNCHANGED <<cells, req, idx, buf, mutex>>

(* ... or on to the lock.                                                  *)
Admit(t) ==
  /\ pc[t] = "check"
  /\ Accepted(Layouts, req[t])
  /\ Goto(t, "lock")
  /\ UNCHANGED <<cells, req, idx, buf, err, mutex>>

(* m.mu.RLock(): at once, or parked behind an announced writer.            *)
RLock(t) ==
  /\ pc[t] = "lock" /\ IsRead(req[t])
  /\ IF writer = NoCaller
     THEN readers' = readers \cup {t} /\ Goto(t, "copy") /\ UNCHANGED parked
     ELSE parked' = parked \cup {t} /\ Goto(t, "parked") /\ UNCHANGED readers
  /\ UNCHANGED <<cells, req, idx, buf, err, writer>>

(* m.mu.Lock(): first announce the writer, which parks later readers ...   *)
Announce(t) ==
  /\ pc[t] = "lock" /\ IsWrite(req[t])
  /\ writer = NoCaller
  /\ writer' = t
  /\ Goto(t, "drain")
  /\ UNCHANGED <<cells, req, idx, buf, err, readers, parked>>

(* ... then wait until the readers that were in have left.                 *)
Enter(t) ==
  /\ pc[t] = "drain"
  /\ readers = {}
  /\ Goto(t, "copy")
  /\ UNCHANGED <<cells, req, idx, buf, err, mutex>>

(* One iteration of the copy loop under the lock.                          *)
CopyOut(t) ==
  /\ pc[t] = "copy" /\ IsRead(req[t])
  /\ LoopGoesOn(Layouts, req[t], idx[t])
  /\ buf' = [buf EXCEPT ![t] =
       [i \in 0 .. idx[t] |->
          IF i = idx[t] THEN cells[req[t].area][Index(Layouts, req[t], i)]
                        ELSE @[i]]]
  /\ idx' = [idx EXCEPT ![t] = @ + 1]
  /\ UNCHANGED <<cells, pc, req, err, mutex>>

CopyIn(t) ==
  /\ pc[t] = "copy" /\ IsWrite(req[t])
  /\ LoopGoesOn(Layouts, req[t], idx[t])
  /\ cells' = [cells EXCEPT
       ![req[t].area][Index(Layouts, req[t], idx[t])] = req[t].data[idx[t]]]
  /\ idx' = [idx EXCEPT ![t] = @ + 1]
  /\ UNCHANGED <<pc, req, buf, err, mutex>>

(* m.mu.RUnlock(); return nil                                              *)
RUnlock(t) ==
  /\ pc[t] = "copy" /\ IsRead(req[t])
  /\ ~ LoopGoesOn(Layouts, req[t], idx[t])
  /\ readers' = readers \ {t}
  /\ Goto(t, "done")
  /\ UNCHANGED <<cells, req, idx, buf, err, parked, writer>>

(* m.mu.Unlock() lets every parked reader in before the next writer;       *)
(* return nil.                                                             *)
Unlock(t) ==
  /\ pc[t] = "copy" /\ IsWrite(req[t])
  /\ ~ LoopGoesOn(Layouts, req[t], idx[t])
  /\ writer'  = NoCaller
  /\ readers' = readers \cup parked
  /\ parked'  = {}
  /\ pc' = [u \in Callers |-> IF u = t THEN "done"
                              ELSE IF u \in parked THEN "copy" ELSE pc[u]]
  /\ UNCHANGED <<cells, req, idx, buf, err>>

(* The goroutine takes the result away; its next call has a new buffer.    *)
Return(t) ==
  /\ pc[t] = "done"
  /\ Goto(t, "idle")
  /\ idx' = [idx EXCEPT ![t] = 0]
  /\ buf' = [buf EXCEPT ![t] = <<>>]
  /\ err' = [err EXCEPT ![t] = FALSE]
  /\ UNCHANGED <<cells, req, mutex>>

Next == \E t \in Callers :
  \/ Call(t) \/ Refuse(t) \/ Admit(t)
  \/ RLock(t) \/ Announce(t) \/ Enter(t)
  \/ CopyOut(t) \/ CopyIn(t) \/ RUnlock(t) \/ Unlock(t)
  \/ Return(t)

Spec == Init /\ [][Next]_vars

(***************************************************************************)
(* Goroutines are scheduled, so a step inside a call that stays possible   *)
(* is taken.  sync.Mutex hands rw.w to a waiter that has waited 1 ms, so a *)
(* writer does not lose it for ever.  Nothing makes a goroutine call, or   *)
(* come back for its result: it may be stuck writing to its socket.        *)
(***************************************************************************)
Fairness == \A t \in Callers :
  /\ WF_vars(Refuse(t) \/ Admit(t))
  /\ WF_vars(RLock(t) \/ Enter(t))
  /\ SF_vars(Announce(t))
  /\ WF_vars(CopyOut(t) \/ CopyIn(t))
  /\ WF_vars(RUnlock(t) \/ Unlock(t))

FairSpec == Spec /\ Fairness
-----------------------------------------------------------------------------
(* The state of the calls and of the lock is well formed, and a call that  *)
(* is copying has copied no more than it was asked for.                    *)
TypeOK ==
  /\ cells \in [Areas -> UNION {[Room(a) -> Value] : a \in Areas}]
  /\ \A a \in Areas : DOMAIN cells[a] = Room(a)
  /\ pc \in [Callers -> PCs]
  /\ req \in [Callers -> Requests]
  /\ idx \in [Callers -> Nat]
  /\ \A t \in Callers : idx[t] <= req[t].count
  /\ err \in [Callers -> BOOLEAN]
  /\ readers \subseteq Callers /\ parked \subseteq Callers
  /\ writer \in Callers \cup {NoCaller}

Copying(t) == pc[t] = "copy" /\ LoopGoesOn(Layouts, req[t], idx[t])

(* A goroutine about to touch an element touches one of the slice: the     *)
(* register loops of memory.go index without a check and would panic.      *)
IndexSafe == \A t \in Callers :
  Copying(t) => Index(Layouts, req[t], idx[t]) \in Room(req[t].area)

(* No goroutine may write an element another is reading or writing, which  *)
(* Go leaves undefined: the loops of memory.go are the accesses, m.mu what *)
(* keeps them apart.                                                       *)
NoRace == \A t, u \in Callers :
  (t # u /\ Copying(t) /\ Copying(u)) => (IsRead(req[t]) /\ IsRead(req[u]))

(* Whoever waits for the lock waits for somebody who can still move: the   *)
(* readers parked in memory.go's RLock have a writer to wait for, and a    *)
(* draining writer waits for readers that are copying.                     *)
WaitsForSomebody ==
  /\ parked # {} => writer # NoCaller
  /\ \A t \in Callers : pc[t] = "parked" => t \in parked
  /\ \A t \in Callers : pc[t] = "drain" => \A u \in readers : pc[u] = "copy"

(* A call only moves towards its end: no step of its own goroutine, and no *)
(* Unlock of another's, sends it back to a place it has left, and each one *)
(* that moves it leaves it fewer steps.  With WaitsForSomebody, the calls  *)
(* begun at any time end after as many steps as they have left in all.     *)
StepsLeft(t) ==
  CASE pc[t] = "check"               -> 4 + req[t].count
    [] pc[t] = "lock"                -> 3 + req[t].count
    [] pc[t] \in {"parked", "drain"} -> 2 + req[t].count
    [] pc[t] = "copy"                -> 1 + (req[t].count - idx[t])
    [] OTHER                         -> 0

MovesOn(t) == pc[t] \notin {"idle", "done"} =>
  \/ pc'[t] = pc[t] /\ idx'[t] = idx[t]
  \/ StepsLeft(t)' < StepsLeft(t)

CallsMoveOn == [][\A t \in Callers : MovesOn(t)]_vars

(* A call that returns without an error has copied every element it was    *)
(* asked for: docs/05_MEMORY_MODEL.md forbids partial writes, and the bit  *)
(* loops of bits.go stop early without saying so.                          *)
CompleteCall == \A t \in Callers :
  (pc[t] = "done" /\ ~ err[t]) => idx[t] = req[t].count

(* Every call of memory.go that was started ends, whatever the other       *)
(* goroutines do with their own results: no lock outlives its call.        *)
EveryCallEnds == \A t \in Callers : (pc[t] = "check") ~> (pc[t] = "done")
-----------------------------------------------------------------------------
(***************************************************************************)
(* Refinement.  A write happens when it gets the lock: from then on the    *)
(* abstract content is the backing slices overlaid with all of its data,   *)
(* written or not.  A read happens when it gives the lock back.            *)
(***************************************************************************)
Addresses == [a \in Areas |->
  Layouts[a].start .. (Layouts[a].start + Layouts[a].size - 1)]

Writing(t) == pc[t] = "copy" /\ IsWrite(req[t])

(* The goroutine t is going to write, or wrote, address x of area a.       *)
Covers(t, a, x) ==
  /\ Writing(t)
  /\ req[t].area = a
  /\ x \in req[t].address .. (req[t].address + req[t].count - 1)

(* The address x of area a as the elements are stored.                     *)
Stored(a, x) == cells[a][x - Layouts[a].start]

AbsContent == [a \in Areas |-> [x \in Addresses[a] |->
  IF writer # NoCaller /\ Covers(writer, a, x)
  THEN req[writer].data[x - req[writer].address]
  ELSE Stored(a, x)]]

AbsStatus == [t \in Callers |->
  CASE pc[t] = "idle" -> "idle"
    [] pc[t] = "done" \/ Writing(t) -> "done"
    [] OTHER -> "pending"]

AbsReply == [t \in Callers |->
  CASE pc[t] = "done" /\ ~ err[t] -> [ok |-> TRUE, data |-> buf[t]]
    [] Writing(t) -> [ok |-> TRUE, data |-> <<>>]
    [] OTHER -> [ok |-> FALSE, data |-> <<>>]]

Abstract == INSTANCE AtomicMemory WITH
  Bits <- BitAreas, content <- AbsContent, status <- AbsStatus,
  request <- req, reply <- AbsReply

(* docs/05_MEMORY_MODEL.md: multi-value writes are one operation, reads a  *)
(* consistent snapshot, refused calls change nothing.  memory.go does it.  *)
Atomic == Abstract!Spec
=============================================================================
