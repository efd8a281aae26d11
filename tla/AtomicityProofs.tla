--------------------------- MODULE AtomicityProofs ---------------------------
(***************************************************************************)
(* MemoryCore implements AtomicMemory: what TLAPS proves of the refinement *)
(* at the end of MemoryCore, for every set of goroutines, every valid      *)
(* layout and every set of requests, given NoWrap (see MemoryCoreProofs).  *)
(***************************************************************************)
EXTENDS MemoryCoreProofs

(* What has been copied: a read holds what the slice still holds, since    *)
(* nobody writes while it reads; a write's elements are in the slice.  A   *)
(* write returns no data, and a read none before it has begun.             *)
BufAt(t) ==
  /\ pc[t] \notin {"copy", "done"} \/ IsWrite(req[t]) => buf[t] = <<>>
  /\ pc[t] = "copy" /\ IsRead(req[t]) /\ idx[t] # 0 =>
       buf[t] = [i \in 0 .. (idx[t] - 1) |->
                   cells[req[t].area][Index(Layouts, req[t], i)]]
  /\ Writing(t) => \A i \in 0 .. (idx[t] - 1) :
       cells[req[t].area][Index(Layouts, req[t], i)] = req[t].data[i]

BufOK == DOMAIN buf = Callers /\ \A t \in Callers : BufAt(t)

RInv == IInv /\ DoneOK /\ BufOK
-----------------------------------------------------------------------------
(* The checks of memory.go, with their uint16 byte count, are those of the *)
(* documentation, over the integers.                                       *)
LEMMA ChecksAgree ==
  ASSUME NoWrap, NEW r \in Requests
  PROVE  Accepted(Layouts, r) <=> Abstract!InBounds(r)
<1> DEFINE l == Layouts[r.area]
<1>1. /\ r.area \in Areas /\ r.fn \in Calls /\ r.address \in Nat
      /\ r.count \in Nat /\ r.blen \in Nat
  BY Fields, RequestAssumption
<1>2. l.start \in Nat /\ l.size \in Nat
  BY <1>1, LayoutFields
<1>3. r.area \in AreasOf(r.fn) <=> Abstract!RightArea(r)
  BY <1>1 DEF AreasOf, Abstract!RightArea, Areas, BitAreas, RegAreas, Calls,
              ReadCalls, WriteCalls
<1>4. ASSUME r.count # 0
      PROVE  Defined(l) /\ Contains(l, r.address, r.count)
               <=> Abstract!Touched(r) \subseteq Addresses[r.area]
  <2>1. /\ Abstract!Touched(r) = r.address .. (r.address + r.count - 1)
        /\ Addresses[r.area] = l.start .. (l.start + l.size - 1)
    BY <1>1 DEF Abstract!Touched, Addresses
  <2>2. ASSUME Contains(l, r.address, r.count),
               NEW x \in r.address .. (r.address + r.count - 1)
        PROVE  x \in l.start .. (l.start + l.size - 1)
    BY <1>1, <1>2, <2>2 DEF Contains
  <2>3. ASSUME r.address .. (r.address + r.count - 1)
                 \subseteq l.start .. (l.start + l.size - 1)
        PROVE  Defined(l) /\ Contains(l, r.address, r.count)
    <3>1. /\ r.address \in r.address .. (r.address + r.count - 1)
          /\ r.address + r.count - 1 \in r.address .. (r.address + r.count - 1)
      BY <1>1, <1>4
    <3>2. /\ r.address \in l.start .. (l.start + l.size - 1)
          /\ r.address + r.count - 1 \in l.start .. (l.start + l.size - 1)
      BY <2>3, <3>1
    <3>3. QED
      BY <1>1, <1>2, <1>4, <3>2 DEF Defined, Contains
  <2>4. QED
    BY <2>1, <2>2, <2>3
<1>5. ASSUME Contains(l, r.address, r.count)
      PROVE  r.blen >= Want(r.area, r.count) <=> Abstract!Fits(r)
  <2>1. r.count <= l.size
    BY <1>1, <1>2, <1>5 DEF Contains
  <2>2. CASE r.area \in BitAreas
    <3>1. r.count + 7 < 65536 /\ r.count # 0
      BY <1>1, <1>2, <1>5, <2>1, <2>2 DEF NoWrap, ByteBits, Word, Contains
    <3>2. Want(r.area, r.count) = (r.count + 7) \div 8
      BY <1>1, <2>2, <3>1 DEF Want, BytesForBits, U16, Word, ByteBits
    <3>3. r.blen >= (r.count + 7) \div 8 <=> 8 * r.blen >= r.count
      BY <1>1
    <3>4. QED
      BY <2>2, <3>2, <3>3 DEF Abstract!Fits
  <2>3. CASE r.area \notin BitAreas
    BY <2>3 DEF Want, Abstract!Fits
  <2>4. QED
    BY <2>2, <2>3
<1>6. r.count # 0 <=> r.count > 0
  BY <1>1
<1>7. QED
  BY <1>1, <1>3, <1>4, <1>5, <1>6 DEF Accepted, Abstract!InBounds
-----------------------------------------------------------------------------
LEMMA InitBufOK == Init => BufOK
BY DEF Init, BufOK, BufAt, Writing

(* Only the elements of a request, each at a place of its own.             *)
LEMMA Places ==
  ASSUME NoWrap, IInv, NEW t \in Callers, pc[t] = "copy"
  PROVE  /\ req[t] \in Requests /\ req[t].area \in Areas /\ idx[t] \in Nat
         /\ req[t].address \in Nat /\ req[t].count \in Nat
         /\ Accepted(Layouts, req[t])
         /\ \A i \in 0 .. (req[t].count - 1) :
              /\ Index(Layouts, req[t], i)
                   = req[t].address - Layouts[req[t].area].start + i
              /\ Index(Layouts, req[t], i) \in Room(req[t].area)
<1>1. req[t] \in Requests /\ idx[t] \in Nat /\ Accepted(Layouts, req[t])
  BY DEF IInv, TypeOK, CheckedOK, Past
<1>2. req[t].area \in Areas /\ req[t].address \in Nat /\ req[t].count \in Nat
  BY <1>1, Fields
<1>3. QED
  BY <1>1, <1>2, AcceptedFits

LEMMA CopyInBufOK ==
  ASSUME NoWrap, IInv, BufOK, NEW t \in Callers, CopyIn(t)
  PROVE  BufOK'
<1> DEFINE a == req[t].area
           r == req[t]
           n == idx[t]
<1>1. /\ pc[t] = "copy" /\ IsWrite(r) /\ n < r.count
      /\ cells' = [cells EXCEPT ![a][Index(Layouts, r, n)] = r.data[n]]
      /\ idx' = [idx EXCEPT ![t] = n + 1] /\ UNCHANGED <<pc, req, buf>>
  BY DEF CopyIn, LoopGoesOn
<1>2. /\ r \in Requests /\ a \in Areas /\ n \in Nat /\ r.count \in Nat
      /\ r.address \in Nat /\ Layouts[a].start \in Nat
      /\ \A i \in 0 .. (r.count - 1) :
           /\ Index(Layouts, r, i) = r.address - Layouts[a].start + i
           /\ Index(Layouts, r, i) \in Room(a)
  BY <1>1, Places, LayoutFields
<1>3. ASSUME NEW u \in Callers, u # t
      PROVE  pc[u] # "copy" /\ ~ Writing(u)
  BY <1>1, <1>3, ReadOrWrite DEF IInv, LockOK, Writing, TypeOK
<1>4. ASSUME NEW i \in 0 .. n
      PROVE  cells'[a][Index(Layouts, r, i)] = r.data[i]
  <2>1. DOMAIN cells = Areas /\ DOMAIN cells[a] = Room(a)
    BY <1>2 DEF IInv, TypeOK
  <2>2. i \in 0 .. (r.count - 1) /\ n \in 0 .. (r.count - 1)
    BY <1>1, <1>2
  <2>3. CASE i = n
    BY <1>1, <1>2, <2>1, <2>2, <2>3
  <2>4. CASE i # n
    <3>1. Index(Layouts, r, i) # Index(Layouts, r, n)
      BY <1>2, <2>2, <2>4
    <3>2. i \in 0 .. (n - 1)
      BY <1>2, <2>4
    <3>3. cells[a][Index(Layouts, r, i)] = r.data[i]
      BY <1>1, <3>2 DEF BufOK, BufAt, Writing
    <3>4. QED
      BY <1>1, <1>2, <2>1, <2>2, <3>1, <3>3
  <2>5. QED
    BY <2>3, <2>4
<1>5. idx'[t] - 1 = n
  BY <1>1, <1>2 DEF IInv, TypeOK
<1>6. IsWrite(r) => ~ IsRead(r)
  BY <1>2, ReadOrWrite
<1>7. ASSUME NEW u \in Callers
      PROVE  /\ pc'[u] \notin {"copy", "done"} \/ IsWrite(req'[u]) => buf'[u] = <<>>
             /\ pc'[u] = "copy" /\ IsRead(req'[u]) => FALSE
             /\ Writing(u)' => u = t
  BY <1>1, <1>3, <1>6 DEF BufOK, BufAt, Writing
<1> HIDE DEF a, r, n
<1>8. ASSUME NEW u \in Callers, Writing(u)', NEW i \in 0 .. (idx'[u] - 1)
      PROVE  cells'[req'[u].area][Index(Layouts, req'[u], i)] = req'[u].data[i]
  BY <1>1, <1>4, <1>5, <1>7, <1>8 DEF a, r
<1>9. DOMAIN buf' = Callers
  BY <1>1 DEF BufOK, BufAt
<1>10. QED
  BY <1>7, <1>8, <1>9 DEF BufOK, BufAt

(* Nobody writes while somebody reads.                                     *)
LEMMA CopyOutBufOK ==
  ASSUME NoWrap, IInv, BufOK, NEW t \in Callers, CopyOut(t)
  PROVE  BufOK'
<1> DEFINE a == req[t].area
           r == req[t]
           n == idx[t]
           g == [i \in 0 .. n |-> IF i = n THEN cells[a][Index(Layouts, r, i)]
                                           ELSE buf[t][i]]
<1>1. /\ pc[t] = "copy" /\ IsRead(r)
      /\ buf' = [buf EXCEPT ![t] = g]
      /\ idx' = [idx EXCEPT ![t] = n + 1] /\ UNCHANGED <<pc, req, cells>>
  BY DEF CopyOut
<1>2. n \in Nat /\ r \in Requests
  BY <1>1, Places
<1>3. g = [i \in 0 .. n |-> cells[a][Index(Layouts, r, i)]]
  <2>1. ASSUME NEW i \in 0 .. n, i # n
        PROVE  buf[t][i] = cells[a][Index(Layouts, r, i)]
    <3>1. n # 0 /\ i \in 0 .. (n - 1)
      BY <1>2, <2>1
    <3>2. buf[t] = [k \in 0 .. (n - 1) |-> cells[a][Index(Layouts, r, k)]]
      BY <1>1, <3>1 DEF BufOK, BufAt
    <3>3. QED
      BY <3>1, <3>2
  <2>2. QED
    BY <2>1
<1>4. ASSUME NEW u \in Callers
      PROVE  ~ Writing(u)' /\ (u # t => idx'[u] = idx[u])
  BY <1>1 DEF IInv, LockOK, Writing, TypeOK
<1>5. idx'[t] = n + 1 /\ idx'[t] - 1 = n
  BY <1>1, <1>2 DEF IInv, TypeOK
<1>6. ~ IsWrite(r)
  BY <1>1, <1>2, ReadOrWrite
<1>7. /\ buf'[t] = g /\ DOMAIN buf' = Callers
      /\ \A u \in Callers : u # t => buf'[u] = buf[u]
  BY <1>1 DEF BufOK, BufAt
<1> HIDE DEF g
<1>8. ASSUME NEW u \in Callers,
             pc'[u] \notin {"copy", "done"} \/ IsWrite(req'[u])
      PROVE  u # t /\ buf[u] = <<>>
  BY <1>1, <1>6, <1>8 DEF BufOK, BufAt
<1>9. ASSUME NEW u \in Callers, pc'[u] = "copy", IsRead(req'[u]), idx'[u] # 0
      PROVE  buf'[u] = [i \in 0 .. (idx'[u] - 1) |->
                          cells'[req'[u].area][Index(Layouts, req'[u], i)]]
  <2>1. CASE u = t
    BY <1>1, <1>3, <1>5, <1>7, <2>1
  <2>2. CASE u # t
    BY <1>1, <1>4, <1>7, <1>9, <2>2 DEF BufOK, BufAt
  <2>3. QED
    BY <2>1, <2>2
<1>10. QED
  BY <1>4, <1>7, <1>8, <1>9 DEF BufOK, BufAt

LEMMA BufStays ==
  ASSUME BufOK, NEW u \in Callers, cells' = cells, pc'[u] = pc[u],
         req'[u] = req[u], idx'[u] = idx[u], buf'[u] = buf[u]
  PROVE  BufAt(u)'
<1>1. BufAt(u)
  BY DEF BufOK
<1>2. QED
  BY <1>1 DEF BufAt, Writing

LEMMA StepBufOK ==
  ASSUME NoWrap, IInv, BufOK, [Next]_vars
  PROVE  BufOK'
<1> USE DEF Goto, mutex
<1>0. /\ pc \in [Callers -> PCs] /\ req \in [Callers -> Requests]
      /\ idx \in [Callers -> Nat] /\ DOMAIN buf = Callers
  BY DEF IInv, TypeOK, BufOK
<1>1. ASSUME NEW t \in Callers, Call(t)
      PROVE  BufOK'
  <2>1. /\ pc'[t] = "check" /\ buf'[t] = <<>>
        /\ \A u \in Callers \ {t} : pc'[u] = pc[u] /\ req'[u] = req[u]
        /\ UNCHANGED <<cells, idx, buf>>
    BY <1>0, <1>1 DEF Call, BufOK, BufAt
  <2>2. BufAt(t)'
    BY <2>1 DEF BufAt, Writing
  <2>3. QED
    BY <1>0, <2>1, <2>2, BufStays DEF BufOK
<1>2. ASSUME NEW t \in Callers, Refuse(t) \/ Admit(t) \/ Announce(t)
      PROVE  BufOK'
  <2>1. /\ pc'[t] \in {"done", "lock", "drain"} /\ buf'[t] = <<>>
        /\ \A u \in Callers \ {t} : pc'[u] = pc[u]
        /\ UNCHANGED <<cells, req, idx, buf>>
    BY <1>0, <1>2 DEF Refuse, Admit, Announce, BufOK, BufAt
  <2>2. BufAt(t)'
    BY <2>1 DEF BufAt, Writing
  <2>3. QED
    BY <1>0, <2>1, <2>2, BufStays DEF BufOK
<1>3. ASSUME NEW t \in Callers, RLock(t)
      PROVE  BufOK'
  <2>1. /\ pc'[t] \in {"copy", "parked"} /\ ~ IsWrite(req[t])
        /\ idx[t] = 0 /\ buf[t] = <<>>
        /\ \A u \in Callers \ {t} : pc'[u] = pc[u]
        /\ UNCHANGED <<cells, req, idx, buf>>
    BY <1>0, <1>3, ReadOrWrite DEF RLock, IInv, CursorOK, BufOK, BufAt
  <2>2. BufAt(t)'
    BY <2>1 DEF BufAt, Writing
  <2>3. QED
    BY <1>0, <2>1, <2>2, BufStays DEF BufOK
<1>4. ASSUME NEW t \in Callers, Enter(t)
      PROVE  BufOK'
  <2>1. /\ pc'[t] = "copy" /\ ~ IsRead(req[t]) /\ idx[t] = 0 /\ buf[t] = <<>>
        /\ \A u \in Callers \ {t} : pc'[u] = pc[u]
        /\ UNCHANGED <<cells, req, idx, buf>>
    BY <1>0, <1>4, ReadOrWrite DEF Enter, IInv, CursorOK, LockOK, BufOK, BufAt
  <2>2. BufAt(t)'
    BY <2>1 DEF BufAt, Writing
  <2>3. QED
    BY <1>0, <2>1, <2>2, BufStays DEF BufOK
<1>5. ASSUME NEW t \in Callers, RUnlock(t)
      PROVE  BufOK'
  <2>1. /\ pc'[t] = "done" /\ ~ IsWrite(req[t])
        /\ \A u \in Callers \ {t} : pc'[u] = pc[u]
        /\ UNCHANGED <<cells, req, idx, buf>>
    BY <1>0, <1>5, ReadOrWrite DEF RUnlock
  <2>2. BufAt(t)'
    BY <2>1 DEF BufAt, Writing
  <2>3. QED
    BY <1>0, <2>1, <2>2, BufStays DEF BufOK
<1>6. ASSUME NEW t \in Callers, Unlock(t)
      PROVE  BufOK'
  <2>1. /\ pc'[t] = "done" /\ buf[t] = <<>>
        /\ \A u \in Callers \ {t} :
             pc'[u] = IF u \in parked THEN "copy" ELSE pc[u]
        /\ UNCHANGED <<cells, req, idx, buf>>
    BY <1>0, <1>6 DEF Unlock, BufOK, BufAt
  <2>2. BufAt(t)'
    BY <2>1 DEF BufAt, Writing
  <2>3. ASSUME NEW u \in Callers \ {t}, u \in parked
        PROVE  BufAt(u)'
    <3>1. pc[u] = "parked" /\ idx[u] = 0 /\ ~ IsWrite(req[u])
      BY <1>0, <2>3, ReadOrWrite DEF IInv, LockOK, CursorOK
    <3>2. pc'[u] = "copy"
      BY <2>1, <2>3
    <3>3. QED
      BY <2>1, <3>1, <3>2 DEF BufAt, Writing
  <2>4. ASSUME NEW u \in Callers \ {t}, u \notin parked
        PROVE  BufAt(u)'
    BY <2>1, <2>4, BufStays
  <2>5. QED
    BY <1>0, <2>1, <2>2, <2>3, <2>4 DEF BufOK
<1>7. ASSUME NEW t \in Callers, Return(t)
      PROVE  BufOK'
  <2>1. /\ pc'[t] = "idle" /\ buf'[t] = <<>> /\ DOMAIN buf' = Callers
        /\ \A u \in Callers \ {t} :
             pc'[u] = pc[u] /\ idx'[u] = idx[u] /\ buf'[u] = buf[u]
        /\ UNCHANGED <<cells, req>>
    BY <1>0, <1>7 DEF Return
  <2>2. BufAt(t)'
    BY <2>1 DEF BufAt, Writing
  <2>3. QED
    BY <2>1, <2>2, BufStays DEF BufOK
<1>8. CASE UNCHANGED vars
  BY <1>0, <1>8, BufStays DEF vars, BufOK
<1>9. QED
  BY <1>1, <1>2, <1>3, <1>4, <1>5, <1>6, <1>7, <1>8, CopyInBufOK, CopyOutBufOK
     DEF Next

LEMMA StepRInv ==
  ASSUME NoWrap, RInv, [Next]_vars
  PROVE  RInv'
BY StepIInv, StepDoneOK, StepBufOK DEF RInv
-----------------------------------------------------------------------------
(* The abstract memory, seen from a state with the writer's data laid over *)
(* it.                                                                     *)
Overlaid == writer # NoCaller /\ Writing(writer)

LEMMA ContentStays ==
  ASSUME cells' = cells, Overlaid' <=> Overlaid,
         Overlaid => writer' = writer /\ req'[writer] = req[writer]
  PROVE  AbsContent' = AbsContent
<1>1. ASSUME NEW a \in Areas, NEW x \in Addresses[a]
      PROVE  (IF writer # NoCaller /\ Covers(writer, a, x)
              THEN req[writer].data[x - req[writer].address]
              ELSE Stored(a, x))'
             = (IF writer # NoCaller /\ Covers(writer, a, x)
                THEN req[writer].data[x - req[writer].address]
                ELSE Stored(a, x))
  BY DEF Overlaid, Covers, Stored
<1>2. QED
  BY <1>1 DEF AbsContent

(* The steps of the other goroutines do not show.                          *)
LEMMA SeenStays ==
  ASSUME NEW u \in Callers, pc'[u] = pc[u], req'[u] = req[u],
         buf'[u] = buf[u], err'[u] = err[u]
  PROVE  AbsStatus'[u] = AbsStatus[u] /\ AbsReply'[u] = AbsReply[u]
BY DEF AbsStatus, AbsReply, Writing

(* A step of t alone: status and reply change at t.                        *)
LEMMA SeenAt ==
  ASSUME NEW t \in Callers, NEW s, NEW y, AbsStatus'[t] = s, AbsReply'[t] = y,
         \A u \in Callers \ {t} : /\ AbsStatus'[u] = AbsStatus[u]
                                  /\ AbsReply'[u] = AbsReply[u]
  PROVE  /\ AbsStatus' = [AbsStatus EXCEPT ![t] = s]
         /\ AbsReply' = [AbsReply EXCEPT ![t] = y]
<1>1. /\ AbsStatus = [u \in Callers |-> AbsStatus[u]]
      /\ AbsStatus' = [u \in Callers |-> AbsStatus'[u]]
      /\ AbsReply = [u \in Callers |-> AbsReply[u]]
      /\ AbsReply' = [u \in Callers |-> AbsReply'[u]]
  BY DEF AbsStatus, AbsReply
<1> QED
  BY <1>1

LEMMA SameSeen ==
  ASSUME \A u \in Callers : /\ AbsStatus'[u] = AbsStatus[u]
                            /\ AbsReply'[u] = AbsReply[u]
  PROVE  AbsStatus' = AbsStatus /\ AbsReply' = AbsReply
<1>1. /\ AbsStatus = [u \in Callers |-> AbsStatus[u]]
      /\ AbsStatus' = [u \in Callers |-> AbsStatus'[u]]
      /\ AbsReply = [u \in Callers |-> AbsReply[u]]
      /\ AbsReply' = [u \in Callers |-> AbsReply'[u]]
  BY DEF AbsStatus, AbsReply
<1> QED
  BY <1>1

LEMMA CallMaps ==
  ASSUME RInv, NEW t \in Callers, Call(t)
  PROVE  Abstract!Call(t)
<1>0. /\ pc \in [Callers -> PCs] /\ req \in [Callers -> Requests]
      /\ err \in [Callers -> BOOLEAN] /\ DOMAIN buf = Callers
  BY DEF RInv, IInv, TypeOK, BufOK, BufAt
<1>1. /\ pc[t] = "idle" /\ pc'[t] = "check"
      /\ \A u \in Callers \ {t} : pc'[u] = pc[u] /\ req'[u] = req[u]
      /\ UNCHANGED <<cells, buf, err, writer>>
  BY <1>0 DEF Call, Goto, mutex
<1>2. AbsContent' = AbsContent
  <2>1. writer # t
    BY <1>1 DEF RInv, IInv, LockOK, Writing
  <2>2. writer \in Callers \cup {NoCaller}
    BY DEF RInv, IInv, TypeOK
  <2>3. QED
    BY <1>1, <2>1, <2>2, ContentStays DEF Overlaid, Writing
<1>3. /\ AbsStatus[t] = "idle" /\ AbsStatus'[t] = "pending"
      /\ AbsReply'[t] = AbsReply[t]
  BY <1>1 DEF AbsStatus, AbsReply, Writing
<1>4. \A u \in Callers \ {t} : /\ AbsStatus'[u] = AbsStatus[u]
                               /\ AbsReply'[u] = AbsReply[u]
  BY <1>1, SeenStays
<1>5. /\ AbsStatus' = [AbsStatus EXCEPT ![t] = "pending"]
      /\ AbsReply' = [AbsReply EXCEPT ![t] = AbsReply[t]]
  BY <1>3, <1>4, SeenAt
<1>6. AbsReply' = AbsReply
  BY <1>5 DEF AbsReply
<1>7. \E r \in Requests : req' = [req EXCEPT ![t] = r]
  BY DEF Call
<1>8. QED
  BY <1>2, <1>3, <1>5, <1>6, <1>7 DEF Abstract!Call

LEMMA RefuseMaps ==
  ASSUME NoWrap, RInv, NEW t \in Callers, Refuse(t)
  PROVE  Abstract!Refuse(t)
<1>0. /\ pc \in [Callers -> PCs] /\ req \in [Callers -> Requests]
      /\ err \in [Callers -> BOOLEAN]
  BY DEF RInv, IInv, TypeOK
<1>1. /\ pc[t] = "check" /\ pc'[t] = "done" /\ err'[t] = TRUE
      /\ \A u \in Callers \ {t} : pc'[u] = pc[u] /\ err'[u] = err[u]
      /\ UNCHANGED <<cells, buf, req, writer>>
  BY <1>0 DEF Refuse, Goto, mutex
<1>2. AbsContent' = AbsContent
  BY <1>1, ContentStays DEF Overlaid, Writing, RInv, IInv, LockOK, TypeOK
<1>3. AbsStatus[t] = "pending" /\ AbsStatus'[t] = "done"
  BY <1>1 DEF AbsStatus, Writing
<1>4. AbsReply'[t] = Abstract!Failure
  BY <1>1 DEF AbsReply, Writing, Abstract!Failure
<1>5. \A u \in Callers \ {t} : /\ AbsStatus'[u] = AbsStatus[u]
                               /\ AbsReply'[u] = AbsReply[u]
  BY <1>1, SeenStays
<1>6. /\ AbsStatus' = [AbsStatus EXCEPT ![t] = "done"]
      /\ AbsReply' = [AbsReply EXCEPT ![t] = Abstract!Failure]
  BY <1>3, <1>4, <1>5, SeenAt
<1>7. ~ Abstract!InBounds(req[t])
  BY <1>0, ChecksAgree DEF Refuse
<1>8. QED
  BY <1>1, <1>2, <1>3, <1>6, <1>7 DEF Abstract!Refuse, Abstract!Finish

LEMMA ReturnMaps ==
  ASSUME RInv, NEW t \in Callers, Return(t)
  PROVE  Abstract!Return(t)
<1>0. /\ pc \in [Callers -> PCs] /\ err \in [Callers -> BOOLEAN]
      /\ DOMAIN buf = Callers
  BY DEF RInv, IInv, TypeOK, BufOK, BufAt
<1>1. /\ pc[t] = "done" /\ pc'[t] = "idle"
      /\ \A u \in Callers \ {t} :
           pc'[u] = pc[u] /\ err'[u] = err[u] /\ buf'[u] = buf[u]
      /\ UNCHANGED <<cells, req, writer>>
  BY <1>0 DEF Return, Goto, mutex
<1>2. AbsContent' = AbsContent
  BY <1>1, ContentStays DEF Overlaid, Writing, RInv, IInv, LockOK, TypeOK
<1>3. AbsStatus[t] = "done" /\ AbsStatus'[t] = "idle"
  BY <1>1 DEF AbsStatus, Writing
<1>4. AbsReply'[t] = Abstract!Failure
  BY <1>1 DEF AbsReply, Writing, Abstract!Failure
<1>5. \A u \in Callers \ {t} : /\ AbsStatus'[u] = AbsStatus[u]
                               /\ AbsReply'[u] = AbsReply[u]
  BY <1>1, SeenStays
<1>6. /\ AbsStatus' = [AbsStatus EXCEPT ![t] = "idle"]
      /\ AbsReply' = [AbsReply EXCEPT ![t] = Abstract!Failure]
  BY <1>3, <1>4, <1>5, SeenAt
<1>7. QED
  BY <1>1, <1>2, <1>3, <1>6 DEF Abstract!Return

(* On the way to the lock, and while a read copies, nothing shows.         *)
LEMMA WaitingShowsNothing ==
  ASSUME RInv, NEW t \in Callers, Admit(t) \/ RLock(t) \/ Announce(t)
  PROVE  UNCHANGED <<AbsContent, AbsStatus, req, AbsReply>>
<1>0. pc \in [Callers -> PCs] /\ req \in [Callers -> Requests]
  BY DEF RInv, IInv, TypeOK
<1>1. /\ pc[t] \in {"check", "lock"}
      /\ pc'[t] \in {"lock", "copy", "parked", "drain"}
      /\ pc'[t] = "copy" => ~ IsWrite(req[t])
      /\ \A u \in Callers \ {t} : pc'[u] = pc[u]
      /\ writer' = writer \/ (writer = NoCaller /\ writer' = t /\ pc'[t] = "drain")
      /\ UNCHANGED <<cells, buf, err, req>>
  BY <1>0, ReadOrWrite DEF Admit, RLock, Announce, Goto, mutex
<1>2. AbsContent' = AbsContent
  <2>1. writer # t /\ writer \in Callers \cup {NoCaller}
    BY <1>1 DEF RInv, IInv, LockOK, TypeOK, Writing
  <2>2. QED
    BY <1>1, <2>1, CallerAssumption, ContentStays DEF Overlaid, Writing
<1>3. /\ AbsStatus'[t] = AbsStatus[t] /\ AbsReply'[t] = AbsReply[t]
  BY <1>1 DEF AbsStatus, AbsReply, Writing
<1>4. \A u \in Callers : /\ AbsStatus'[u] = AbsStatus[u]
                         /\ AbsReply'[u] = AbsReply[u]
  BY <1>1, <1>3, SeenStays
<1>5. QED
  BY <1>1, <1>2, <1>4, SameSeen

LEMMA CopyOutShowsNothing ==
  ASSUME RInv, NEW t \in Callers, CopyOut(t)
  PROVE  UNCHANGED <<AbsContent, AbsStatus, req, AbsReply>>
<1>0. req \in [Callers -> Requests] /\ DOMAIN buf = Callers
  BY DEF RInv, IInv, TypeOK, BufOK, BufAt
<1>1. /\ pc[t] = "copy" /\ ~ IsWrite(req[t])
      /\ \A u \in Callers \ {t} : buf'[u] = buf[u]
      /\ UNCHANGED <<cells, pc, req, err, writer>>
  BY <1>0, ReadOrWrite DEF CopyOut, mutex
<1>2. AbsContent' = AbsContent
  BY <1>1, ContentStays DEF Overlaid, Writing
<1>3. AbsStatus'[t] = AbsStatus[t] /\ AbsReply'[t] = AbsReply[t]
  BY <1>1 DEF AbsStatus, AbsReply, Writing
<1>4. \A u \in Callers : /\ AbsStatus'[u] = AbsStatus[u]
                         /\ AbsReply'[u] = AbsReply[u]
  BY <1>1, <1>3, SeenStays
<1>5. QED
  BY <1>1, <1>2, <1>4, SameSeen
-----------------------------------------------------------------------------
(* A write happens when it gets the lock: all of its data at once.         *)
LEMMA EnterMaps ==
  ASSUME NoWrap, RInv, NEW t \in Callers, Enter(t)
  PROVE  Abstract!Write(t)
<1> DEFINE r == req[t]
<1>0. /\ pc \in [Callers -> PCs] /\ r \in Requests
  BY DEF RInv, IInv, TypeOK
<1>1. /\ pc[t] = "drain" /\ pc'[t] = "copy" /\ IsWrite(r) /\ writer = t
      /\ ~ Writing(t) /\ Writing(t)' /\ t # NoCaller
      /\ \A u \in Callers \ {t} : pc'[u] = pc[u]
      /\ UNCHANGED <<cells, req, buf, err, writer>>
  BY <1>0, CallerAssumption DEF Enter, Goto, mutex, RInv, IInv, LockOK, Writing
<1>2. r.area \in Areas /\ r.address \in Nat /\ r.count \in Nat
  BY <1>0, Fields
<1>3. ASSUME NEW a \in Areas, NEW x \in Addresses[a]
      PROVE  AbsContent[a][x] = Stored(a, x)
             /\ AbsContent'[a][x] = IF a = r.area /\ x \in Abstract!Touched(r)
                                    THEN r.data[x - r.address] ELSE Stored(a, x)
  <2>1. Stored(a, x)' = Stored(a, x)
    BY <1>1 DEF Stored
  <2>2. ~ Covers(t, a, x)
        /\ (Covers(t, a, x)' <=> a = r.area /\ x \in Abstract!Touched(r))
    BY <1>1 DEF Covers, Abstract!Touched
  <2>3. QED
    BY <1>1, <2>1, <2>2 DEF AbsContent
<1>4. /\ DOMAIN AbsContent = Areas /\ DOMAIN AbsContent' = Areas
      /\ \A a \in Areas : /\ AbsContent[a] = [x \in Addresses[a] |-> AbsContent[a][x]]
                          /\ AbsContent'[a] = [x \in Addresses[a] |-> AbsContent'[a][x]]
      /\ AbsContent = [a \in Areas |-> AbsContent[a]]
      /\ AbsContent' = [a \in Areas |-> AbsContent'[a]]
  BY DEF AbsContent
<1>5. ASSUME NEW a \in Areas
      PROVE  AbsContent'[a] =
               IF a = r.area
               THEN [x \in DOMAIN AbsContent[a] |->
                       IF x \in Abstract!Touched(r) THEN r.data[x - r.address]
                                                    ELSE AbsContent[a][x]]
               ELSE AbsContent[a]
  <2>1. DOMAIN AbsContent[a] = Addresses[a]
    BY <1>4
  <2>2. CASE a = r.area
    BY <1>3, <1>4, <2>1, <2>2
  <2>3. CASE a # r.area
    BY <1>3, <1>4, <2>3
  <2>4. QED
    BY <2>2, <2>3
<1>6. AbsContent' = Abstract!Updated(r)
  BY <1>2, <1>4, <1>5 DEF Abstract!Updated
<1>7. /\ AbsStatus[t] = "pending" /\ AbsStatus'[t] = "done"
      /\ AbsReply'[t] = Abstract!Success(<<>>)
  BY <1>1 DEF AbsStatus, AbsReply, Writing, Abstract!Success
<1>8. \A u \in Callers \ {t} : /\ AbsStatus'[u] = AbsStatus[u]
                               /\ AbsReply'[u] = AbsReply[u]
  BY <1>1, SeenStays
<1>9. /\ AbsStatus' = [AbsStatus EXCEPT ![t] = "done"]
      /\ AbsReply' = [AbsReply EXCEPT ![t] = Abstract!Success(<<>>)]
  BY <1>7, <1>8, SeenAt
<1>10. Abstract!InBounds(r)
  BY <1>0, <1>1, ChecksAgree DEF RInv, IInv, CheckedOK, Past
<1>11. r.fn \in {"WriteBits", "WriteRegs"}
  BY <1>1 DEF IsWrite, WriteCalls
<1>12. QED
  BY <1>1, <1>6, <1>7, <1>9, <1>10, <1>11 DEF Abstract!Write, Abstract!Finish

(* Each element it then stores is one already laid over the slices ...     *)
LEMMA CopyInShowsNothing ==
  ASSUME NoWrap, RInv, NEW t \in Callers, CopyIn(t)
  PROVE  UNCHANGED <<AbsContent, AbsStatus, req, AbsReply>>
<1> DEFINE r == req[t]
           n == idx[t]
<1>1. /\ pc[t] = "copy" /\ IsWrite(r) /\ n < r.count
      /\ cells' = [cells EXCEPT ![r.area][Index(Layouts, r, n)] = r.data[n]]
      /\ UNCHANGED <<pc, req, buf, err, writer>>
  BY DEF CopyIn, LoopGoesOn, mutex
<1>2. /\ r.area \in Areas /\ n \in Nat /\ r.count \in Nat /\ r.address \in Nat
      /\ Layouts[r.area].start \in Nat
      /\ Index(Layouts, r, n) = r.address - Layouts[r.area].start + n
  <2>1. /\ r.area \in Areas /\ n \in Nat /\ r.count \in Nat /\ r.address \in Nat
        /\ \A i \in 0 .. (r.count - 1) :
             Index(Layouts, r, i) = r.address - Layouts[r.area].start + i
    BY <1>1, Places DEF RInv
  <2>2. n \in 0 .. (r.count - 1)
    BY <1>1, <2>1
  <2>3. QED
    BY <2>1, <2>2, LayoutFields
<1>3. writer = t /\ t # NoCaller
  BY <1>1, CallerAssumption DEF RInv, IInv, LockOK, Writing
<1>4. ASSUME NEW a \in Areas, NEW x \in Addresses[a], ~ Covers(t, a, x)
      PROVE  Stored(a, x)' = Stored(a, x)
  <2>1. CASE a # r.area
    BY <1>1, <2>1 DEF Stored, RInv, IInv, TypeOK
  <2>2. CASE a = r.area
    <3>1. x \notin r.address .. (r.address + r.count - 1)
      BY <1>1, <1>4, <2>2 DEF Covers, Writing
    <3>2. x \in Int
      BY <1>2, <2>2, LayoutFields DEF Addresses
    <3>3. x - Layouts[r.area].start # Index(Layouts, r, n)
      BY <1>1, <1>2, <3>1, <3>2
    <3>4. QED
      BY <1>1, <2>2, <3>3 DEF Stored, RInv, IInv, TypeOK
  <2>3. QED
    BY <2>1, <2>2
<1>5. \A a, x : Covers(t, a, x)' <=> Covers(t, a, x)
  BY <1>1 DEF Covers, Writing
<1>6. AbsContent' = AbsContent
  BY <1>1, <1>3, <1>4, <1>5 DEF AbsContent
<1>7. AbsStatus' = AbsStatus /\ AbsReply' = AbsReply
  BY <1>1, SeenStays, SameSeen
<1>8. QED
  BY <1>1, <1>6, <1>7

(* ... and giving up the lock lays nothing bare: all of it is stored.      *)
LEMMA UnlockShowsNothing ==
  ASSUME NoWrap, RInv, NEW t \in Callers, Unlock(t)
  PROVE  UNCHANGED <<AbsContent, AbsStatus, req, AbsReply>>
<1> DEFINE r == req[t]
<1>0. /\ pc \in [Callers -> PCs] /\ req \in [Callers -> Requests]
  BY DEF RInv, IInv, TypeOK
<1>1. /\ pc[t] = "copy" /\ IsWrite(r) /\ writer = t /\ t # NoCaller
      /\ writer' = NoCaller /\ pc'[t] = "done"
      /\ ~ LoopGoesOn(Layouts, r, idx[t])
      /\ UNCHANGED <<cells, req, idx, buf, err>>
  BY CallerAssumption DEF Unlock, RInv, IInv, LockOK, Writing
<1>2. /\ r \in Requests /\ r.area \in Areas /\ r.count \in Nat /\ r.address \in Nat
      /\ Layouts[r.area].start \in Nat /\ idx[t] = r.count
      /\ \A i \in 0 .. (r.count - 1) :
           Index(Layouts, r, i) = r.address - Layouts[r.area].start + i
  <2>1. /\ r \in Requests /\ r.area \in Areas /\ r.count \in Nat /\ r.address \in Nat
        /\ idx[t] \in Nat /\ Accepted(Layouts, r)
        /\ \A i \in 0 .. (r.count - 1) :
             Index(Layouts, r, i) = r.address - Layouts[r.area].start + i
    BY <1>1, Places DEF RInv
  <2>2. idx[t] <= r.count
    BY DEF RInv, IInv, TypeOK
  <2>3. idx[t] = r.count
    BY <1>1, <2>1, <2>2, LoopEnds
  <2>4. QED
    BY <2>1, <2>3, LayoutFields
<1>3. ASSUME NEW a \in Areas, NEW x \in Addresses[a], Covers(t, a, x)
      PROVE  r.data[x - r.address] = Stored(a, x)
  <2> DEFINE i == x - r.address
  <2>1. a = r.area /\ i \in 0 .. (r.count - 1)
        /\ x - Layouts[r.area].start = r.address - Layouts[r.area].start + i
    BY <1>2, <1>3 DEF Covers
  <2>2. cells[r.area][Index(Layouts, r, i)] = r.data[i]
    BY <1>1, <1>2, <2>1 DEF RInv, BufOK, BufAt, Writing
  <2>3. Index(Layouts, r, i) = x - Layouts[r.area].start
    BY <1>2, <2>1
  <2> HIDE DEF i
  <2>4. QED
    BY <2>1, <2>2, <2>3 DEF Stored, i
<1>4. \A a, x : Stored(a, x)' = Stored(a, x)
  BY <1>1 DEF Stored
<1>5. AbsContent' = AbsContent
  BY <1>1, <1>3, <1>4 DEF AbsContent
<1>6. ASSUME NEW u \in Callers
      PROVE  AbsStatus'[u] = AbsStatus[u] /\ AbsReply'[u] = AbsReply[u]
  <2>1. CASE u = t
    BY <1>1, <2>1 DEF AbsStatus, AbsReply, Writing, RInv, IInv, CursorOK, BufOK, BufAt
  <2>2. CASE u # t /\ u \in parked
    <3>1. pc[u] = "parked" /\ pc'[u] = "copy" /\ ~ IsWrite(req[u])
      BY <1>0, <2>2, ReadOrWrite DEF Unlock, RInv, IInv, LockOK
    <3>2. QED
      BY <1>1, <3>1 DEF AbsStatus, AbsReply, Writing
  <2>3. CASE u # t /\ u \notin parked
    <3>1. pc'[u] = pc[u]
      BY <2>3 DEF Unlock
    <3>2. QED
      BY <1>1, <3>1, SeenStays
  <2>4. QED
    BY <2>1, <2>2, <2>3
<1>7. QED
  BY <1>1, <1>5, <1>6, SameSeen

(* A read happens when it gives the lock back: nobody has written since it *)
(* was given it.                                                           *)
LEMMA RUnlockMaps ==
  ASSUME NoWrap, RInv, NEW t \in Callers, RUnlock(t)
  PROVE  Abstract!Read(t)
<1> DEFINE r == req[t]
<1>0. /\ pc \in [Callers -> PCs] /\ r \in Requests
  BY DEF RInv, IInv, TypeOK
<1>1. /\ pc[t] = "copy" /\ pc'[t] = "done" /\ IsRead(r) /\ ~ IsWrite(r)
      /\ ~ LoopGoesOn(Layouts, r, idx[t]) /\ ~ err[t]
      /\ \A u \in Callers \ {t} : pc'[u] = pc[u]
      /\ UNCHANGED <<cells, req, buf, err, writer>>
  BY <1>0, ReadOrWrite DEF RUnlock, Goto, RInv, IInv, CursorOK
<1>2. ~ Overlaid
  <2>1. t \in readers
    BY <1>1 DEF RInv, IInv, LockOK
  <2>2. \A u \in Callers : ~ Writing(u)
    BY <2>1 DEF RInv, IInv, LockOK
  <2>3. QED
    BY <2>2 DEF Overlaid, RInv, IInv, TypeOK
<1>3. AbsContent' = AbsContent
  <2>1. ~ Overlaid'
    BY <1>1, <1>2 DEF Overlaid, Writing, RInv, IInv, TypeOK
  <2>2. QED
    BY <1>1, <1>2, <2>1, ContentStays
<1>4. /\ r.area \in Areas /\ r.count \in Nat /\ r.address \in Nat
      /\ Layouts[r.area].start \in Nat /\ idx[t] = r.count /\ r.count # 0
      /\ Accepted(Layouts, r) /\ Abstract!InBounds(r)
      /\ \A i \in 0 .. (r.count - 1) :
           Index(Layouts, r, i) = r.address - Layouts[r.area].start + i
  <2>1. /\ r.area \in Areas /\ r.count \in Nat /\ r.address \in Nat
        /\ idx[t] \in Nat /\ Accepted(Layouts, r)
        /\ \A i \in 0 .. (r.count - 1) :
             Index(Layouts, r, i) = r.address - Layouts[r.area].start + i
    BY <1>1, Places DEF RInv
  <2>2. idx[t] <= r.count
    BY DEF RInv, IInv, TypeOK
  <2>3. idx[t] = r.count
    BY <1>0, <1>1, <2>1, <2>2, LoopEnds
  <2>4. r.count # 0 /\ Abstract!InBounds(r)
    BY <1>0, <2>1, ChecksAgree DEF Accepted
  <2>5. QED
    BY <2>1, <2>3, <2>4, LayoutFields
<1>5. ASSUME NEW i \in 0 .. (r.count - 1)
      PROVE  AbsContent[r.area][r.address + i] = cells[r.area][Index(Layouts, r, i)]
  <2>1. r.address + i \in Abstract!Touched(r)
    BY <1>4 DEF Abstract!Touched
  <2>2. r.address + i \in Addresses[r.area]
    BY <1>4, <2>1 DEF Abstract!InBounds
  <2>3. AbsContent[r.area][r.address + i] = Stored(r.area, r.address + i)
    BY <1>2, <1>4, <2>2 DEF AbsContent, Overlaid, Covers
  <2>4. (r.address + i) - Layouts[r.area].start = Index(Layouts, r, i)
    BY <1>4
  <2>5. QED
    BY <2>3, <2>4 DEF Stored
<1>6. buf[t] = [i \in 0 .. (r.count - 1) |-> cells[r.area][Index(Layouts, r, i)]]
  BY <1>1, <1>4 DEF RInv, BufOK, BufAt
<1>7. buf[t] = Abstract!Snapshot(r)
  BY <1>5, <1>6 DEF Abstract!Snapshot
<1>8. /\ AbsStatus[t] = "pending" /\ AbsStatus'[t] = "done"
      /\ AbsReply'[t] = Abstract!Success(Abstract!Snapshot(r))
  BY <1>1, <1>7 DEF AbsStatus, AbsReply, Writing, Abstract!Success
<1>9. \A u \in Callers \ {t} : /\ AbsStatus'[u] = AbsStatus[u]
                               /\ AbsReply'[u] = AbsReply[u]
  BY <1>1, SeenStays
<1>10. /\ AbsStatus' = [AbsStatus EXCEPT ![t] = "done"]
       /\ AbsReply' = [AbsReply EXCEPT ![t] = Abstract!Success(Abstract!Snapshot(r))]
  BY <1>8, <1>9, SeenAt
<1>11. r.fn \in {"ReadBits", "ReadRegs"}
  BY <1>1 DEF IsRead, ReadCalls
<1>12. QED
  BY <1>1, <1>3, <1>4, <1>8, <1>10, <1>11 DEF Abstract!Read, Abstract!Finish
-----------------------------------------------------------------------------
LEMMA InitMaps == NoWrap /\ Init => Abstract!Init
<1> SUFFICES ASSUME NoWrap, Init
             PROVE  Abstract!Init
  OBVIOUS
<1>1. ASSUME NEW a \in Areas, NEW x \in Addresses[a]
      PROVE  Stored(a, x) = Zero
  <2>1. /\ Layouts[a].start \in Nat /\ Layouts[a].size \in Nat
        /\ Capacity(a, Layouts[a]) \in Nat
        /\ Layouts[a].size <= Capacity(a, Layouts[a])
    BY LayoutFields, RoomForLayout
  <2>2. x \in Layouts[a].start .. (Layouts[a].start + Layouts[a].size - 1)
    BY DEF Addresses
  <2>3. x - Layouts[a].start \in Room(a)
    BY <2>1, <2>2 DEF Room
  <2>4. QED
    BY <2>3 DEF Stored, Init
<1>2. AbsContent = [a \in Areas |-> [x \in Addresses[a] |-> Zero]]
  BY <1>1 DEF AbsContent, Init
<1>3. AbsStatus = [t \in Callers |-> "idle"]
  <2>1. \A t \in Callers : pc[t] = "idle"
    BY DEF Init
  <2>2. \A t \in Callers : AbsStatus[t] = "idle"
    BY <2>1 DEF AbsStatus, Writing
  <2>3. AbsStatus = [t \in Callers |-> AbsStatus[t]]
    BY DEF AbsStatus
  <2>4. QED
    BY <2>2, <2>3
<1>4. AbsReply = [t \in Callers |-> Abstract!Failure]
  BY DEF AbsReply, Init, Writing, Abstract!Failure
<1>5. QED
  BY <1>2, <1>3, <1>4 DEF Init, Abstract!Init

LEMMA StepMaps ==
  ASSUME NoWrap, RInv, [Next]_vars
  PROVE  [Abstract!Next]_(Abstract!vars)
<1>1. ASSUME NEW t \in Callers,
             Call(t) \/ Refuse(t) \/ Enter(t) \/ RUnlock(t) \/ Return(t)
      PROVE  Abstract!Next
  BY <1>1, CallMaps, RefuseMaps, EnterMaps, RUnlockMaps, ReturnMaps
     DEF Abstract!Next
<1>2. ASSUME NEW t \in Callers, \/ Admit(t) \/ RLock(t) \/ Announce(t)
                                \/ CopyOut(t) \/ CopyIn(t) \/ Unlock(t)
      PROVE  UNCHANGED Abstract!vars
  BY <1>2, WaitingShowsNothing, CopyOutShowsNothing, CopyInShowsNothing,
     UnlockShowsNothing DEF Abstract!vars
<1>3. CASE UNCHANGED vars
  <2>1. Overlaid' <=> Overlaid
    BY <1>3 DEF vars, mutex, Overlaid, Writing
  <2>2. AbsContent' = AbsContent
    BY <1>3, <2>1, ContentStays DEF vars, mutex
  <2>3. AbsStatus' = AbsStatus /\ AbsReply' = AbsReply
    BY <1>3, SeenStays, SameSeen DEF vars, mutex
  <2>4. QED
    BY <1>3, <2>2, <2>3 DEF vars, Abstract!vars
<1>4. QED
  BY <1>1, <1>2, <1>3 DEF Next

(* memory.go behaves as docs/05_MEMORY_MODEL.md says: a call is refused    *)
(* and changes nothing, or happens as a whole at one instant; unless a bit *)
(* area is within a byte of the whole address space.                       *)
THEOREM Atomicity == NoWrap => (Spec => Atomic)
<1> SUFFICES ASSUME NoWrap
             PROVE  Spec => Atomic
  OBVIOUS
<1>1. Init => DoneOK /\ BufOK
  BY InitBufOK DEF Init, DoneOK
<1>2. Init => RInv /\ Abstract!Init
  BY <1>1, InitIInv, InitMaps DEF RInv
<1>3. RInv /\ [Next]_vars => RInv' /\ [Abstract!Next]_(Abstract!vars)
  BY StepRInv, StepMaps
<1>4. QED
  BY <1>2, <1>3, PTL DEF Spec, Atomic, Abstract!Spec
=============================================================================
