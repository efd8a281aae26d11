---------------------------- MODULE SealingProofs ----------------------------
(***************************************************************************)
(* The gateway keeps the contract of docs/01_STATE_SEALING.md as far as    *)
(* SealContract states it, for any number of connections, memories and     *)
(* messages; and what has to be true of the clients and the rules for the  *)
(* rest of that document, which the code does not enforce.                 *)
(***************************************************************************)
EXTENDS AnswerProofs

Hands == [c \in Conns |-> LetIn(c)]

(* The flag of a memory is a coil that can be read.                        *)
LEMMA FlagAccepted ==
  ASSUME NEW m \in Memories, Flag[m] # NoFlag
  PROVE  Accepted(Layouts[m], FlagRead(m))
<1> DEFINE l == Layouts[m]["coils"]
<1>1. l \in LayoutType /\ Flag[m] \in UInt16 /\ Contains(l, Flag[m], 1)
  BY MemoryAssumption DEF Areas, BitAreas
<1>2. l.start \in UInt16 /\ l.size \in UInt16
  BY <1>1 DEF LayoutType
<1>3. l.start \in Nat /\ l.size \in Nat /\ Flag[m] \in Nat
  BY <1>1, <1>2, UInt16Nat
<1>4. Defined(l)
  BY <1>1, <1>3 DEF Contains, Defined
<1>5. Want("coils", 1) = 1
  BY DEF Want, BytesForBits, BitAreas, U16, ByteBits, Word
<1>6. "coils" \in AreasOf("ReadBits")
  BY DEF AreasOf, BitAreas
<1>7. QED
  BY <1>1, <1>4, <1>5, <1>6 DEF Accepted, FlagRead

LEMMA SealedIsZero ==
  ASSUME NEW m \in Memories
  PROVE  Sealed(m) <=> (Flag[m] # NoFlag /\ mem[m]["coils"][Flag[m]] = 0)
BY FlagAccepted DEF Sealed

(* An access that was let in is one of the contract's, and Modbus is let   *)
(* in only to a memory that has been in RUN.                               *)
LEMMA LetInType ==
  ASSUME IInv, NEW c \in Conns
  PROVE  /\ LetIn(c) \in Contract!Access \cup {Contract!Nothing}
         /\ \A m \in Memories :
              LetIn(c) = [by |-> "modbus", to |-> m] => everRun[m]
<1>1. LetIn(c) \in Contract!Access \cup {Contract!Nothing}
  BY DEF LetIn, Contract!Access, Contract!Nothing
<1>2. ASSUME NEW m \in Memories, LetIn(c) = [by |-> "modbus", to |-> m]
      PROVE  everRun[m]
  <2>1. LetIn(c).by = "modbus" /\ LetIn(c).to = m
    BY <1>2
  <2>2. pc[c] \in {"authorize", "dispatch"} /\ Target(c, req[c]) = m
    BY <2>1 DEF LetIn
  <2>3. QED
    BY <2>2 DEF IInv, BusyUntilIngest, BusyFor
<1>3. QED
  BY <1>1, <1>2

(* A step of one connection changes only what that connection holds.       *)
LEMMA HandsStep ==
  ASSUME NEW c \in Conns, OnlyConn(c)
  PROVE  Hands' = [Hands EXCEPT ![c] = LetIn(c)']
<1>1. ASSUME NEW d \in Conns \ {c}
      PROVE  LetIn(d)' = LetIn(d)
  <2>1. /\ pc'[d] = pc[d] /\ Target(d, req[d])' = Target(d, req[d])
    BY DEF OnlyConn, Target
  <2>2. QED
    BY <2>1 DEF LetIn
<1>2. Hands' = [d \in Conns |-> LetIn(d)']
  BY DEF Hands
<1>3. QED
  BY <1>1, <1>2 DEF Hands

(* The step neither lets anything in nor carries it out.                   *)
LEMMA HandsStay ==
  ASSUME NEW c \in Conns, OnlyConn(c), LetIn(c)' = LetIn(c),
         UNCHANGED <<mem, everRun>>
  PROVE  UNCHANGED Contract!vars
<1>1. Hands' = Hands
  BY HandsStep DEF Hands
<1>2. UNCHANGED Phase(everRun)
  BY DEF Phase
<1>3. QED
  BY <1>1, <1>2 DEF Contract!vars, Hands
-----------------------------------------------------------------------------
(* Everything but a decode, a check, a denial and the two memory calls.    *)
Aside(c) ==
  \/ Client(c) \/ Ingress(c) \/ ReadRequest(c) \/ ReadRequestFails(c)
  \/ DecodeOneFails(c) \/ Write(c) \/ WriteLost(c)

LEMMA AsideStep ==
  ASSUME IInv, NEW c \in Conns, Aside(c)
  PROVE  UNCHANGED Contract!vars
<1> USE DEF Goto
<1> DEFINE Held == {"authorize", "dispatch", "apply"}
<1>1. OnlyConn(c)
  BY OneConn DEF IInv, Aside, Server, Modbus, Raw
<1>2. UNCHANGED <<mem, everRun>>
  BY DEF Aside, Client, Connect, Send, Shut, Leave, Receive, Ingress, Classify,
         PeekFails, StreamEnds, Forget, Close, ReadRequest, ReadRequestFails,
         DecodeOneFails, Take, Write, WriteLost, Written
<1>3. CASE Client(c) /\ ~ Connect(c)
  <2>1. UNCHANGED <<pc, end, req>>
    BY <1>3 DEF Client, Send, Shut, Leave, Receive
  <2>2. LetIn(c)' = LetIn(c)
    BY <2>1 DEF LetIn, Target
  <2>3. QED
    BY <1>1, <1>2, <2>2, HandsStay
<1>4. CASE ~ Client(c) \/ Connect(c)
  <2>1. pc[c] \notin Held /\ pc'[c] \notin Held
    BY <1>4 DEF IInv, TypeOK, Aside, Connect, Ingress, Classify, PeekFails,
            StreamEnds, Forget, Close, ReadRequest, ReadRequestFails, Reading,
            DecodeOneFails, Take, Write, WriteLost, Written, AfterWrite
  <2>2. LetIn(c)' = LetIn(c)
    BY <2>1 DEF LetIn
  <2>3. QED
    BY <1>1, <1>2, <2>2, HandsStay
<1>5. QED
  BY <1>3, <1>4

(* A packet is decoded: ingest is let in, or has no memory to go to.       *)
LEMMA DecodeAdmits ==
  ASSUME IInv, NEW c \in Conns, DecodeOne(c)
  PROVE  Contract!Admit(c) \/ UNCHANGED Contract!vars
<1> USE DEF Goto
<1>1. OnlyConn(c) /\ UNCHANGED <<mem, everRun>>
  BY OneConn DEF IInv, Server, Raw, DecodeOne, Take
<1>2. pc[c] = "read" /\ pc'[c] = "apply"
  BY DEF DecodeOne, Reading, Take, IInv, TypeOK
<1>3. LetIn(c) = Contract!Nothing
  BY <1>2 DEF LetIn, Contract!Nothing
<1>4. CASE LetIn(c)' = Contract!Nothing
  BY <1>1, <1>3, <1>4, HandsStay
<1>5. CASE LetIn(c)' # Contract!Nothing
  <2>1. LetIn(c)' \in Contract!Access /\ LetIn(c)'.by = "ingest"
    BY <1>2, <1>5 DEF LetIn, Contract!Nothing, Contract!Access
  <2>2. Hands' = [Hands EXCEPT ![c] = LetIn(c)'] /\ Hands[c] = LetIn(c)
    BY <1>1, HandsStep DEF Hands
  <2>3. UNCHANGED Phase(everRun)
    BY <1>1 DEF Phase
  <2>4. QED
    BY <1>1, <1>3, <2>1, <2>2, <2>3 DEF Contract!Admit, Hands
<1>6. QED
  BY <1>4, <1>5

(* A request passes the sealing check: its memory has been in RUN.         *)
LEMMA CheckAdmits ==
  ASSUME IInv, NEW c \in Conns, SealCheck(c)
  PROVE  Contract!Admit(c) \/ UNCHANGED Contract!vars
<1> USE DEF Goto
<1> DEFINE n == Target(c, req[c])
<1>1. OnlyConn(c) /\ UNCHANGED <<mem, everRun, end, req>>
  BY OneConn DEF IInv, Server, Modbus, SealCheck
<1>2. pc[c] = "seal" /\ pc'[c] \in {"answer", "authorize"}
  BY DEF SealCheck, Reply, IInv, TypeOK
<1>3. LetIn(c) = Contract!Nothing
  BY <1>2 DEF LetIn, Contract!Nothing
<1>4. CASE LetIn(c)' = Contract!Nothing
  BY <1>1, <1>3, <1>4, HandsStay
<1>5. CASE LetIn(c)' # Contract!Nothing
  <2>1. pc'[c] = "authorize" /\ n \in Memories /\ LetIn(c)' = [by |-> "modbus", to |-> n]
    BY <1>1, <1>2, <1>5 DEF LetIn, Contract!Nothing, Target
  <2>2. ~ Sealed(n)
    BY <2>1 DEF SealCheck, Reply, IInv, TypeOK
  <2>3. everRun[n]
    BY <2>1, <2>2 DEF IInv, BusyUntilIngest
  <2>4. LetIn(c)' \in Contract!Access /\ Phase(everRun)[LetIn(c)'.to] = "RUN"
    BY <2>1, <2>3 DEF Contract!Access, Phase
  <2>5. Hands' = [Hands EXCEPT ![c] = LetIn(c)'] /\ Hands[c] = LetIn(c)
    BY <1>1, HandsStep DEF Hands
  <2>6. UNCHANGED Phase(everRun)
    BY <1>1 DEF Phase
  <2>7. QED
    BY <1>1, <1>3, <2>4, <2>5, <2>6 DEF Contract!Admit, Hands
<1>6. QED
  BY <1>4, <1>5

(* A request is denied by the rules: it is dropped.                        *)
LEMMA DenialDrops ==
  ASSUME IInv, NEW c \in Conns, Authorize(c)
  PROVE  Contract!Drop(c) \/ UNCHANGED Contract!vars
<1> USE DEF Goto
<1>1. OnlyConn(c) /\ UNCHANGED <<mem, everRun, end, req>>
  BY OneConn DEF IInv, Server, Modbus, Authorize
<1>2. pc[c] = "authorize" /\ pc'[c] \in {"answer", "dispatch"}
  BY DEF Authorize, Reply, IInv, TypeOK
<1>3. CASE LetIn(c)' = LetIn(c)
  BY <1>1, <1>3, HandsStay
<1>4. CASE LetIn(c)' # LetIn(c)
  <2>1. Target(c, req[c])' = Target(c, req[c])
    BY <1>1 DEF Target
  <2>2. LetIn(c)' = Contract!Nothing
    BY <1>2, <1>4, <2>1 DEF LetIn, Contract!Nothing
  <2>3. LetIn(c) \in Contract!Access
    BY <1>4, <2>2, LetInType
  <2>4. Hands' = [Hands EXCEPT ![c] = LetIn(c)'] /\ Hands[c] = LetIn(c)
    BY <1>1, HandsStep DEF Hands
  <2>5. UNCHANGED Phase(everRun)
    BY <1>1 DEF Phase
  <2>6. QED
    BY <1>1, <2>2, <2>3, <2>4, <2>5 DEF Contract!Drop, Contract!Done, Hands
<1>5. QED
  BY <1>3, <1>4

(* A memory is marked as having been in RUN when its flag is no longer 0.  *)
LEMMA RunAfter ==
  ASSUME IInv, NEW c \in Conns, Dispatch(c) \/ Apply(c), NEW m \in Memories
  PROVE  everRun'[m] = (everRun[m] \/ (Flag[m] # NoFlag /\ mem'[m]["coils"][Flag[m]] # 0))
<1>1. everRun'[m] = (everRun[m] \/ ~ Sealed(m)')
  BY DEF Dispatch, Apply, Remember
<1>2. Sealed(m)' <=> (Flag[m] # NoFlag /\ mem'[m]["coils"][Flag[m]] = 0)
  <2>1. Accepted(Layouts[m], FlagRead(m)) \/ Flag[m] = NoFlag
    BY FlagAccepted
  <2>2. QED
    BY <2>1 DEF Sealed
<1>3. Flag[m] = NoFlag => everRun[m]
  BY DEF IInv, RunOK
<1>4. everRun \in [Memories -> BOOLEAN]
  BY DEF IInv, TypeOK
<1>5. QED
  BY <1>1, <1>2, <1>3, <1>4

(* The two memory calls carry out what was let in: both touch its memory   *)
(* alone, and only that of an ingest can begin RUN.                        *)
LEMMA CallDone ==
  ASSUME IInv, NEW c \in Conns, Dispatch(c) \/ Apply(c)
  PROVE  \/ Contract!Ingest(c) \/ Contract!Modbus(c)
         \/ UNCHANGED Contract!vars
<1> USE DEF Goto
<1> DEFINE n == Target(c, req[c])
<1>1. OnlyConn(c) /\ UNCHANGED <<end, req>>
  BY OneConn DEF IInv, Server, Modbus, Raw, Dispatch, Apply
<1>2. pc'[c] \in Writing /\ pc[c] \in {"dispatch", "apply"}
  BY DEF IInv, TypeOK, Dispatch, Apply, Reply, Writing
<1>3. LetIn(c)' = Contract!Nothing
  BY <1>2 DEF LetIn, Contract!Nothing, Writing
<1>4. Hands' = [Hands EXCEPT ![c] = Contract!Nothing] /\ Hands[c] = LetIn(c)
  BY <1>1, <1>3, HandsStep DEF Hands
<1>5. \A m \in Memories \ {n} : mem'[m] = mem[m]
  BY DispatchEffect, ApplyEffect
<1>6. \A m \in Memories \ {n} : everRun'[m] = everRun[m]
  <2> SUFFICES ASSUME NEW m \in Memories \ {n}
               PROVE  everRun'[m] = everRun[m]
    OBVIOUS
  <2>1. ~ everRun[m] => Flag[m] = NoFlag \/ mem[m]["coils"][Flag[m]] = 0
    BY SealedIsZero DEF IInv, BusyUntilIngest
  <2>2. QED
    BY <2>1, <1>5, RunAfter DEF IInv, TypeOK
<1>a. everRun \in [Memories -> BOOLEAN] /\ everRun' \in [Memories -> BOOLEAN]
  BY DEF IInv, TypeOK, Dispatch, Apply, Remember
<1>7. CASE n \notin Memories
  <2>1. mem' = mem
    BY <1>7 DEF Dispatch, Apply, DispatchCode, IngestCode
  <2>2. everRun' = everRun
    BY <1>6, <1>7, <1>a
  <2>3. LetIn(c) = Contract!Nothing
    BY <1>7 DEF LetIn, Contract!Nothing
  <2>4. QED
    BY <1>1, <1>3, <2>1, <2>2, <2>3, HandsStay
<1>8. CASE Dispatch(c) /\ n \in Memories
  <2>1. LetIn(c) = [by |-> "modbus", to |-> n]
    BY <1>8 DEF LetIn, Dispatch
  <2>2. everRun[n]
    BY <1>8, <2>1, LetInType
  <2>3. everRun'[n] = everRun[n]
    BY <1>8, <2>2, <1>a, RunAfter
  <2>4. everRun' = everRun
    BY <1>6, <1>a, <2>3
  <2>5. UNCHANGED Phase(everRun)
    BY <2>4 DEF Phase
  <2>6. Contract!Only(n)
    BY <1>5 DEF Contract!Only
  <2>7. QED
    BY <1>8, <1>4, <2>1, <2>5, <2>6 DEF Contract!Modbus, Contract!Done, Hands
<1>9. CASE Apply(c) /\ n \in Memories
  <2>1. LetIn(c) = [by |-> "ingest", to |-> n]
    BY <1>9 DEF LetIn, Apply
  <2>2. Phase(everRun)' = IF n \in Contract!Sealable /\ mem'[n]["coils"][Flag[n]] # 0
                          THEN [Phase(everRun) EXCEPT ![n] = "RUN"]
                          ELSE Phase(everRun)
    <3>1. everRun'[n] = (everRun[n] \/ (n \in Contract!Sealable /\ mem'[n]["coils"][Flag[n]] # 0))
      BY <1>9, RunAfter DEF Contract!Sealable
    <3>2. QED
      BY <1>6, <1>9, <1>a, <3>1 DEF Phase
  <2>3. Contract!Only(n)
    BY <1>5 DEF Contract!Only
  <2>4. QED
    BY <1>9, <1>4, <2>1, <2>2, <2>3
       DEF Contract!Ingest, Contract!Done, Contract!FlagSet, Hands
<1>10. QED
  BY <1>7, <1>8, <1>9
-----------------------------------------------------------------------------
LEMMA ContractInit == Init => Contract!Init
<1> SUFFICES ASSUME Init
             PROVE  Contract!Init
  OBVIOUS
<1>1. Phase(everRun) = Contract!Fresh
  BY DEF Init, Phase, Contract!Fresh, Contract!Sealable
<1>2. Hands = [c \in Conns |-> Contract!Nothing]
  BY DEF Init, Hands, LetIn, Contract!Nothing
<1>3. QED
  BY <1>1, <1>2 DEF Init, Contract!Init, Hands

LEMMA ContractStep ==
  ASSUME IInv, [Next]_vars
  PROVE  [Contract!Next]_(Contract!vars)
<1>1. ASSUME NEW c \in Conns, Client(c) \/ Server(c)
      PROVE  [Contract!Next]_(Contract!vars)
  BY <1>1, AsideStep, DecodeAdmits, CheckAdmits, DenialDrops, CallDone
     DEF Aside, Server, Modbus, Raw, Contract!Next
<1>2. CASE Restart
  <2>1. Phase(everRun)' = Contract!Fresh
    BY <1>2 DEF Restart, Phase, Contract!Fresh, Contract!Sealable
  <2>2. Hands' = [c \in Conns |-> Contract!Nothing]
    BY <1>2 DEF Restart, Hands, LetIn, Contract!Nothing
  <2>3. QED
    BY <1>2, <2>1, <2>2 DEF Restart, Contract!Next, Contract!Restart, Hands
<1>3. CASE UNCHANGED vars
  <2>1. Hands' = Hands /\ UNCHANGED <<Phase(everRun), mem>>
    BY <1>3 DEF vars, conns, Hands, LetIn, Target, Phase
  <2>2. QED
    BY <2>1 DEF Contract!vars, Hands
<1>4. QED
  BY <1>1, <1>2, <1>3 DEF Next

(* The gateway implements the sealing contract: the flag coil, the check   *)
(* in handle_conn.go and the restart together keep PRE-RUN as documented.  *)
THEOREM SealingRefinement == Spec => KeepsContract
BY ContractInit, ContractStep, Invariance, PTL
   DEF Spec, KeepsContract, Contract!Spec
-----------------------------------------------------------------------------
(***************************************************************************)
(* The rest of the document holds if nobody may clear a flag.  A write     *)
(* call r to memory m covers its flag ...                                  *)
(***************************************************************************)
Covers(m, r) ==
  r.area = "coils" /\ Flag[m] \in r.address .. (r.address + r.count - 1)

FlagValue(m, r) == r.data[Flag[m] - r.address]

(* ... and these are the write calls that clients may get to it: what the  *)
(* rules let Modbus clients write, and what raw packets write.             *)
ModbusCalls(m) == {CallOf(a) : a \in {b \in Adus :
  /\ b.unit = m.unit /\ b.fc \in Supported /\ IsWrite(CallOf(b))
  /\ \E e \in Endpoints : e.port = m.port /\ Allowed(m, e.source, b.fc)}}

RawCalls(m) == {Ingest(p) : p \in {q \in Packets : q.unit = m.unit}}

NobodyClears == \A m \in Memories : Flag[m] # NoFlag =>
  \A r \in ModbusCalls(m) \cup RawCalls(m) : Covers(m, r) => FlagValue(m, r) # 0

ModbusNeverSets == \A m \in Memories : Flag[m] # NoFlag =>
  \A r \in ModbusCalls(m) : Covers(m, r) => FlagValue(m, r) = 0

(* What a write makes of a flag.                                           *)
LEMMA FlagUpdated ==
  ASSUME TypeOK, NEW m \in Memories, Flag[m] # NoFlag, NEW n \in Memories,
         NEW r, r.area \in Areas
  PROVE  Updated(n, r)[m]["coils"][Flag[m]] =
           IF n = m /\ Covers(m, r) THEN FlagValue(m, r)
                                    ELSE mem[m]["coils"][Flag[m]]
<1> DEFINE l == Layouts[m]["coils"]
<1>1. "coils" \in Areas
  BY DEF Areas, BitAreas
<1>2. l \in LayoutType /\ Flag[m] \in UInt16 /\ Contains(l, Flag[m], 1)
  BY <1>1, MemoryAssumption
<1>3. l.start \in UInt16 /\ l.size \in UInt16
  BY <1>2 DEF LayoutType
<1>4. Flag[m] \in AddressesOf(l)
  BY <1>2, <1>3, UInt16Nat DEF AddressesOf, Contains
<1>5. mem \in [Memories -> [Areas -> Content]] /\ mem[m]["coils"] \in Cells(m, "coils")
  BY <1>1 DEF TypeOK
<1>6. Flag[m] \in DOMAIN mem[m]["coils"]
  BY <1>4, <1>5 DEF Cells
<1> HIDE DEF l
<1>7. CASE n = m /\ r.area = "coils"
  BY <1>1, <1>5, <1>6, <1>7 DEF Updated, Covers, FlagValue
<1>8. CASE n # m \/ r.area # "coils"
  BY <1>1, <1>5, <1>8 DEF Updated, Covers
<1>9. QED
  BY <1>7, <1>8

(* A call that changes a memory is one of those its clients may get there. *)
LEMMA DispatchIsAllowed ==
  ASSUME IInv, NEW c \in Conns, Dispatch(c), NEW m \in Memories, mem'[m] # mem[m]
  PROVE  \E r \in ModbusCalls(m) : mem' = Updated(m, r) /\ r.area \in Areas
<1>1. /\ m = Target(c, req[c]) /\ req[c].fc \in Supported
      /\ IsWrite(CallOf(req[c])) /\ mem' = Updated(m, CallOf(req[c]))
  BY DispatchEffect
<1>2. /\ pc[c] = "dispatch" /\ req[c] \in Adus /\ end[c] \in Endpoints
      /\ Allowed(m, end[c].source, req[c].fc)
  BY <1>1 DEF Dispatch, IInv, Local, TypeOK
<1>3. m.unit = req[c].unit /\ m.port = end[c].port
  BY <1>1 DEF Target
<1>4. CallOf(req[c]) \in ModbusCalls(m)
  BY <1>1, <1>2, <1>3 DEF ModbusCalls
<1>5. CallOf(req[c]).area \in Areas
  BY <1>1, <1>2, CallOfType
<1>6. QED
  BY <1>1, <1>4, <1>5

LEMMA ApplyIsRaw ==
  ASSUME IInv, NEW c \in Conns, Apply(c), NEW m \in Memories, mem'[m] # mem[m]
  PROVE  \E r \in RawCalls(m) : mem' = Updated(m, r) /\ r.area \in Areas
<1> DEFINE n == Target(c, req[c])
<1>1. m = n
  BY ApplyEffect
<1>2. req[c] \in Packets
  BY DEF Apply, IInv, Local
<1>3. mem' = Updated(n, Ingest(req[c]))
  BY DEF Apply
<1>4. m.unit = req[c].unit
  BY <1>1 DEF Target
<1>5. Ingest(req[c]) \in RawCalls(m)
  BY <1>2, <1>4 DEF RawCalls
<1>6. Ingest(req[c]).area \in Areas
  BY <1>2, IngestType
<1>7. QED
  BY <1>1, <1>3, <1>5, <1>6

(* Since the start, a memory has been in RUN if and only if its flag lets  *)
(* the next request pass.                                                  *)
RunIsUnsealed == \A m \in Memories : everRun[m] <=> ~ Sealed(m)

LEMMA RunStays ==
  ASSUME NobodyClears, IInv, RunIsUnsealed, [Next]_vars
  PROVE  RunIsUnsealed'
<1> SUFFICES ASSUME NEW m \in Memories
             PROVE  everRun'[m] <=> ~ Sealed(m)'
  BY DEF RunIsUnsealed
<1>1. CASE UNCHANGED <<mem, everRun>>
  BY <1>1 DEF RunIsUnsealed, Sealed
<1>2. CASE Restart
  BY <1>2, BlankFlag DEF Restart, Sealed
<1>3. ASSUME NEW c \in Conns, Dispatch(c) \/ Apply(c)
      PROVE  everRun'[m] <=> ~ Sealed(m)'
  <2>1. everRun'[m] <=> (everRun[m] \/ ~ Sealed(m)')
    BY <1>3 DEF Dispatch, Apply, Remember
  <2>2. SUFFICES ASSUME everRun[m], Flag[m] # NoFlag, mem'[m] # mem[m]
                 PROVE  mem'[m]["coils"][Flag[m]] # 0
    BY <2>1, FlagAccepted DEF Sealed, RunIsUnsealed
  <2>3. mem[m]["coils"][Flag[m]] # 0
    BY <2>2, SealedIsZero DEF RunIsUnsealed
  <2>4. PICK r \in ModbusCalls(m) \cup RawCalls(m) :
               mem' = Updated(m, r) /\ r.area \in Areas
    BY <1>3, <2>2, DispatchIsAllowed, ApplyIsRaw
  <2>5. Covers(m, r) => FlagValue(m, r) # 0
    BY <2>2 DEF NobodyClears
  <2>6. QED
    BY <2>2, <2>3, <2>4, <2>5, FlagUpdated DEF IInv
<1>4. QED
  BY <1>1, <1>2, <1>3, MemorySteps

LEMMA RunStarts == Init => RunIsUnsealed
<1> SUFFICES ASSUME Init, NEW m \in Memories
             PROVE  everRun[m] <=> ~ Sealed(m)
  BY DEF RunIsUnsealed
<1>1. everRun[m] <=> Flag[m] = NoFlag
  BY DEF Init
<1>2. Flag[m] # NoFlag => mem[m]["coils"][Flag[m]] = 0
  BY BlankFlag DEF Init
<1>3. QED
  BY <1>1, <1>2, SealedIsZero

LEMMA RunInvariant ==
  ASSUME NobodyClears
  PROVE  Spec => []RunIsUnsealed
<1>1. IInv /\ RunIsUnsealed /\ [Next]_vars => RunIsUnsealed'
  BY RunStays
<1>2. QED
  BY <1>1, RunStarts, Invariance, PTL DEF Spec

(* The document's lifecycle, of which RUN is what the code looks at: that  *)
(* the flag coil is not 0.                                                 *)
Lifecycle == INSTANCE SealContract WITH
  Clients <- Conns, phase <- Phase([m \in Memories |-> ~ Sealed(m)]),
  content <- mem, hand <- [c \in Conns |-> LetIn(c)]

Unsealed == Phase([m \in Memories |-> ~ Sealed(m)])

LEMMA SamePhase ==
  ASSUME IInv, RunIsUnsealed
  PROVE  Unsealed = Phase(everRun)
BY DEF Unsealed, Phase, RunIsUnsealed

LEMMA SamePhaseNext ==
  ASSUME IInv', RunIsUnsealed'
  PROVE  Unsealed' = Phase(everRun)'
BY DEF Unsealed, Phase, RunIsUnsealed

LEMMA SameStep ==
  ASSUME Unsealed = Phase(everRun), Unsealed' = Phase(everRun)',
         [Contract!Next]_(Contract!vars)
  PROVE  [Lifecycle!Next]_(Lifecycle!vars)
<1>1. CASE UNCHANGED Contract!vars
  BY <1>1 DEF Contract!vars, Lifecycle!vars, Unsealed
<1>2. CASE Contract!Restart
  BY <1>2 DEF Contract!Restart, Lifecycle!Next, Lifecycle!Restart, Unsealed,
              Contract!Fresh, Lifecycle!Fresh, Contract!Sealable,
              Lifecycle!Sealable, Contract!Nothing, Lifecycle!Nothing
<1>3. ASSUME NEW c \in Conns, Contract!Admit(c)
      PROVE  Lifecycle!Next
  <2>1. Lifecycle!Admit(c)
    BY <1>3 DEF Contract!Admit, Lifecycle!Admit, Unsealed, Contract!Access,
                Lifecycle!Access, Contract!Nothing, Lifecycle!Nothing
  <2>2. QED
    BY <2>1 DEF Lifecycle!Next
<1>4. ASSUME NEW c \in Conns, Contract!Drop(c)
      PROVE  Lifecycle!Next
  <2>1. Lifecycle!Drop(c)
    BY <1>4 DEF Contract!Drop, Lifecycle!Drop, Unsealed, Contract!Access,
                Lifecycle!Access, Contract!Done, Lifecycle!Done,
                Contract!Nothing, Lifecycle!Nothing
  <2>2. QED
    BY <2>1 DEF Lifecycle!Next
<1>5. ASSUME NEW c \in Conns, Contract!Ingest(c)
      PROVE  Lifecycle!Next
  <2>1. Lifecycle!Ingest(c)
    BY <1>5 DEF Contract!Ingest, Lifecycle!Ingest, Unsealed, Contract!Only,
                Lifecycle!Only, Contract!Done, Lifecycle!Done,
                Contract!Nothing, Lifecycle!Nothing, Contract!Sealable,
                Lifecycle!Sealable, Contract!FlagSet, Lifecycle!FlagSet
  <2>2. QED
    BY <2>1 DEF Lifecycle!Next
<1>6. ASSUME NEW c \in Conns, Contract!Modbus(c)
      PROVE  Lifecycle!Next
  <2>1. Lifecycle!Modbus(c)
    BY <1>6 DEF Contract!Modbus, Lifecycle!Modbus, Unsealed, Contract!Only,
                Lifecycle!Only, Contract!Done, Lifecycle!Done,
                Contract!Nothing, Lifecycle!Nothing
  <2>2. QED
    BY <2>1 DEF Lifecycle!Next
<1>7. QED
  BY <1>1, <1>2, <1>3, <1>4, <1>5, <1>6 DEF Contract!Next, Lifecycle!Next

LEMMA LifecycleInit ==
  ASSUME Init
  PROVE  Lifecycle!Init
<1>1. Contract!Init /\ Unsealed = Phase(everRun)
  BY ContractInit, InitIInv, RunStarts, SamePhase
<1>2. QED
  BY <1>1 DEF Contract!Init, Lifecycle!Init, Contract!Fresh, Lifecycle!Fresh,
              Contract!Sealable, Lifecycle!Sealable, Contract!Nothing,
              Lifecycle!Nothing, Unsealed

(* Where no client may write 0 over a flag, handle_conn.go's reading of    *)
(* the coil implements the whole lifecycle: RUN, once begun, lasts.        *)
THEOREM DocumentedLifecycle ==
  ASSUME NobodyClears
  PROVE  Spec => Lifecycle!Spec
<1>1. IInv /\ RunIsUnsealed /\ [Next]_vars => [Lifecycle!Next]_(Lifecycle!vars)
  BY ContractStep, SamePhase, SamePhaseNext, SameStep, StepIInv, RunStays
<1>2. QED
  BY <1>1, LifecycleInit, RunInvariant, Invariance, PTL DEF Spec, Lifecycle!Spec

(* In particular no request is turned away after RUN has begun.            *)
THEOREM RunLastsUntilRestart ==
  ASSUME NobodyClears
  PROVE  Spec => RunUntilRestart
<1> DEFINE Turned == \A c \in Conns :
      (pc[c] = "seal" /\ pc'[c] = "answer") => ~ everRun[Target(c, req[c])]
<1>1. ASSUME IInv, RunIsUnsealed, [Next]_vars
      PROVE  Turned
  <2> SUFFICES ASSUME NEW c \in Conns, pc[c] = "seal", pc'[c] = "answer"
               PROVE  ~ everRun[Target(c, req[c])]
    OBVIOUS
  <2>1. SealCheck(c)
    <3>1. ~ Restart /\ ~ UNCHANGED vars
      BY DEF Restart, vars, conns
    <3>2. PICK d \in Conns : Client(d) \/ Server(d)
      BY <1>1, <3>1 DEF Next
    <3>3. d = c
      BY <1>1, <3>2, OneConn DEF IInv, OnlyConn
    <3>4. Client(c) \/ Server(c)
      BY <3>2, <3>3
    <3>5. QED
      BY <1>1, <3>4 DEF IInv, TypeOK, Goto, Client, Connect, Send, Shut, Leave,
         Receive, Server, Ingress, Classify, PeekFails, StreamEnds, Forget,
         Close, Modbus, ReadRequest, ReadRequestFails, Reading, Authorize,
         Dispatch, Raw, DecodeOne, DecodeOneFails, Apply, Take, Reply,
         Write, WriteLost, Written
  <2>2. Target(c, req[c]) \in Memories /\ Sealed(Target(c, req[c]))
    BY <1>1, <2>1 DEF SealCheck, Goto, IInv, TypeOK
  <2>3. QED
    BY <1>1, <2>2 DEF RunIsUnsealed
<1>2. IInv /\ RunIsUnsealed /\ [Next]_vars => [Turned]_vars
  BY <1>1
<1>3. QED
  BY <1>2, RunInvariant, Invariance, PTL DEF Spec, RunUntilRestart

(* A dispatch leaves a sealed memory sealed.                               *)
KeepsSealed == \A m \in Memories, c \in Conns :
  (Sealed(m) /\ pc[c] = "dispatch" /\ pc'[c] # "dispatch") => Sealed(m)'

LEMMA DispatchKeepsSealed ==
  ASSUME IInv, NEW c \in Conns, Dispatch(c), NEW m \in Memories, Sealed(m),
         RunIsUnsealed \/ ModbusNeverSets
  PROVE  Sealed(m)'
<1>1. CASE mem'[m] = mem[m]
  BY <1>1 DEF Sealed
<1>2. CASE RunIsUnsealed
  <2>1. Target(c, req[c]) # m
    BY <1>2 DEF RunIsUnsealed, IInv, BusyUntilIngest, BusyFor, Dispatch
  <2>2. mem'[m] = mem[m]
    BY <2>1, DispatchEffect
  <2>3. QED
    BY <1>1, <2>2
<1>3. CASE ModbusNeverSets /\ mem'[m] # mem[m]
  <2>1. Flag[m] # NoFlag /\ mem[m]["coils"][Flag[m]] = 0
    BY SealedIsZero
  <2>2. PICK r \in ModbusCalls(m) : mem' = Updated(m, r) /\ r.area \in Areas
    BY <1>3, DispatchIsAllowed
  <2>3. Covers(m, r) => FlagValue(m, r) = 0
    BY <1>3, <2>1 DEF ModbusNeverSets
  <2>4. mem'[m]["coils"][Flag[m]] = 0
    BY <2>1, <2>2, <2>3, FlagUpdated DEF IInv
  <2>5. QED
    BY <2>1, <2>4 DEF Sealed
<1>4. QED
  BY <1>1, <1>2, <1>3

LEMMA KeepsSealedStep ==
  ASSUME IInv, [Next]_vars, RunIsUnsealed \/ ModbusNeverSets
  PROVE  KeepsSealed
<1> SUFFICES ASSUME NEW m \in Memories, NEW c \in Conns, Sealed(m),
                    pc[c] = "dispatch", pc'[c] # "dispatch"
             PROVE  Sealed(m)'
  BY DEF KeepsSealed
<1>1. CASE UNCHANGED <<mem, everRun>>
  BY <1>1 DEF Sealed
<1>2. CASE Restart
  BY <1>2, SealedIsZero, BlankFlag DEF Restart, Sealed
<1>3. ASSUME NEW d \in Conns, Dispatch(d) \/ Apply(d)
      PROVE  Sealed(m)'
  <2>1. d = c
    BY <1>3, OneConn DEF IInv, OnlyConn, Server, Modbus, Raw
  <2>2. Dispatch(c)
    BY <1>3, <2>1 DEF Apply
  <2>3. QED
    BY <2>2, DispatchKeepsSealed
<1>4. QED
  BY <1>1, <1>2, <1>3, MemorySteps

(* Nor does Modbus unseal a memory, if no flag is ever cleared, or if the  *)
(* rules let no Modbus client set one: either closes the gap in            *)
(* handle_conn.go between the sealing check and the dispatch.              *)
THEOREM ModbusKeepsSeals ==
  ASSUME NobodyClears \/ ModbusNeverSets
  PROVE  Spec => ModbusNeverUnseals
<1>1. CASE NobodyClears
  <2>1. IInv /\ RunIsUnsealed /\ [Next]_vars => [KeepsSealed]_vars
    BY KeepsSealedStep
  <2>2. QED
    BY <1>1, <2>1, RunInvariant, Invariance, PTL
       DEF Spec, ModbusNeverUnseals, KeepsSealed
<1>2. CASE ModbusNeverSets
  <2>1. IInv /\ [Next]_vars => [KeepsSealed]_vars
    BY <1>2, KeepsSealedStep
  <2>2. QED
    BY <2>1, Invariance, PTL DEF Spec, ModbusNeverUnseals, KeepsSealed
<1>3. QED
  BY <1>1, <1>2
-----------------------------------------------------------------------------
(* What is in the stream is what its client speaks.                        *)
Spoken(c) == pc[c] # "free" =>
  \A i \in 1 .. Len(in[c]) : in[c][i] \in Messages(end[c].speaks)

Classified(c) == proto[c] # "none" => proto[c] = end[c].speaks

(* No Modbus client uses the transaction id that reads 'R','I'.            *)
NoneSaysRI == \A a \in Adus : a.tx # RI

LEMMA Leads ==
  ASSUME NoneSaysRI, NEW speaks \in {"modbus", "raw"}, NEW m \in Messages(speaks),
         Lead(m) # "short"
  PROVE  speaks = "raw" <=> Lead(m) = "RI"
<1>1. CASE m \in Adus /\ speaks = "modbus"
  BY <1>1, MessageAssumption DEF Lead, NoneSaysRI
<1>2. CASE m \in Packets /\ speaks = "raw"
  BY <1>2, MessageAssumption DEF Lead
<1>3. CASE m \in Malformed /\ m.speaks = speaks
  <2>1. m \in Malformations
    BY <1>3, MessageAssumption
  <2>2. QED
    BY <1>3, <2>1 DEF Malformations, Lead
<1>4. QED
  BY <1>1, <1>2, <1>3 DEF Messages

Speech == \A c \in Conns : Spoken(c) /\ Classified(c)

LEMMA SpeechElsewhere ==
  ASSUME Speech, NEW c \in Conns, OnlyConn(c), NEW d \in Conns \ {c}
  PROVE  Spoken(d)' /\ Classified(d)'
BY DEF Speech, OnlyConn, Spoken, Classified, Messages

LEMMA ClientSpeech ==
  ASSUME IInv, Speech, NEW c \in Conns, Client(c)
  PROVE  Spoken(c)' /\ Classified(c)'
<1> USE DEF Goto
<1>1. CASE Connect(c)
  <2>1. in'[c] = <<>> /\ proto'[c] = "none"
    BY <1>1 DEF Connect, IInv, Local
  <2>2. QED
    BY <2>1, EmptyFacts DEF Spoken, Classified
<1>2. CASE Send(c)
  <2>1. PICK m \in Messages(end[c].speaks) : in' = [in EXCEPT ![c] = Append(@, m)]
    BY <1>2 DEF Send
  <2>2. link[c] = "up" /\ pc[c] # "free" /\ UNCHANGED <<pc, end, proto>>
    BY <1>2 DEF Send, IInv, Local
  <2>3. m \in Message /\ in[c] \in Seq(Message) /\ in'[c] = Append(in[c], m)
    BY <2>1 DEF Messages, Message, IInv, TypeOK
  <2>4. /\ Len(in[c]) \in Nat /\ Len(in'[c]) = Len(in[c]) + 1
        /\ \A i \in 1 .. (Len(in[c]) + 1) :
             in'[c][i] = IF i = Len(in[c]) + 1 THEN m ELSE in[c][i]
    BY <2>3, AppendFacts
  <2>5. ASSUME NEW i \in 1 .. Len(in'[c])
        PROVE  in'[c][i] \in Messages(end[c].speaks)
    <3>1. CASE i = Len(in[c]) + 1
      BY <2>4, <3>1
    <3>2. CASE i # Len(in[c]) + 1
      <4>1. i \in 1 .. Len(in[c]) /\ in'[c][i] = in[c][i]
        BY <2>4, <3>2
      <4>2. QED
        BY <4>1, <2>2 DEF Speech, Spoken
    <3>3. QED
      BY <3>1, <3>2
  <2>6. Messages(end[c].speaks)' = Messages(end[c].speaks)
    BY <2>2 DEF Messages
  <2>7. QED
    BY <2>2, <2>5, <2>6 DEF Speech, Spoken, Classified
<1>3. CASE Shut(c) \/ Leave(c) \/ Receive(c)
  BY <1>3 DEF Shut, Leave, Receive, Speech, Spoken, Classified, Messages
<1>4. QED
  BY <1>1, <1>2, <1>3 DEF Client

(* A handler drops the head of the stream, or all of it, or nothing.       *)
LEMMA StreamSpeech ==
  ASSUME IInv, Speech, NEW c \in Conns, pc[c] # "free",
         UNCHANGED <<end, proto>>,
         \/ in'[c] = <<>>
         \/ in'[c] = in[c]
         \/ in[c] # <<>> /\ in'[c] = Tail(in[c])
  PROVE  Spoken(c)' /\ Classified(c)'
<1>1. Classified(c)'
  BY DEF Speech, Classified
<1>2. Messages(end[c].speaks)' = Messages(end[c].speaks)
  BY DEF Messages
<1>3. \A i \in 1 .. Len(in[c]) : in[c][i] \in Messages(end[c].speaks)
  BY DEF Speech, Spoken
<1>4. CASE in'[c] = <<>>
  BY <1>1, <1>4, EmptyFacts DEF Spoken
<1>5. CASE in'[c] = in[c]
  BY <1>1, <1>2, <1>3, <1>5 DEF Spoken
<1>6. CASE in[c] # <<>> /\ in'[c] = Tail(in[c])
  <2>1. in[c] \in Seq(Message)
    BY DEF IInv, TypeOK
  <2>2. /\ Len(in[c]) \in Nat \ {0} /\ Len(in'[c]) = Len(in[c]) - 1
        /\ \A i \in 1 .. (Len(in[c]) - 1) : in'[c][i] = in[c][i + 1]
    BY <1>6, <2>1, TailFacts
  <2>3. ASSUME NEW i \in 1 .. Len(in'[c])
        PROVE  in'[c][i] \in Messages(end[c].speaks)
    <3>1. i + 1 \in 1 .. Len(in[c]) /\ in'[c][i] = in[c][i + 1]
      BY <2>2
    <3>2. QED
      BY <1>3, <3>1
  <2>4. QED
    BY <1>1, <1>2, <2>3 DEF Spoken
<1>7. QED
  BY <1>4, <1>5, <1>6

LEMMA ServerSpeech ==
  ASSUME NoneSaysRI, IInv, Speech, NEW c \in Conns, Server(c)
  PROVE  Spoken(c)' /\ Classified(c)'
<1> USE DEF Goto
<1>1. CASE Classify(c)
  <2>1. /\ in[c] # <<>> /\ Lead(Head(in[c])) # "short" /\ pc[c] = "classify"
        /\ UNCHANGED <<in, end>>
        /\ proto'[c] = IF Lead(Head(in[c])) = "RI" THEN "raw" ELSE "modbus"
    BY <1>1 DEF Classify, IInv, TypeOK
  <2>2. in[c] \in Seq(Message) /\ end[c] \in Endpoints
    BY <2>1 DEF IInv, TypeOK
  <2>3. Head(in[c]) = in[c][1] /\ 1 \in 1 .. Len(in[c])
    BY <2>1, <2>2, TailFacts
  <2>4. Head(in[c]) \in Messages(end[c].speaks) /\ end[c].speaks \in {"modbus", "raw"}
    BY <2>1, <2>2, <2>3, EndpointAssumption DEF Speech, Spoken
  <2>5. proto'[c] = end[c].speaks
    BY <2>1, <2>4, Leads
  <2>6. QED
    BY <2>1, <2>5 DEF Speech, Spoken, Classified, Messages
<1>2. CASE Forget(c)
  BY <1>2 DEF Forget, IInv, TypeOK, Spoken, Classified
<1>3. CASE ~ Classify(c) /\ ~ Forget(c)
  <2>1. UNCHANGED <<end, proto>>
    BY <1>3 DEF Server, Ingress, PeekFails, StreamEnds, Close, Modbus,
       ReadRequest, ReadRequestFails, SealCheck, Authorize, Dispatch, Raw,
       DecodeOne, DecodeOneFails, Apply, Take, Write, WriteLost, Written
  <2>2. pc[c] # "free"
    BY <1>3 DEF Server, Ingress, PeekFails, StreamEnds, Modbus, ReadRequest,
       ReadRequestFails, Reading, SealCheck, Authorize, Dispatch, Raw,
       DecodeOne, DecodeOneFails, Apply, Write, WriteLost
  <2>3. \/ in'[c] = <<>> \/ in'[c] = in[c]
        \/ in[c] # <<>> /\ in'[c] = Tail(in[c])
    BY <1>3 DEF IInv, TypeOK, Server, Ingress, PeekFails, StreamEnds, Close,
       Modbus, ReadRequest, ReadRequestFails, Reading, SealCheck, Authorize,
       Dispatch, Raw, DecodeOne, DecodeOneFails, Apply, Take, Write, WriteLost,
       Written
  <2>4. QED
    BY <2>1, <2>2, <2>3, StreamSpeech
<1>4. QED
  BY <1>1, <1>2, <1>3

LEMMA SpeechStep ==
  ASSUME NoneSaysRI, IInv, Speech, [Next]_vars
  PROVE  Speech'
<1>1. ASSUME NEW c \in Conns, Client(c) \/ Server(c)
      PROVE  Speech'
  <2>1. OnlyConn(c)
    BY <1>1, OneConn DEF IInv
  <2>2. Spoken(c)' /\ Classified(c)'
    BY <1>1, ClientSpeech, ServerSpeech
  <2>3. QED
    BY <2>1, <2>2, SpeechElsewhere DEF Speech
<1>2. CASE Restart
  BY <1>2 DEF Restart, Speech, Spoken, Classified
<1>3. CASE UNCHANGED vars
  BY <1>3 DEF vars, conns, Speech, Spoken, Classified, Messages
<1>4. QED
  BY <1>1, <1>2, <1>3 DEF Next

(* The two bytes classifier.go looks at tell the protocols apart as long   *)
(* as no Modbus client uses 0x5249 as a transaction id.                    *)
THEOREM ClassifiedRight ==
  ASSUME NoneSaysRI
  PROVE  Spec => []ModbusStaysModbus
<1>1. Init => Speech
  BY DEF Init, Speech, Spoken, Classified
<1>2. IInv /\ Speech /\ [Next]_vars => Speech'
  BY SpeechStep
<1>3. Speech => ModbusStaysModbus
  BY DEF Speech, Classified, ModbusStaysModbus
<1>4. QED
  BY <1>1, <1>2, <1>3, Invariance, PTL DEF Spec
=============================================================================
