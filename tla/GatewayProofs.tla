---------------------------- MODULE GatewayProofs ----------------------------
(***************************************************************************)
(* What TLAPS proves about Gateway, for any number of connections,         *)
(* memories, policies and messages: as long as no ingest has set a         *)
(* memory's sealing flag since the start, every Modbus answer about it is  *)
(* Device Busy, and only an ingest write can end that; a memory changes    *)
(* only by what the rules or the raw port allow.                           *)
(***************************************************************************)
EXTENDS Gateway, TLAPS

Handling == {"seal", "authorize", "dispatch", "apply"}
Writing  == {"answer", "answer_or_close", "farewell"}

(* What the program counter of a handler says of its connection.           *)
Local(c) ==
  /\ pc[c] = "free" => link[c] = "gone"
  /\ pc[c] \in {"free", "classify"} => proto[c] = "none"
  /\ proto[c] = "none" => pc[c] \in {"free", "classify", "closed"}
  /\ pc[c] = "apply" => proto[c] = "raw" /\ req[c] \in Packets
  /\ pc[c] \in {"seal", "authorize", "dispatch"} => req[c] \in Adus
  /\ pc[c] = "dispatch" =>
       Allowed(Target(c, req[c]), end[c].source, req[c].fc)
  /\ pc[c] \in {"free", "closed"} => in[c] = <<>>
  /\ pc[c] \in Writing <=> ans[c] # None
  /\ proto[c] = "none" \/ link[c] = "gone" => out[c] = <<>>

(* The client waits for an answer to every message on its way to or from   *)
(* it, or in the handler's hands.                                          *)
InHand(c) == IF pc[c] \in Handling \cup Writing THEN 1 ELSE 0

Owed(c) == link[c] # "gone" =>
  Len(out[c]) + InHand(c) + Len(in[c]) <= Len(asked[c])

(* A memory without a flag is never in PRE-RUN.                            *)
RunOK == \A m \in Memories : Flag[m] = NoFlag => everRun[m]

IInv == /\ TypeOK /\ RunOK /\ BusyUntilIngest
        /\ \A c \in Conns : Local(c) /\ Owed(c)
-----------------------------------------------------------------------------
(* The three kinds of message are told apart by their kind.                *)
LEMMA Kinds == \A m \in Message :
  /\ m.kind = "adu" <=> m \in Adus
  /\ m.kind = "packet" <=> m \in Packets
BY MessageAssumption DEF Message, Malformations

(* An answer to a request carries its unit id; a raw answer is one byte.   *)
LEMMA AnswerType ==
  ASSUME NEW m \in Adus \cup Packets, NEW code \in Code
  PROVE  /\ Answer(m, code) \in Response /\ Answer(m, code) # None
         /\ m \in Adus => Answer(m, code).unit = m.unit
         /\ Answer(m, code).code = code
BY MessageAssumption DEF Answer, Response, None

LEMMA UInt16Nat == \A n \in UInt16 : n \in Nat /\ n < Word
<1>1. Word \in Int
  BY DEF Word
<1>2. QED
  BY <1>1 DEF UInt16

(* Queues.                                                                 *)
LEMMA AppendFacts ==
  ASSUME NEW S, NEW q \in Seq(S), NEW e \in S
  PROVE  /\ Append(q, e) \in Seq(S) /\ Len(q) \in Nat
         /\ Len(Append(q, e)) = Len(q) + 1
         /\ \A i \in 1 .. (Len(q) + 1) :
              Append(q, e)[i] = IF i = Len(q) + 1 THEN e ELSE q[i]
OBVIOUS

LEMMA TailFacts ==
  ASSUME NEW S, NEW q \in Seq(S), q # <<>>
  PROVE  /\ Tail(q) \in Seq(S) /\ Head(q) \in S /\ Len(q) \in Nat \ {0}
         /\ Len(Tail(q)) = Len(q) - 1
         /\ \A i \in 1 .. (Len(q) - 1) : Tail(q)[i] = q[i + 1]
OBVIOUS

LEMMA EmptyFacts == Len(<<>>) = 0 /\ \A S : <<>> \in Seq(S)
OBVIOUS

(* The flag of a memory is a coil it has, and zero after a start.          *)
LEMMA BlankFlag ==
  ASSUME NEW m \in Memories, Flag[m] # NoFlag
  PROVE  Blank[m]["coils"][Flag[m]] = 0
<1> DEFINE l == Layouts[m]["coils"]
<1>1. l \in LayoutType /\ Flag[m] \in UInt16 /\ Contains(l, Flag[m], 1)
  BY MemoryAssumption DEF Areas, BitAreas
<1>a. l.start \in UInt16 /\ l.size \in UInt16
  BY <1>1 DEF LayoutType
<1>b. l.start \in Nat /\ l.size \in Nat /\ Flag[m] \in Nat
  BY <1>1, <1>a, UInt16Nat
<1>2. Flag[m] \in AddressesOf(Layouts[m]["coils"])
  BY <1>b, <1>1 DEF AddressesOf, Contains
<1>3. "coils" \in Areas
  BY DEF Areas, BitAreas
<1>4. QED
  BY <1>2, <1>3 DEF Blank

LEMMA Contents ==
  \A m \in Memories, a \in Areas : \A f \in Cells(m, a) : f \in Content
BY DEF Content

LEMMA BlankType ==
  /\ Blank \in [Memories -> [Areas -> Content]]
  /\ \A m \in Memories : \A a \in Areas :
       Blank[m][a] \in Cells(m, a)
<1>1. \A m \in Memories, a \in Areas :
        [x \in AddressesOf(Layouts[m][a]) |-> 0] \in Cells(m, a)
  BY ValueAssumption DEF Cells
<1>2. QED
  BY <1>1, Contents DEF Blank

(* A write keeps every address of every area, and touches one memory.      *)
LEMMA UpdatedType ==
  ASSUME TypeOK, NEW m \in Memories, NEW r, r.area \in Areas,
         r.address \in Nat, r.count \in Nat,
         r.data \in [0 .. (r.count - 1) -> Value]
  PROVE  /\ Updated(m, r) \in [Memories -> [Areas -> Content]]
         /\ \A n \in Memories : \A a \in Areas :
              Updated(m, r)[n][a] \in Cells(n, a)
         /\ \A n \in Memories \ {m} : Updated(m, r)[n] = mem[n]
<1> DEFINE f == mem[m][r.area]
           g == [x \in DOMAIN f |->
                   IF x \in r.address .. (r.address + r.count - 1)
                   THEN r.data[x - r.address] ELSE f[x]]
<1>1. f \in Cells(m, r.area)
  BY DEF TypeOK
<1>2. \A x \in r.address .. (r.address + r.count - 1) : r.data[x - r.address] \in Value
  OBVIOUS
<1>3. g \in Cells(m, r.area)
  BY <1>1, <1>2 DEF Cells
<1>4. g \in Content
  BY <1>3, Contents
<1>5. Updated(m, r) = [mem EXCEPT ![m] = [mem[m] EXCEPT ![r.area] = g]]
  BY DEF Updated
<1> HIDE DEF g, f
<1>6. QED
  BY <1>3, <1>4, <1>5 DEF TypeOK
Counts(c) ==
  /\ Len(in[c]) \in Nat /\ Len(out[c]) \in Nat /\ Len(asked[c]) \in Nat
  /\ InHand(c) \in {0, 1}

LEMMA CountsOK ==
  ASSUME TypeOK, NEW c \in Conns
  PROVE  Counts(c)
<1>1. in[c] \in Seq(Message) /\ out[c] \in Seq(Response) /\ asked[c] \in Seq(Message)
  BY DEF TypeOK
<1>2. QED
  BY <1>1 DEF Counts, InHand
-----------------------------------------------------------------------------
(* A step of the goroutine or the client of connection c.                  *)
OnlyConn(c) == \A d \in Conns \ {c} :
  /\ pc'[d] = pc[d] /\ end'[d] = end[d] /\ link'[d] = link[d]
  /\ proto'[d] = proto[d] /\ in'[d] = in[d] /\ req'[d] = req[d]
  /\ ans'[d] = ans[d] /\ out'[d] = out[d] /\ asked'[d] = asked[d]

LEMMA OthersLocal ==
  ASSUME IInv, NEW c \in Conns, OnlyConn(c), NEW d \in Conns \ {c}
  PROVE  Local(d)' /\ Owed(d)'
<1>1. Target(d, req[d])' = Target(d, req[d])
  BY DEF OnlyConn, Target
<1>2. Local(d)'
  <2>1. Local(d)
    BY DEF IInv
  <2>2. /\ pc'[d] = pc[d] /\ end'[d] = end[d] /\ link'[d] = link[d]
        /\ proto'[d] = proto[d] /\ in'[d] = in[d] /\ req'[d] = req[d]
        /\ ans'[d] = ans[d] /\ out'[d] = out[d]
    BY DEF OnlyConn
  <2>3. QED
    BY <1>1, <2>1, <2>2 DEF Local
<1>3. Owed(d)'
  BY DEF IInv, OnlyConn, Owed, InHand
<1>4. QED
  BY <1>2, <1>3

LEMMA OthersBusy ==
  ASSUME IInv, NEW c \in Conns, OnlyConn(c), NEW d \in Conns \ {c},
         NEW m \in Memories, ~ everRun[m]
  PROVE  BusyFor(d, m)'
<1>1. BusyFor(d, m)
  BY DEF IInv, BusyUntilIngest
<1>2. Answers(d)' = Answers(d)
  BY DEF OnlyConn, Answers
<1>3. Target(d, req[d])' = Target(d, req[d])
  BY DEF OnlyConn, Target
<1>4. QED
  BY <1>1, <1>2, <1>3 DEF BusyFor, OnlyConn

(* A step of c keeps the invariant if it keeps what concerns c, and takes  *)
(* memories out of PRE-RUN as Remember says.                               *)
LEMMA ConnStep ==
  ASSUME IInv, NEW c \in Conns, TypeOK', OnlyConn(c),
         UNCHANGED <<mem, everRun>> \/ Remember, Local(c)', Owed(c)',
         \A m \in Memories : ~ everRun[m] => BusyFor(c, m)'
  PROVE  IInv'
<1>1. ASSUME NEW m \in Memories, ~ everRun'[m]
      PROVE  ~ everRun[m] /\ Sealed(m)'
  <2>1. CASE UNCHANGED <<mem, everRun>>
    BY <1>1, <2>1 DEF IInv, BusyUntilIngest, Sealed
  <2>2. CASE Remember
    BY <1>1, <2>2 DEF Remember
  <2>3. QED
    BY <2>1, <2>2
<1>2. BusyUntilIngest'
  BY <1>1, OthersBusy DEF BusyUntilIngest
<1>3. RunOK'
  BY <1>1 DEF IInv, RunOK
<1>4. QED
  BY <1>2, <1>3, OthersLocal DEF IInv

(* The step takes no request past the sealing check, and adds no answer to *)
(* a Modbus connection.                                                    *)
Quiet(c) ==
  /\ pc'[c] \in {"authorize", "dispatch"} =>
       pc[c] \in {"authorize", "dispatch"} /\ UNCHANGED <<end[c], req[c]>>
  /\ proto'[c] = "modbus" =>
       \A r \in Answers(c)' \ {None} :
         r \in Answers(c) /\ proto[c] = "modbus" /\ end'[c] = end[c]

LEMMA QuietStep ==
  ASSUME IInv, NEW c \in Conns, TypeOK', OnlyConn(c),
         UNCHANGED <<mem, everRun>>, Local(c)', Owed(c)', Quiet(c)
  PROVE  IInv'
<1>1. ASSUME NEW m \in Memories, ~ everRun[m]
      PROVE  BusyFor(c, m)'
  <2>1. BusyFor(c, m)
    BY <1>1 DEF IInv, BusyUntilIngest
  <2>2. QED
    BY <2>1 DEF BusyFor, Quiet, Target
<1>2. QED
  BY <1>1, ConnStep

(* An answer to a request that may be answered, or is Device Busy.         *)
LEMMA ReplyBusy ==
  ASSUME IInv, NEW c \in Conns, NEW m \in Memories, ~ everRun[m],
         req[c] \in Adus, NEW code \in Code,
         pc[c] \in {"authorize", "dispatch"} \/ code = "device_busy",
         ans'[c] = Answer(req[c], code), pc'[c] \in Writing,
         UNCHANGED <<end[c], proto[c], out[c]>>
  PROVE  BusyFor(c, m)'
<1>1. BusyFor(c, m)
  BY DEF IInv, BusyUntilIngest
<1>2. \A r \in Answers(c)' : r \in Answers(c) \/ r = ans'[c]
  BY DEF Answers
<1>3. ans'[c].unit = req[c].unit /\ ans'[c].code = code
  BY AnswerType
<1>4. m = [port |-> m.port, unit |-> m.unit]
  BY MemoryAssumption
<1>5. CASE pc[c] \in {"authorize", "dispatch"}
  <2>1. Target(c, req[c]) # m
    BY <1>1, <1>5 DEF BusyFor
  <2>2. ~ (end[c].port = m.port /\ req[c].unit = m.unit)
    BY <2>1, <1>4 DEF Target
  <2>3. QED
    BY <1>1, <1>2, <1>3, <2>2 DEF BusyFor, Writing
<1>6. CASE code = "device_busy"
  BY <1>1, <1>2, <1>3, <1>6 DEF BusyFor, Writing
<1>7. QED
  BY <1>5, <1>6
-----------------------------------------------------------------------------
(* Every initial state satisfies the invariant.                            *)
LEMMA InitIInv == Init => IInv
<1> SUFFICES ASSUME Init
             PROVE  IInv
  OBVIOUS
<1>1. TypeOK
  BY BlankType, BoundAssumption DEF Init, TypeOK, PCs
<1>2. \A c \in Conns : Local(c) /\ Owed(c)
  BY DEF Init, Local, Writing, Owed
<1>3. RunOK
  BY DEF Init, RunOK
<1>4. BusyUntilIngest
  <2> SUFFICES ASSUME NEW m \in Memories, ~ everRun[m]
               PROVE  Sealed(m) /\ \A c \in Conns : BusyFor(c, m)
    BY DEF BusyUntilIngest
  <2>1. Sealed(m)
    BY BlankFlag DEF Init, Sealed
  <2>2. QED
    BY <2>1 DEF Init, BusyFor
<1>5. QED
  BY <1>1, <1>2, <1>3, <1>4 DEF IInv
-----------------------------------------------------------------------------
LEMMA ClientStep ==
  ASSUME IInv, NEW k \in Conns, Client(k)
  PROVE  IInv'
<1> USE DEF Goto
<1>1. ASSUME NEW c \in Conns, Connect(c)
      PROVE  IInv'
  <2>a. Counts(c)
    BY CountsOK DEF IInv
  <2>1. TypeOK'
    BY <1>1, EmptyFacts, BoundAssumption DEF IInv, TypeOK, PCs, Connect
  <2>2. OnlyConn(c) /\ UNCHANGED <<mem, everRun>>
    BY <1>1 DEF IInv, TypeOK, OnlyConn, Connect
  <2>3. Local(c)'
    BY <1>1, Kinds, EmptyFacts DEF IInv, TypeOK, Local, Allowed, Target, Writing, Connect
  <2>4. Owed(c)'
    <3>1. Len(out'[c]) = 0 /\ InHand(c)' = 0 /\ Len(in'[c]) = 0 /\ Len(asked'[c]) = Len(asked[c])
      BY <1>1, EmptyFacts DEF IInv, TypeOK, Local, InHand, Handling, Writing, Connect
    <3>2. Owed(c)
      BY DEF IInv
    <3>3. QED
      BY <3>1, <3>2, <2>a DEF Owed, Counts
  <2>5. Quiet(c)
    BY <1>1, EmptyFacts DEF IInv, TypeOK, Local, Writing, Quiet, Answers, Connect
  <2>6. QED
    BY <2>1, <2>2, <2>3, <2>4, <2>5, QuietStep
<1>2. ASSUME NEW c \in Conns, Send(c)
      PROVE  IInv'
  <2>a. Counts(c)
    BY CountsOK DEF IInv
  <2>0. \A m \in Message :
          /\ Append(in[c], m) \in Seq(Message)
          /\ Len(Append(in[c], m)) = Len(in[c]) + 1
          /\ Append(asked[c], m) \in Seq(Message)
          /\ Len(Append(asked[c], m)) = Len(asked[c]) + 1
    BY AppendFacts DEF IInv, TypeOK
  <2>1. TypeOK'
    BY <1>2, <2>0, EmptyFacts, BoundAssumption DEF IInv, TypeOK, PCs, Send, Messages, Message
  <2>2. OnlyConn(c) /\ UNCHANGED <<mem, everRun>>
    BY <1>2 DEF IInv, TypeOK, OnlyConn, Send, Messages, Message
  <2>3. Local(c)'
    BY <1>2, <2>0, Kinds, EmptyFacts DEF IInv, TypeOK, Local, Allowed, Target, Writing, Send, Messages, Message
  <2>4. Owed(c)'
    <3>1. /\ link[c] # "gone" /\ out'[c] = out[c] /\ InHand(c)' = InHand(c)
          /\ Len(in'[c]) = Len(in[c]) + 1 /\ Len(asked'[c]) = Len(asked[c]) + 1
      BY <1>2, <2>0, EmptyFacts DEF IInv, TypeOK, Local, InHand, Handling, Writing, Send, Messages, Message
    <3>2. Owed(c)
      BY DEF IInv
    <3>3. QED
      BY <3>1, <3>2, <2>a DEF Owed, Counts
  <2>5. Quiet(c)
    BY <1>2, <2>0, EmptyFacts DEF IInv, TypeOK, Local, Writing, Quiet, Answers, Send, Messages, Message
  <2>6. QED
    BY <2>1, <2>2, <2>3, <2>4, <2>5, QuietStep
<1>3. ASSUME NEW c \in Conns, Shut(c)
      PROVE  IInv'
  <2>a. Counts(c)
    BY CountsOK DEF IInv
  <2>1. TypeOK'
    BY <1>3, EmptyFacts, BoundAssumption DEF IInv, TypeOK, PCs, Shut
  <2>2. OnlyConn(c) /\ UNCHANGED <<mem, everRun>>
    BY <1>3 DEF IInv, TypeOK, OnlyConn, Shut
  <2>3. Local(c)'
    BY <1>3, Kinds, EmptyFacts DEF IInv, TypeOK, Local, Allowed, Target, Writing, Shut
  <2>4. Owed(c)'
    <3>1. /\ link[c] # "gone" /\ out'[c] = out[c] /\ InHand(c)' = InHand(c)
          /\ in'[c] = in[c] /\ asked'[c] = asked[c]
      BY <1>3, EmptyFacts DEF IInv, TypeOK, Local, InHand, Handling, Writing, Shut
    <3>2. Owed(c)
      BY DEF IInv
    <3>3. QED
      BY <3>1, <3>2, <2>a DEF Owed, Counts
  <2>5. Quiet(c)
    BY <1>3, EmptyFacts DEF IInv, TypeOK, Local, Writing, Quiet, Answers, Shut
  <2>6. QED
    BY <2>1, <2>2, <2>3, <2>4, <2>5, QuietStep
<1>4. ASSUME NEW c \in Conns, Leave(c)
      PROVE  IInv'
  <2>a. Counts(c)
    BY CountsOK DEF IInv
  <2>1. TypeOK'
    BY <1>4, EmptyFacts, BoundAssumption DEF IInv, TypeOK, PCs, Leave
  <2>2. OnlyConn(c) /\ UNCHANGED <<mem, everRun>>
    BY <1>4 DEF IInv, TypeOK, OnlyConn, Leave
  <2>3. Local(c)'
    BY <1>4, Kinds, EmptyFacts DEF IInv, TypeOK, Local, Allowed, Target, Writing, Leave
  <2>4. Owed(c)'
    <3>1. link'[c] = "gone"
      BY <1>4, EmptyFacts DEF IInv, TypeOK, Local, InHand, Handling, Writing, Leave
    <3>2. Owed(c)
      BY DEF IInv
    <3>3. QED
      BY <3>1, <3>2, <2>a DEF Owed, Counts
  <2>5. Quiet(c)
    BY <1>4, EmptyFacts DEF IInv, TypeOK, Local, Writing, Quiet, Answers, Leave
  <2>6. QED
    BY <2>1, <2>2, <2>3, <2>4, <2>5, QuietStep
<1>5. ASSUME NEW c \in Conns, Receive(c)
      PROVE  IInv'
  <2>a. Counts(c)
    BY CountsOK DEF IInv
  <2>0. /\ Tail(out[c]) \in Seq(Response) /\ Len(Tail(out[c])) = Len(out[c]) - 1
        /\ Tail(asked[c]) \in Seq(Message) /\ Len(Tail(asked[c])) = Len(asked[c]) - 1
        /\ \A i \in 1 .. Len(Tail(out[c])) : Tail(out[c])[i] = out[c][i + 1]
    <3>1. link[c] # "gone" /\ out[c] # <<>>
      BY <1>5 DEF Receive, IInv, Local
    <3>2. Len(out[c]) \in Nat \ {0} /\ out[c] \in Seq(Response) /\ asked[c] \in Seq(Message)
      BY <3>1, TailFacts DEF IInv, TypeOK
    <3>3. Len(asked[c]) # 0
      BY <3>1, <3>2, <2>a DEF IInv, Owed, Counts
    <3>4. asked[c] # <<>>
      BY <3>3, EmptyFacts
    <3>5. QED
      BY <3>1, <3>2, <3>4, TailFacts
  <2>1. TypeOK'
    BY <1>5, <2>0, EmptyFacts, BoundAssumption DEF IInv, TypeOK, PCs, Receive
  <2>2. OnlyConn(c) /\ UNCHANGED <<mem, everRun>>
    BY <1>5 DEF IInv, TypeOK, OnlyConn, Receive
  <2>3. Local(c)'
    BY <1>5, <2>0, Kinds, EmptyFacts DEF IInv, TypeOK, Local, Allowed, Target, Writing, Receive
  <2>4. Owed(c)'
    <3>1. /\ link'[c] = link[c] /\ InHand(c)' = InHand(c) /\ Len(out'[c]) = Len(out[c]) - 1
          /\ in'[c] = in[c] /\ Len(asked'[c]) = Len(asked[c]) - 1
      BY <1>5, <2>0, EmptyFacts DEF IInv, TypeOK, Local, InHand, Handling, Writing, Receive
    <3>2. Owed(c)
      BY DEF IInv
    <3>3. QED
      BY <3>1, <3>2, <2>a DEF Owed, Counts
  <2>5. Quiet(c)
    BY <1>5, <2>0, EmptyFacts DEF IInv, TypeOK, Local, Writing, Quiet, Answers, Receive
  <2>6. QED
    BY <2>1, <2>2, <2>3, <2>4, <2>5, QuietStep
<1>6. QED
  BY <1>1, <1>2, <1>3, <1>4, <1>5 DEF Client

LEMMA IngressStep ==
  ASSUME IInv, NEW k \in Conns, Ingress(k)
  PROVE  IInv'
<1> USE DEF Goto
<1>1. ASSUME NEW c \in Conns, Classify(c)
      PROVE  IInv'
  <2>a. Counts(c)
    BY CountsOK DEF IInv
  <2>0. Answers(c) = {None} /\ Answers(c)' = Answers(c)
    <3>1. out[c] = <<>> /\ ans[c] = None
      BY <1>1 DEF Classify, IInv, Local, Writing
    <3>2. out'[c] = out[c] /\ ans'[c] = ans[c]
      BY <1>1 DEF Classify
    <3>3. QED
      BY <3>1, <3>2, EmptyFacts DEF Answers
  <2>1. TypeOK'
    BY <1>1, <2>0, EmptyFacts, BoundAssumption DEF IInv, TypeOK, PCs, Classify
  <2>2. OnlyConn(c) /\ UNCHANGED <<mem, everRun>>
    BY <1>1 DEF IInv, TypeOK, OnlyConn, Classify
  <2>3. Local(c)'
    BY <1>1, <2>0, Kinds, EmptyFacts DEF IInv, TypeOK, Local, Allowed, Target, Writing, Classify
  <2>4. Owed(c)'
    <3>1. /\ link'[c] = link[c] /\ out'[c] = out[c] /\ InHand(c)' = InHand(c)
          /\ in'[c] = in[c] /\ asked'[c] = asked[c]
      BY <1>1, <2>0, EmptyFacts DEF IInv, TypeOK, Local, InHand, Handling, Writing, Classify
    <3>2. Owed(c)
      BY DEF IInv
    <3>3. QED
      BY <3>1, <3>2, <2>a DEF Owed, Counts
  <2>5. Quiet(c)
    BY <1>1, <2>0, EmptyFacts DEF IInv, TypeOK, Local, Writing, Quiet, Classify, Classify
  <2>6. QED
    BY <2>1, <2>2, <2>3, <2>4, <2>5, QuietStep
<1>2. ASSUME NEW c \in Conns, PeekFails(c)
      PROVE  IInv'
  <2>a. Counts(c)
    BY CountsOK DEF IInv
  <2>1. TypeOK'
    BY <1>2, EmptyFacts, BoundAssumption DEF IInv, TypeOK, PCs, PeekFails, Close
  <2>2. OnlyConn(c) /\ UNCHANGED <<mem, everRun>>
    BY <1>2 DEF IInv, TypeOK, OnlyConn, PeekFails, Close
  <2>3. Local(c)'
    BY <1>2, Kinds, EmptyFacts DEF IInv, TypeOK, Local, Allowed, Target, Writing, PeekFails, Close
  <2>4. Owed(c)'
    BY <1>2, <2>a, EmptyFacts DEF IInv, TypeOK, Local, Counts, Owed, InHand, Handling, Writing, PeekFails, Close
  <2>5. Quiet(c)
    BY <1>2, EmptyFacts DEF IInv, TypeOK, Local, Writing, Quiet, Answers, PeekFails, Close
  <2>6. QED
    BY <2>1, <2>2, <2>3, <2>4, <2>5, QuietStep
<1>3. ASSUME NEW c \in Conns, StreamEnds(c)
      PROVE  IInv'
  <2>a. Counts(c)
    BY CountsOK DEF IInv
  <2>1. TypeOK'
    BY <1>3, EmptyFacts, BoundAssumption DEF IInv, TypeOK, PCs, StreamEnds, Close
  <2>2. OnlyConn(c) /\ UNCHANGED <<mem, everRun>>
    BY <1>3 DEF IInv, TypeOK, OnlyConn, StreamEnds, Close
  <2>3. Local(c)'
    BY <1>3, Kinds, EmptyFacts DEF IInv, TypeOK, Local, Allowed, Target, Writing, StreamEnds, Close
  <2>4. Owed(c)'
    <3>1. /\ link'[c] = link[c] /\ out'[c] = out[c] /\ InHand(c)' = InHand(c)
          /\ Len(in'[c]) = 0 /\ asked'[c] = asked[c]
      BY <1>3, EmptyFacts DEF IInv, TypeOK, Local, InHand, Handling, Writing, StreamEnds, Close
    <3>2. Owed(c)
      BY DEF IInv
    <3>3. QED
      BY <3>1, <3>2, <2>a DEF Owed, Counts
  <2>5. Quiet(c)
    BY <1>3, EmptyFacts DEF IInv, TypeOK, Local, Writing, Quiet, Answers, StreamEnds, Close
  <2>6. QED
    BY <2>1, <2>2, <2>3, <2>4, <2>5, QuietStep
<1>4. ASSUME NEW c \in Conns, Forget(c)
      PROVE  IInv'
  <2>a. Counts(c)
    BY CountsOK DEF IInv
  <2>1. TypeOK'
    BY <1>4, EmptyFacts, BoundAssumption DEF IInv, TypeOK, PCs, Forget
  <2>2. OnlyConn(c) /\ UNCHANGED <<mem, everRun>>
    BY <1>4 DEF IInv, TypeOK, OnlyConn, Forget
  <2>3. Local(c)'
    BY <1>4, Kinds, EmptyFacts DEF IInv, TypeOK, Local, Allowed, Target, Writing, Forget
  <2>4. Owed(c)'
    BY <1>4, <2>a, EmptyFacts DEF IInv, TypeOK, Local, Counts, Owed, InHand, Handling, Writing, Forget
  <2>5. Quiet(c)
    BY <1>4, EmptyFacts DEF IInv, TypeOK, Local, Writing, Quiet, Answers, Forget
  <2>6. QED
    BY <2>1, <2>2, <2>3, <2>4, <2>5, QuietStep
<1>5. QED
  BY <1>1, <1>2, <1>3, <1>4 DEF Ingress

Reads(c) == ReadRequest(c) \/ ReadRequestFails(c) \/ DecodeOne(c)

LEMMA ReadStep ==
  ASSUME IInv, NEW k \in Conns, Reads(k)
  PROVE  IInv'
<1> USE DEF Goto
<1>1. ASSUME NEW c \in Conns, ReadRequest(c)
      PROVE  IInv'
  <2>a. Counts(c)
    BY CountsOK DEF IInv
  <2>0. /\ Tail(in[c]) \in Seq(Message) /\ Len(Tail(in[c])) = Len(in[c]) - 1
        /\ Head(in[c]) \in Message
    BY <1>1, TailFacts DEF ReadRequest, Reading, IInv, TypeOK
  <2>1. TypeOK'
    BY <1>1, <2>0, EmptyFacts, BoundAssumption DEF IInv, TypeOK, PCs, ReadRequest, Take, Reading
  <2>2. OnlyConn(c) /\ UNCHANGED <<mem, everRun>>
    BY <1>1 DEF IInv, TypeOK, OnlyConn, ReadRequest, Take, Reading
  <2>3. Local(c)'
    BY <1>1, <2>0, Kinds, EmptyFacts DEF IInv, TypeOK, Local, Allowed, Target, Writing, ReadRequest, Take, Reading
  <2>4. Owed(c)'
    <3>1. /\ link'[c] = link[c] /\ out'[c] = out[c] /\ InHand(c)' = InHand(c) + 1
          /\ Len(in'[c]) = Len(in[c]) - 1 /\ asked'[c] = asked[c]
      BY <1>1, <2>0, EmptyFacts DEF IInv, TypeOK, Local, InHand, Handling, Writing, ReadRequest, Take, Reading
    <3>2. Owed(c)
      BY DEF IInv
    <3>3. QED
      BY <3>1, <3>2, <2>a DEF Owed, Counts
  <2>5. Quiet(c)
    BY <1>1, <2>0, EmptyFacts DEF IInv, TypeOK, Local, Writing, Quiet, Answers, ReadRequest, Take, Reading
  <2>6. QED
    BY <2>1, <2>2, <2>3, <2>4, <2>5, QuietStep
<1>2. ASSUME NEW c \in Conns, ReadRequestFails(c)
      PROVE  IInv'
  <2>a. Counts(c)
    BY CountsOK DEF IInv
  <2>1. TypeOK'
    BY <1>2, EmptyFacts, BoundAssumption DEF IInv, TypeOK, PCs, ReadRequestFails, Close, Reading
  <2>2. OnlyConn(c) /\ UNCHANGED <<mem, everRun>>
    BY <1>2 DEF IInv, TypeOK, OnlyConn, ReadRequestFails, Close, Reading
  <2>3. Local(c)'
    BY <1>2, Kinds, EmptyFacts DEF IInv, TypeOK, Local, Allowed, Target, Writing, ReadRequestFails, Close, Reading
  <2>4. Owed(c)'
    <3>1. /\ link'[c] = link[c] /\ out'[c] = out[c] /\ InHand(c)' = 0
          /\ Len(in'[c]) = 0 /\ asked'[c] = asked[c]
      BY <1>2, EmptyFacts DEF IInv, TypeOK, Local, InHand, Handling, Writing, ReadRequestFails, Close, Reading
    <3>2. Owed(c)
      BY DEF IInv
    <3>3. QED
      BY <3>1, <3>2, <2>a DEF Owed, Counts
  <2>5. Quiet(c)
    BY <1>2, EmptyFacts DEF IInv, TypeOK, Local, Writing, Quiet, Answers, ReadRequestFails, Close, Reading
  <2>6. QED
    BY <2>1, <2>2, <2>3, <2>4, <2>5, QuietStep
<1>3. ASSUME NEW c \in Conns, DecodeOne(c)
      PROVE  IInv'
  <2>a. Counts(c)
    BY CountsOK DEF IInv
  <2>0. /\ Tail(in[c]) \in Seq(Message) /\ Len(Tail(in[c])) = Len(in[c]) - 1
        /\ Head(in[c]) \in Message
    BY <1>3, TailFacts DEF DecodeOne, Reading, IInv, TypeOK
  <2>1. TypeOK'
    BY <1>3, <2>0, EmptyFacts, BoundAssumption DEF IInv, TypeOK, PCs, DecodeOne, Take, Reading
  <2>2. OnlyConn(c) /\ UNCHANGED <<mem, everRun>>
    BY <1>3 DEF IInv, TypeOK, OnlyConn, DecodeOne, Take, Reading
  <2>3. Local(c)'
    BY <1>3, <2>0, Kinds, EmptyFacts DEF IInv, TypeOK, Local, Allowed, Target, Writing, DecodeOne, Take, Reading
  <2>4. Owed(c)'
    <3>1. /\ link'[c] = link[c] /\ out'[c] = out[c] /\ InHand(c)' = InHand(c) + 1
          /\ Len(in'[c]) = Len(in[c]) - 1 /\ asked'[c] = asked[c]
      BY <1>3, <2>0, EmptyFacts DEF IInv, TypeOK, Local, InHand, Handling, Writing, DecodeOne, Take, Reading
    <3>2. Owed(c)
      BY DEF IInv
    <3>3. QED
      BY <3>1, <3>2, <2>a DEF Owed, Counts
  <2>5. Quiet(c)
    BY <1>3, <2>0, EmptyFacts DEF IInv, TypeOK, Local, Writing, Quiet, Answers, DecodeOne, Take, Reading
  <2>6. QED
    BY <2>1, <2>2, <2>3, <2>4, <2>5, QuietStep
<1>4. QED
  BY <1>1, <1>2, <1>3 DEF Reads

-----------------------------------------------------------------------------
LEMMA DecodeOneFailsStep ==
  ASSUME IInv, NEW c \in Conns, DecodeOneFails(c)
  PROVE  IInv'
<1> USE DEF Goto
<1>a. Counts(c)
  BY CountsOK DEF IInv
<1>b. in[c] # <<>> /\ pc[c] = "read" /\ proto[c] = "raw"
  BY DEF DecodeOneFails, Reading
<1>c. /\ Tail(in[c]) \in Seq(Message) /\ Len(Tail(in[c])) = Len(in[c]) - 1
      /\ Head(in[c]) \in Message
  BY <1>b, TailFacts DEF IInv, TypeOK
<1>d. [code |-> "REJECTED"] \in Response /\ [code |-> "REJECTED"] # None
  BY DEF Response, Code, None
<1>e. Owed(c)
  BY DEF IInv
<1>1. CASE Close(c)
  <2>1. TypeOK'
    BY <1>1, <1>b, EmptyFacts, BoundAssumption DEF IInv, TypeOK, PCs, Close
  <2>2. OnlyConn(c) /\ UNCHANGED <<mem, everRun>>
    BY <1>1 DEF IInv, TypeOK, OnlyConn, Close
  <2>3. Local(c)'
    BY <1>1, <1>b DEF IInv, TypeOK, Local, Writing, Close
  <2>4. Owed(c)'
    <3>1. /\ link'[c] = link[c] /\ out'[c] = out[c] /\ InHand(c)' = 0
          /\ Len(in'[c]) = 0 /\ asked'[c] = asked[c]
      BY <1>1, EmptyFacts DEF IInv, TypeOK, InHand, Handling, Writing, Close
    <3>2. QED
      BY <3>1, <1>a, <1>e DEF Owed, Counts
  <2>5. Quiet(c)
    BY <1>1, <1>b DEF IInv, TypeOK, Quiet, Answers, Close
  <2>6. QED
    BY <2>1, <2>2, <2>3, <2>4, <2>5, QuietStep
<1>2. CASE Take(c, "farewell", [code |-> "REJECTED"])
  <2>1. TypeOK'
    BY <1>2, <1>a, <1>b, <1>c, <1>d, BoundAssumption DEF IInv, TypeOK, PCs, Take, Counts
  <2>2. OnlyConn(c) /\ UNCHANGED <<mem, everRun>>
    BY <1>2 DEF IInv, TypeOK, OnlyConn, Take
  <2>3. Local(c)'
    BY <1>2, <1>b, <1>d DEF IInv, TypeOK, Local, Writing, Take
  <2>4. Owed(c)'
    <3>1. /\ link'[c] = link[c] /\ out'[c] = out[c] /\ InHand(c)' = InHand(c) + 1
          /\ Len(in'[c]) = Len(in[c]) - 1 /\ asked'[c] = asked[c]
      BY <1>2, <1>b, <1>c DEF IInv, TypeOK, InHand, Handling, Writing, Take
    <3>2. QED
      BY <3>1, <1>a, <1>e DEF Owed, Counts
  <2>5. Quiet(c)
    BY <1>2, <1>b DEF IInv, TypeOK, Quiet, Take
  <2>6. QED
    BY <2>1, <2>2, <2>3, <2>4, <2>5, QuietStep
<1>3. QED
  BY <1>1, <1>2 DEF DecodeOneFails

LEMMA Sums == \A a, b, d, x, y \in Nat :
  (a + 1 + b <= d /\ x <= a + 1 /\ y <= b) => x + y <= d
OBVIOUS

(* The answer reaches the socket or is lost, and the goroutine goes on or  *)
(* ends.                                                                   *)
LEMMA WrittenStep ==
  ASSUME IInv, NEW c \in Conns, NEW p \in {"read", "closed"}, Written(c, p),
         pc[c] \in Writing,
         \/ link[c] = "gone" /\ UNCHANGED out
         \/ /\ link[c] # "gone" /\ Len(out[c]) < OutCap
            /\ out' = [out EXCEPT ![c] = Append(@, ans[c])]
  PROVE  IInv'
<1> USE DEF Goto
<1>a. Counts(c) /\ Local(c) /\ Owed(c)
  BY CountsOK DEF IInv
<1>b. ans[c] \in Response /\ out[c] \in Seq(Response) /\ in[c] \in Seq(Message)
  BY <1>a DEF IInv, TypeOK, Local
<1>c. /\ Append(out[c], ans[c]) \in Seq(Response)
      /\ Len(Append(out[c], ans[c])) = Len(out[c]) + 1
      /\ \A i \in 1 .. (Len(out[c]) + 1) : Append(out[c], ans[c])[i] =
           IF i = Len(out[c]) + 1 THEN ans[c] ELSE out[c][i]
  BY <1>b, AppendFacts
<1>d. /\ Len(in[c]) <= InCap /\ Len(out[c]) <= OutCap
      /\ InCap \in Nat /\ OutCap \in Nat
  BY BoundAssumption DEF IInv, TypeOK
<1>e. PICK q \in {in[c], <<>>} : in' = [in EXCEPT ![c] = q]
  BY DEF Written, IInv, TypeOK
<1>f. /\ q \in Seq(Message) /\ Len(q) \in Nat
      /\ Len(q) <= Len(in[c]) /\ Len(q) <= InCap
  <2>1. CASE q = in[c]
    BY <2>1, <1>a, <1>b, <1>d DEF Counts
  <2>2. CASE q = <<>>
    BY <2>2, <1>a, <1>d, EmptyFacts DEF Counts
  <2>3. QED
    BY <2>1, <2>2
<1>g. PICK o : /\ out' = [out EXCEPT ![c] = o]
               /\ \/ o = out[c]
                  \/ Len(out[c]) < OutCap /\ o = Append(out[c], ans[c])
  BY DEF IInv, TypeOK
<1>h. /\ o \in Seq(Response) /\ Len(o) \in Nat
      /\ Len(o) <= OutCap /\ Len(o) <= Len(out[c]) + 1
  <2>1. CASE o = out[c]
    BY <2>1, <1>a, <1>b, <1>d DEF Counts
  <2>2. CASE Len(out[c]) < OutCap /\ o = Append(out[c], ans[c])
    BY <2>2, <1>a, <1>c, <1>d DEF Counts
  <2>3. QED
    BY <2>1, <2>2, <1>g
<1>i. ASSUME NEW i \in 1 .. Len(o)
      PROVE  o[i] \in Answers(c)
  <2>1. CASE o = out[c]
    BY <2>1 DEF Answers
  <2>2. CASE o = Append(out[c], ans[c])
    <3>1. i \in 1 .. (Len(out[c]) + 1)
      BY <2>2, <1>c
    <3>2. CASE i = Len(out[c]) + 1
      BY <2>2, <1>c, <3>1, <3>2 DEF Answers
    <3>3. CASE i # Len(out[c]) + 1
      <4>1. o[i] = out[c][i]
        BY <2>2, <1>c, <3>1, <3>3
      <4>2. i \in 1 .. Len(out[c])
        BY <1>a, <3>1, <3>3 DEF Counts
      <4>3. QED
        BY <4>1, <4>2 DEF Answers
    <3>4. QED
      BY <3>2, <3>3
  <2>3. QED
    BY <1>g, <2>1, <2>2
<1>1. TypeOK'
  <2>1. \A d \in Conns : Len(in'[d]) <= InCap /\ Len(out'[d]) <= OutCap
    BY <1>e, <1>f, <1>g, <1>h DEF IInv, TypeOK
  <2>2. in' \in [Conns -> Seq(Message)] /\ out' \in [Conns -> Seq(Response)]
    BY <1>e, <1>f, <1>g, <1>h DEF IInv, TypeOK
  <2>3. /\ pc' \in [Conns -> PCs] /\ pc'[c] # "free" /\ pc[c] # "free"
        /\ req' \in [Conns -> Message \cup {None}]
        /\ ans' \in [Conns -> Response \cup {None}]
        /\ \A d \in Conns \ {c} : pc'[d] = pc[d]
    BY DEF IInv, TypeOK, PCs, Written, Writing
  <2>4. UNCHANGED <<mem, end, link, proto, asked, everRun>>
    BY DEF Written
  <2>5. QED
    BY <2>1, <2>2, <2>3, <2>4 DEF IInv, TypeOK
<1>2. OnlyConn(c) /\ UNCHANGED <<mem, everRun>>
  BY <1>e, <1>g DEF IInv, TypeOK, OnlyConn, Written
<1>3. Local(c)'
  BY <1>a, <1>e DEF IInv, TypeOK, Local, Writing, Written
<1>4. Owed(c)'
  <2>1. /\ link'[c] = link[c] /\ InHand(c) = 1 /\ InHand(c)' = 0
        /\ asked'[c] = asked[c] /\ in'[c] = q /\ out'[c] = o
    BY <1>e, <1>g DEF IInv, TypeOK, InHand, Handling, Writing, Written
  <2>2. SUFFICES ASSUME link[c] # "gone"
                 PROVE  Len(o) + Len(q) <= Len(asked[c])
    BY <2>1, <1>f, <1>h DEF Owed
  <2>3. Len(out[c]) + 1 + Len(in[c]) <= Len(asked[c])
    BY <2>1, <2>2, <1>a DEF Owed
  <2>4. QED
    BY <2>3, <1>a, <1>f, <1>h, Sums DEF Counts
<1>5. Quiet(c)
  <2>1. /\ ans'[c] = None /\ proto'[c] = proto[c] /\ end'[c] = end[c]
        /\ pc'[c] = p /\ out'[c] = o
    BY <1>g DEF IInv, TypeOK, Written
  <2>2. QED
    BY <2>1, <1>i DEF Quiet, Answers
<1>6. QED
  BY <1>1, <1>2, <1>3, <1>4, <1>5, QuietStep

LEMMA WriteStep ==
  ASSUME IInv, NEW c \in Conns, Write(c) \/ WriteLost(c)
  PROVE  IInv'
BY WrittenStep DEF Write, WriteLost, AfterWrite, Writing
-----------------------------------------------------------------------------
(* The handler decides on its answer, having called the memory or not.     *)
LEMMA ReplyStep ==
  ASSUME IInv, NEW c \in Conns, pc[c] \in Handling,
         NEW code \in Code, NEW p \in {"answer", "answer_or_close"},
         Reply(c, code, p), UNCHANGED <<end, link, proto, in, req, out, asked>>,
         mem' \in [Memories -> [Areas -> Content]],
         \A m \in Memories : \A a \in Areas : mem'[m][a] \in Cells(m, a),
         everRun' \in [Memories -> BOOLEAN],
         UNCHANGED <<mem, everRun>> \/ Remember,
         \A m \in Memories : ~ everRun[m] => BusyFor(c, m)'
  PROVE  IInv'
<1> USE DEF Goto
<1>a. req[c] \in Adus \cup Packets /\ Owed(c) /\ Counts(c) /\ Local(c)
  BY CountsOK DEF IInv, Local, Handling
<1>b. Answer(req[c], code) \in Response /\ Answer(req[c], code) # None
  BY <1>a, AnswerType
<1>1. TypeOK'
  <2>1. pc' \in [Conns -> PCs] /\ ans' \in [Conns -> Response \cup {None}]
    BY <1>b DEF IInv, TypeOK, PCs, Reply
  <2>2. \A d \in Conns : pc'[d] # "free" => end[d] \in Endpoints
    BY DEF IInv, TypeOK, Reply, Handling
  <2>3. QED
    BY <2>1, <2>2 DEF IInv, TypeOK
<1>2. OnlyConn(c)
  BY DEF IInv, TypeOK, OnlyConn, Reply
<1>c. pc'[c] = p /\ ans'[c] = Answer(req[c], code)
  BY DEF IInv, TypeOK, Reply
<1>3. Local(c)'
  BY <1>a, <1>b, <1>c DEF Local, Handling, Writing
<1>4. Owed(c)'
  <2>1. InHand(c)' = InHand(c)
    BY <1>c DEF InHand, Handling, Writing
  <2>2. QED
    BY <2>1, <1>a DEF Owed
<1>5. QED
  BY <1>1, <1>2, <1>3, <1>4, ConnStep

LEMMA SealCheckStep ==
  ASSUME IInv, NEW c \in Conns, SealCheck(c)
  PROVE  IInv'
<1> USE DEF Goto
<1>a. pc[c] = "seal" /\ req[c] \in Adus
  BY DEF SealCheck, IInv, Local
<1>b. mem \in [Memories -> [Areas -> Content]] /\ everRun \in [Memories -> BOOLEAN]
      /\ \A m \in Memories : \A a \in Areas : mem[m][a] \in Cells(m, a)
  BY DEF IInv, TypeOK
<1> DEFINE n == Target(c, req[c])
<1>1. CASE n \in Memories /\ Sealed(n)
  <2>1. Reply(c, "device_busy", "answer") /\ "device_busy" \in Code
    BY <1>1 DEF SealCheck, Code
  <2>2. ASSUME NEW m \in Memories, ~ everRun[m]
        PROVE  BusyFor(c, m)'
    <3>1. ans'[c] = Answer(req[c], "device_busy") /\ pc'[c] \in Writing
      BY <2>1 DEF IInv, TypeOK, Reply, Writing
    <3>2. QED
      BY <2>1, <2>2, <3>1, <1>a, ReplyBusy DEF SealCheck
  <2>3. QED
    BY <2>1, <2>2, <1>a, <1>b, ReplyStep DEF SealCheck, Handling
<1>2. CASE ~ (n \in Memories /\ Sealed(n))
  <2>0. Goto(c, "authorize") /\ UNCHANGED ans
    BY <1>2 DEF SealCheck
  <2>1. TypeOK'
    BY <2>0, <1>a DEF SealCheck, IInv, TypeOK, PCs
  <2>2. OnlyConn(c) /\ UNCHANGED <<mem, everRun>>
    BY <2>0 DEF SealCheck, IInv, TypeOK, OnlyConn
  <2>c. pc'[c] = "authorize"
    BY <2>0 DEF IInv, TypeOK
  <2>d. Local(c) /\ Owed(c)
    BY DEF IInv
  <2>3. Local(c)'
    BY <2>0, <2>c, <2>d, <1>a DEF SealCheck, Local, Writing
  <2>4. Owed(c)'
    <3>1. InHand(c)' = InHand(c)
      BY <2>c, <1>a DEF InHand, Handling
    <3>2. QED
      BY <3>1, <2>d DEF Owed, SealCheck
  <2>5. ASSUME NEW m \in Memories, ~ everRun[m]
        PROVE  BusyFor(c, m)'
    <3>1. Sealed(m) /\ BusyFor(c, m)
      BY <2>5 DEF IInv, BusyUntilIngest
    <3>2. Target(c, req[c])' = n /\ Answers(c)' = Answers(c)
      BY <2>0 DEF SealCheck, Target, Answers
    <3>3. n # m
      BY <3>1, <1>2
    <3>4. QED
      BY <3>1, <3>2, <3>3 DEF BusyFor, SealCheck
  <2>6. QED
    BY <2>1, <2>2, <2>3, <2>4, <2>5, ConnStep
<1>3. QED
  BY <1>1, <1>2

LEMMA AuthorizeStep ==
  ASSUME IInv, NEW c \in Conns, Authorize(c)
  PROVE  IInv'
<1> USE DEF Goto
<1>a. pc[c] = "authorize" /\ req[c] \in Adus /\ Local(c) /\ Owed(c)
  BY DEF Authorize, IInv, Local
<1>b. mem \in [Memories -> [Areas -> Content]] /\ everRun \in [Memories -> BOOLEAN]
      /\ \A m \in Memories : \A a \in Areas : mem[m][a] \in Cells(m, a)
  BY DEF IInv, TypeOK
<1> DEFINE ok == Allowed(Target(c, req[c]), end[c].source, req[c].fc)
<1>1. CASE ~ ok
  <2>1. Reply(c, "illegal_function", "answer") /\ "illegal_function" \in Code
    BY <1>1 DEF Authorize, Code
  <2>2. ASSUME NEW m \in Memories, ~ everRun[m]
        PROVE  BusyFor(c, m)'
    <3>1. ans'[c] = Answer(req[c], "illegal_function") /\ pc'[c] \in Writing
      BY <2>1 DEF IInv, TypeOK, Reply, Writing
    <3>2. QED
      BY <2>1, <2>2, <3>1, <1>a, ReplyBusy DEF Authorize
  <2>3. QED
    BY <2>1, <2>2, <1>a, <1>b, ReplyStep DEF Authorize, Handling
<1>2. CASE ok
  <2>0. Goto(c, "dispatch") /\ UNCHANGED ans
    BY <1>2 DEF Authorize
  <2>1. TypeOK'
    BY <2>0, <1>a DEF Authorize, IInv, TypeOK, PCs
  <2>2. OnlyConn(c) /\ UNCHANGED <<mem, everRun>>
    BY <2>0 DEF Authorize, IInv, TypeOK, OnlyConn
  <2>c. pc'[c] = "dispatch"
    BY <2>0 DEF IInv, TypeOK
  <2>3. Local(c)'
    <3>1. Allowed(Target(c, req[c]), end[c].source, req[c].fc)'
      BY <1>2 DEF Authorize, Allowed, Target
    <3>2. QED
      BY <3>1, <2>0, <2>c, <1>a DEF Authorize, Local, Writing
  <2>4. Owed(c)'
    <3>1. InHand(c)' = InHand(c)
      BY <2>c, <1>a DEF InHand, Handling
    <3>2. QED
      BY <3>1, <1>a DEF Owed, Authorize
  <2>5. Quiet(c)
    BY <2>0, <1>a DEF Quiet, Answers, Authorize
  <2>6. QED
    BY <2>1, <2>2, <2>3, <2>4, <2>5, QuietStep
<1>3. QED
  BY <1>1, <1>2

(* The write calls of the two protocols are well formed.                   *)
LEMMA CallOfType ==
  ASSUME NEW a \in Adus, a.fc \in Supported
  PROVE  /\ CallOf(a).area \in Areas /\ CallOf(a).address \in Nat
         /\ CallOf(a).count \in Nat
         /\ CallOf(a).data \in [0 .. (CallOf(a).count - 1) -> Value]
         /\ IsWrite(CallOf(a)) =>
              CallOf(a).area \in {"coils", "holding_registers"}
<1>1. /\ a.address \in UInt16 /\ a.count \in UInt16
      /\ a.data \in [0 .. (a.count - 1) -> Value]
  BY MessageAssumption
<1>2. a.address \in Nat /\ a.count \in Nat
  BY <1>1, UInt16Nat
<1>3. AreaOf(a.fc) \in Areas
  BY DEF AreaOf, Areas, BitAreas, RegAreas, Supported
<1>4. FnOf(a.fc) \in WriteCalls => AreaOf(a.fc) \in {"coils", "holding_registers"}
  BY DEF FnOf, AreaOf, Supported, WriteCalls
<1>5. /\ CallOf(a).area = AreaOf(a.fc) /\ CallOf(a).fn = FnOf(a.fc)
      /\ CallOf(a).address = a.address /\ CallOf(a).count = a.count
      /\ CallOf(a).data = a.data
  BY DEF CallOf
<1>6. QED
  BY <1>1, <1>2, <1>3, <1>4, <1>5 DEF IsWrite

LEMMA IngestType ==
  ASSUME NEW p \in Packets
  PROVE  /\ Ingest(p).area \in Areas /\ Ingest(p).address \in Nat
         /\ Ingest(p).count \in Nat
         /\ Ingest(p).data \in [0 .. (Ingest(p).count - 1) -> Value]
<1>1. /\ p.address \in UInt16 /\ p.count \in UInt16 /\ p.area \in Areas
      /\ p.data \in [0 .. (p.count - 1) -> Value]
  BY MessageAssumption
<1>2. p.address \in Nat /\ p.count \in Nat
  BY <1>1, UInt16Nat
<1>3. /\ Ingest(p).area = p.area /\ Ingest(p).data = p.data
      /\ Ingest(p).address = p.address /\ Ingest(p).count = p.count
  BY DEF Ingest
<1>4. QED
  BY <1>1, <1>2, <1>3

(* What a dispatch may do to the memories.                                 *)
LEMMA DispatchEffect ==
  ASSUME IInv, NEW c \in Conns, Dispatch(c)
  PROVE  /\ mem' \in [Memories -> [Areas -> Content]]
         /\ \A m \in Memories : \A a \in Areas : mem'[m][a] \in Cells(m, a)
         /\ \A m \in Memories : mem'[m] # mem[m] =>
              /\ m = Target(c, req[c]) /\ req[c].fc \in Supported
              /\ IsWrite(CallOf(req[c])) /\ mem' = Updated(m, CallOf(req[c]))
<1> DEFINE n == Target(c, req[c])
           r == CallOf(req[c])
<1>1. req[c] \in Adus /\ TypeOK
  BY DEF Dispatch, IInv, Local
<1>2. CASE DispatchCode(n, req[c]) = "ok" /\ IsWrite(r)
  <2>1. n \in Memories /\ req[c].fc \in Supported
    BY <1>2 DEF DispatchCode
  <2>2. mem' = Updated(n, r)
    BY <1>2 DEF Dispatch
  <2>3. /\ r.area \in Areas /\ r.address \in Nat /\ r.count \in Nat
        /\ r.data \in [0 .. (r.count - 1) -> Value]
    BY <1>1, <2>1, CallOfType
  <2> HIDE DEF n, r
  <2>4. /\ Updated(n, r) \in [Memories -> [Areas -> Content]]
        /\ \A k \in Memories : \A a \in Areas : Updated(n, r)[k][a] \in Cells(k, a)
        /\ \A k \in Memories \ {n} : Updated(n, r)[k] = mem[k]
    BY <1>1, <2>1, <2>3, UpdatedType
  <2>5. QED
    BY <1>2, <2>1, <2>2, <2>4 DEF n, r
<1>3. CASE ~ (DispatchCode(n, req[c]) = "ok" /\ IsWrite(r))
  <2>1. mem' = mem
    BY <1>3 DEF Dispatch
  <2>2. QED
    BY <2>1, <1>1 DEF TypeOK
<1>4. QED
  BY <1>2, <1>3

LEMMA ApplyEffect ==
  ASSUME IInv, NEW c \in Conns, Apply(c)
  PROVE  /\ mem' \in [Memories -> [Areas -> Content]]
         /\ \A m \in Memories : \A a \in Areas : mem'[m][a] \in Cells(m, a)
         /\ \A m \in Memories : mem'[m] # mem[m] => m = Target(c, req[c])
<1> DEFINE n == Target(c, req[c])
           r == Ingest(req[c])
<1>1. req[c] \in Packets /\ TypeOK
  BY DEF Apply, IInv, Local
<1>2. CASE IngestCode(n, req[c]) = "OK"
  <2>1. n \in Memories
    BY <1>2 DEF IngestCode
  <2>2. mem' = Updated(n, r)
    BY <1>2 DEF Apply
  <2>3. /\ r.area \in Areas /\ r.address \in Nat /\ r.count \in Nat
        /\ r.data \in [0 .. (r.count - 1) -> Value]
    BY <1>1, IngestType
  <2> HIDE DEF n, r
  <2>4. /\ Updated(n, r) \in [Memories -> [Areas -> Content]]
        /\ \A k \in Memories : \A a \in Areas : Updated(n, r)[k][a] \in Cells(k, a)
        /\ \A k \in Memories \ {n} : Updated(n, r)[k] = mem[k]
    BY <1>1, <2>1, <2>3, UpdatedType
  <2>5. QED
    BY <2>2, <2>4 DEF n
<1>3. CASE IngestCode(n, req[c]) # "OK"
  <2>1. mem' = mem
    BY <1>3 DEF Apply
  <2>2. QED
    BY <2>1, <1>1 DEF TypeOK
<1>4. QED
  BY <1>2, <1>3

LEMMA DispatchStep ==
  ASSUME IInv, NEW c \in Conns, Dispatch(c)
  PROVE  IInv'
<1> USE DEF Goto
<1>a. pc[c] = "dispatch" /\ req[c] \in Adus
  BY DEF Dispatch, IInv, Local
<1>b. everRun' \in [Memories -> BOOLEAN]
  BY DEF Dispatch, Remember
<1>1. PICK code \in Code : Reply(c, code, "answer_or_close")
  BY DEF Dispatch, DispatchCode, Code
<1>2. ASSUME NEW m \in Memories, ~ everRun[m]
      PROVE  BusyFor(c, m)'
  <2>1. ans'[c] = Answer(req[c], code) /\ pc'[c] \in Writing
    BY <1>1 DEF IInv, TypeOK, Reply, Writing
  <2>2. QED
    BY <1>2, <2>1, <1>a, ReplyBusy DEF Dispatch
<1>3. QED
  BY <1>1, <1>2, <1>a, <1>b, DispatchEffect, ReplyStep DEF Dispatch, Handling

LEMMA ApplyStep ==
  ASSUME IInv, NEW c \in Conns, Apply(c)
  PROVE  IInv'
<1> USE DEF Goto
<1>a. pc[c] = "apply" /\ proto[c] = "raw"
  BY DEF Apply, IInv, Local
<1>b. everRun' \in [Memories -> BOOLEAN]
  BY DEF Apply, Remember
<1>1. PICK code \in Code : Reply(c, code, "answer")
  BY DEF Apply, IngestCode, Code
<1>2. ASSUME NEW m \in Memories, ~ everRun[m]
      PROVE  BusyFor(c, m)'
  <2>1. pc'[c] = "answer" /\ proto'[c] = "raw"
    BY <1>1, <1>a DEF IInv, TypeOK, Reply, Apply
  <2>2. QED
    BY <2>1 DEF BusyFor
<1>3. QED
  BY <1>1, <1>2, <1>a, <1>b, ApplyEffect, ReplyStep DEF Apply, Handling
-----------------------------------------------------------------------------
LEMMA StepIInv ==
  ASSUME IInv, [Next]_vars
  PROVE  IInv'
<1>1. ASSUME NEW c \in Conns, Client(c) \/ Server(c)
      PROVE  IInv'
  BY <1>1, ClientStep, IngressStep, ReadStep, DecodeOneFailsStep, WriteStep,
     SealCheckStep, AuthorizeStep, DispatchStep, ApplyStep
     DEF Server, Modbus, Raw, Reads
<1>2. CASE Restart
  <2>1. TypeOK'
    BY <1>2, BlankType, BoundAssumption, EmptyFacts DEF Restart, TypeOK, PCs
  <2>2. \A c \in Conns : Local(c)' /\ Owed(c)'
    BY <1>2 DEF Restart, Local, Writing, Owed
  <2>3. RunOK'
    BY <1>2 DEF Restart, RunOK
  <2>4. ASSUME NEW m \in Memories, ~ everRun'[m]
        PROVE  Sealed(m)' /\ \A c \in Conns : BusyFor(c, m)'
    <3>1. Sealed(m)'
      BY <1>2, <2>4, BlankFlag DEF Restart, Sealed
    <3>2. QED
      BY <1>2, <3>1 DEF Restart, BusyFor
  <2>5. BusyUntilIngest'
    BY <2>4 DEF BusyUntilIngest
  <2>6. QED
    BY <2>1, <2>2, <2>3, <2>5 DEF IInv
<1>3. CASE UNCHANGED vars
  <2>1. TypeOK' /\ RunOK'
    BY <1>3 DEF IInv, TypeOK, RunOK, vars, conns
  <2>2. ASSUME NEW c \in Conns
        PROVE  Local(c)' /\ Owed(c)'
    <3>1. Target(c, req[c])' = Target(c, req[c])
      BY <1>3 DEF vars, conns, Target
    <3>2. QED
      BY <1>3, <3>1 DEF IInv, vars, conns, Local, Allowed, Owed, InHand
  <2>3. ASSUME NEW m \in Memories, ~ everRun'[m]
        PROVE  Sealed(m)' /\ \A c \in Conns : BusyFor(c, m)'
    <3>1. Sealed(m)' /\ ~ everRun[m]
      BY <1>3, <2>3 DEF IInv, BusyUntilIngest, Sealed, vars
    <3>2. ASSUME NEW c \in Conns
          PROVE  BusyFor(c, m)'
      <4>1. BusyFor(c, m)
        BY <3>1 DEF IInv, BusyUntilIngest
      <4>2. Answers(c)' = Answers(c) /\ Target(c, req[c])' = Target(c, req[c])
        BY <1>3 DEF vars, conns, Answers, Target
      <4>3. QED
        BY <1>3, <4>1, <4>2 DEF vars, conns, BusyFor
    <3>3. QED
      BY <3>1, <3>2
  <2>4. BusyUntilIngest'
    BY <2>3 DEF BusyUntilIngest
  <2>5. QED
    BY <2>1, <2>2, <2>4 DEF IInv
<1>4. QED
  BY <1>1, <1>2, <1>3 DEF Next
-----------------------------------------------------------------------------
(* The invariant of the specification.                                     *)
THEOREM Invariance == Spec => []IInv
BY InitIInv, StepIInv, PTL DEF Spec

(* Memories keep their shape, queues their bounds, and every connection in *)
(* use belongs to somebody, whatever HandleConn of either transport does.  *)
THEOREM TypeSafety == Spec => []TypeOK
<1>1. IInv => TypeOK
  BY DEF IInv
<1>2. QED
  BY <1>1, Invariance, PTL

(* Until an ingest has set the flag of a memory, handle_conn.go answers    *)
(* every Modbus request to it with Device Busy, and dispatches none.       *)
THEOREM SealingHolds == Spec => []BusyUntilIngest
<1>1. IInv => BusyUntilIngest
  BY DEF IInv
<1>2. QED
  BY <1>1, Invariance, PTL
-----------------------------------------------------------------------------
(* Which steps touch the memories.                                         *)
LEMMA MemorySteps ==
  ASSUME [Next]_vars
  PROVE  \/ UNCHANGED <<mem, everRun>>
         \/ Restart
         \/ \E c \in Conns : Dispatch(c) \/ Apply(c)
<1>1. ASSUME NEW c \in Conns, Client(c) \/ Ingress(c)
      PROVE  UNCHANGED <<mem, everRun>>
  BY <1>1 DEF Client, Connect, Send, Shut, Leave, Receive, Ingress, Classify,
              PeekFails, StreamEnds, Forget, Close
<1>2. ASSUME NEW c \in Conns, Server(c), ~ Ingress(c), ~ Dispatch(c), ~ Apply(c)
      PROVE  UNCHANGED <<mem, everRun>>
  BY <1>2 DEF Server, Modbus, Raw, ReadRequest, ReadRequestFails, SealCheck,
              Authorize, DecodeOne, DecodeOneFails, Take, Close, Write,
              WriteLost, Written
<1>3. QED
  BY <1>1, <1>2 DEF Next, vars

(* A call is made by the goroutine the message came to, which then goes on *)
(* to write the answer.                                                    *)
LEMMA Caller ==
  ASSUME IInv, NEW c \in Conns, Dispatch(c) \/ Apply(c), NEW m \in Memories
  PROVE  /\ pc'[c] \in Writing
         /\ m = Target(c, req[c]) => Names(c, m)
         /\ Remember
<1>1. pc'[c] \in Writing
  BY DEF IInv, TypeOK, Dispatch, Apply, Reply, Goto, Writing
<1>2. QED
  BY <1>1 DEF Target, Names, Dispatch, Apply

LEMMA FirstUnsealStep ==
  ASSUME IInv, [Next]_vars
  PROVE  FirstUnseal
<1> SUFFICES ASSUME NEW m \in Memories, ~ everRun[m], everRun'[m]
             PROVE  \E c \in Conns :
                      pc[c] = "apply" /\ pc'[c] # "apply" /\ Names(c, m)
  BY DEF FirstUnseal
<1>1. CASE Restart
  BY <1>1 DEF Restart, IInv, RunOK
<1>2. ASSUME NEW c \in Conns, Dispatch(c) \/ Apply(c)
      PROVE  pc[c] = "apply" /\ pc'[c] # "apply" /\ Names(c, m)
  <2>1. Sealed(m) /\ BusyFor(c, m)
    BY DEF IInv, BusyUntilIngest
  <2>2. ~ Sealed(m)'
    BY <1>2, Caller DEF Remember
  <2>3. mem'[m] # mem[m]
    BY <2>1, <2>2 DEF Sealed
  <2>4. m = Target(c, req[c])
    BY <1>2, <2>3, DispatchEffect, ApplyEffect
  <2>5. ~ Dispatch(c)
    BY <2>1, <2>4 DEF BusyFor, Dispatch
  <2>6. QED
    BY <1>2, <2>4, <2>5, Caller DEF Apply, Writing
<1>3. QED
  BY <1>1, <1>2, MemorySteps

(* The first step that takes a memory out of PRE-RUN is a write of         *)
(* rawingest.HandleConn to it, never one of modbus.HandleConn.             *)
THEOREM OnlyIngestUnseals == Spec => IngestUnseals
<1>1. IInv /\ [Next]_vars => [FirstUnseal]_vars
  BY FirstUnsealStep
<1>2. QED
  BY <1>1, Invariance, PTL DEF Spec, IngestUnseals

(* The first rule that matches is the one no earlier rule precedes.        *)
LEMMA AllowedGranted ==
  ASSUME NEW m, NEW source, NEW fc, Allowed(m, source, fc)
  PROVE  Granted(Policy[m], source, fc)
<1>1. m \in Memories
  BY DEF Allowed
<1>2. Len(Policy[m]) \in Nat /\ DOMAIN Policy[m] = 1 .. Len(Policy[m])
  BY <1>1, PolicyAssumption
<1>3. PICK i \in 1 .. Len(Policy[m]) :
        /\ source \in Policy[m][i].sources /\ fc \in Policy[m][i].fcs
        /\ \A j \in 1 .. Len(Policy[m]) :
             source \in Policy[m][j].sources => i <= j
  BY <1>2 DEF Allowed
<1>4. \A j \in 1 .. (i - 1) : source \notin Policy[m][j].sources
  <2> SUFFICES ASSUME NEW j \in 1 .. (i - 1), source \in Policy[m][j].sources
               PROVE  FALSE
    OBVIOUS
  <2>1. j \in 1 .. Len(Policy[m]) /\ ~ (i <= j)
    BY <1>2
  <2>2. QED
    BY <2>1, <1>3
<1>5. QED
  BY <1>2, <1>3, <1>4 DEF Granted

LEMMA EveryChangeStep ==
  ASSUME IInv, [Next]_vars
  PROVE  EveryChange
<1> SUFFICES ASSUME NEW m \in Memories, mem'[m] # mem[m]
             PROVE  \/ mem'[m] = Blank[m] /\ \A c \in Conns : pc'[c] = "free"
                    \/ \E c \in Conns : MayChange(c, m)
  BY DEF EveryChange
<1>1. CASE Restart
  BY <1>1 DEF Restart
<1>2. ASSUME NEW c \in Conns, Apply(c)
      PROVE  MayChange(c, m)
  BY <1>2, ApplyEffect, Caller DEF MayChange, Apply, Writing
<1>3. ASSUME NEW c \in Conns, Dispatch(c)
      PROVE  MayChange(c, m)
  <2>1. /\ m = Target(c, req[c]) /\ req[c].fc \in Supported
        /\ IsWrite(CallOf(req[c])) /\ mem' = Updated(m, CallOf(req[c]))
    BY <1>3, DispatchEffect
  <2>2. pc[c] = "dispatch" /\ pc'[c] # pc[c] /\ Names(c, m) /\ req[c] \in Adus
    BY <1>3, <2>1, Caller DEF Dispatch, Writing, IInv, Local
  <2>3. Granted(Policy[m], end[c].source, req[c].fc)
    BY <2>1, <2>2, AllowedGranted DEF IInv, Local
  <2>4. CallOf(req[c]).area \in {"coils", "holding_registers"}
    BY <2>1, <2>2, CallOfType
  <2>5. \A a \in {"discrete_inputs", "input_registers"} : mem'[m][a] = mem[m][a]
    <3>1. mem \in [Memories -> [Areas -> Content]]
      BY DEF IInv, TypeOK
    <3>2. {"discrete_inputs", "input_registers"} \subseteq Areas
      BY DEF Areas, BitAreas, RegAreas
    <3>3. QED
      BY <2>1, <2>4, <3>1, <3>2 DEF Updated
  <2>6. QED
    BY <2>2, <2>3, <2>5 DEF MayChange
<1>4. QED
  BY <1>1, <1>2, <1>3, MemorySteps

(* Only what the raw port or the first matching rule of authority.go lets  *)
(* through changes a memory, and Modbus never its input areas.             *)
THEOREM AuthorizedChanges == Spec => ChangesAreAuthorized
<1>1. IInv /\ [Next]_vars => [EveryChange]_vars
  BY EveryChangeStep
<1>2. QED
  BY <1>1, Invariance, PTL DEF Spec, ChangesAreAuthorized
=============================================================================
