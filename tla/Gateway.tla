------------------------------ MODULE Gateway ------------------------------
(***************************************************************************)
(* The running gateway: TCP connections, the two protocol handlers, the    *)
(* access policies, state sealing and the memories they share.             *)
(*                                                                         *)
(* internal/ingress accepts and classifies a connection; one goroutine per *)
(* connection then runs transport/modbus or transport/rawingest HandleConn *)
(* until it closes.  A call of memorycore is one step here, which is what  *)
(* MemoryCore is shown to implement; between two calls of one handler,     *)
(* notably between the sealing check and the dispatch, anything may run.   *)
(*                                                                         *)
(* A message stands for the bytes the handler's own framing takes as one   *)
(* message.  Contents the handlers treat alike are one message.            *)
(***************************************************************************)
EXTENDS MemoryOps, Sequences

CONSTANTS
  Conns,     \* slots for TCP connections
  Endpoints, \* [port, source, speaks]: who may connect, and to which port
  Memories,  \* the configured MemoryIDs [port, unit]
  Layouts,   \* Layouts[m][a], as in MemoryCore
  Flag,      \* Flag[m]: coil address of the sealing flag, or NoFlag
  NoFlag,
  Policy,    \* Policy[m]: the access rules [sources, fcs], in order
  Adus,      \* the Modbus requests clients may send
  Packets,   \* the raw ingest packets clients may send
  Malformed, \* what else they may send, of Malformations below
  Value,     \* what an element may hold; 0 is what make() puts there
  InCap,     \* bound: messages a client may have sent ahead of the handler
  OutCap,    \* bound: answers the sockets hold for a client that reads late
  Patient    \* the connections whose clients keep reading (liveness only)

RI == 21065                     \* 'R','I' read as a Modbus transaction id
Supported == {1, 2, 3, 4, 5, 6, 15, 16}


(* What a handler's framing does not take as a message: an MBAP length of  *)
(* 0 or 1, a bad magic, version, area or count; and a client's last        *)
(* message cut short within its first two bytes, elsewhere, or exactly     *)
(* between a header and its payload.                                       *)
Malformations ==
  [kind : {"bad"}, speaks : {"modbus"}, lead : {"other"}]
    \cup [kind : {"bad"}, speaks : {"raw"}, lead : {"RI"}]
    \cup [kind : {"cut"}, speaks : {"modbus", "raw"}, lead : {"short"},
          at : {"inside"}]
    \cup [kind : {"cut"}, speaks : {"modbus"}, lead : {"other"},
          at : {"inside", "boundary"}]
    \cup [kind : {"cut"}, speaks : {"raw"}, lead : {"RI"},
          at : {"inside", "boundary"}]

ASSUME EndpointAssumption == \A e \in Endpoints :
  e.port \in UInt16 /\ e.speaks \in {"modbus", "raw"}
ASSUME MemoryAssumption ==
  /\ Memories \subseteq [port : UInt16 \ {0}, unit : UInt16 \ {0}]
  /\ \A m \in Memories :
       /\ \A a \in Areas :
            /\ Layouts[m][a] \in LayoutType
            /\ Defined(Layouts[m][a]) => ValidLayout(Layouts[m][a])
       /\ Flag[m] # NoFlag => /\ Flag[m] \in UInt16
                              /\ Contains(Layouts[m]["coils"], Flag[m], 1)
ASSUME PolicyAssumption == \A m \in Memories :
  Len(Policy[m]) \in Nat /\ DOMAIN Policy[m] = 1 .. Len(Policy[m])
ASSUME ValueAssumption == {0, 1} \subseteq Value
ASSUME MessageAssumption ==
  /\ \A a \in Adus : /\ a.kind = "adu" /\ a.tx \in UInt16 /\ a.unit \in 0 .. 255
                     /\ a.address \in UInt16 /\ a.count \in UInt16
                     /\ a.data \in [0 .. (a.count - 1) -> Value]
  /\ \A p \in Packets : /\ p.kind = "packet" /\ p.unit \in UInt16
                        /\ p.area \in Areas
                        /\ p.address \in UInt16 /\ p.count \in UInt16 \ {0}
                        /\ p.data \in [0 .. (p.count - 1) -> Value]
  /\ Malformed \subseteq Malformations
ASSUME BoundAssumption == InCap \in Nat \ {0} /\ OutCap \in Nat \ {0}

VARIABLES
  mem,     \* mem[m][a][x]: the element at address x of area a of memory m
  pc,      \* where each connection's goroutine is
  end,     \* end[c]: port, client address, and what the client speaks
  link,    \* "up"; "shut": the client sends no more; "gone": nor does it read
  proto,   \* the protocol the connection was classified as
  in,      \* messages sent and not yet taken by the handler
  req,     \* the message being handled
  ans,     \* the answer about to be written
  out,     \* answers written and not yet read by the client
  asked,   \* history: messages the client has had no answer to
  everRun  \* history: the memory has been out of PRE-RUN since the start

conns == <<pc, end, link, proto, in, req, ans, out, asked>>
vars  == <<mem, conns, everRun>>

PCs == {"free", "classify", "read", "seal", "authorize", "dispatch", "apply",
        "answer", "answer_or_close", "farewell", "closed"}

None       == [kind |-> "none"]
Goto(c, p) == pc' = [pc EXCEPT ![c] = p]
-----------------------------------------------------------------------------
(* What a client may put on its connection.                                *)
Messages(speaks) ==
  (IF speaks = "raw" THEN Packets ELSE Adus)
    \cup {m \in Malformed : m.speaks = speaks}

(* The first two bytes of a message.                                       *)
Lead(m) == CASE m.kind = "adu"    -> IF m.tx = RI THEN "RI" ELSE "other"
             [] m.kind = "packet" -> "RI"
             [] OTHER             -> m.lead

Answer(m, code) == IF m.kind = "adu"
                   THEN [tx |-> m.tx, unit |-> m.unit, code |-> code]
                   ELSE [code |-> code]

(* The memory a message names: the connection's port and the unit id.      *)
Target(c, m) == [port |-> end[c].port, unit |-> m.unit]
-----------------------------------------------------------------------------
(* One memorycore call: Accepted says whether it returns nil.              *)
AddressesOf(l) == l.start .. (l.start + l.size - 1)

(* A bug the runs must notice: one element too many is written.            *)
UpdatedOneMore(m, r) ==
  [mem EXCEPT ![m][r.area] =
     [x \in DOMAIN @ \cup (r.address .. (r.address + r.count)) |->
        IF x \in r.address .. (r.address + r.count - 1)
        THEN r.data[x - r.address] ELSE 0]]

Updated(m, r) ==
  [mem EXCEPT ![m][r.area] =
     [x \in DOMAIN @ |->
        IF x \in r.address .. (r.address + r.count - 1)
        THEN r.data[x - r.address] ELSE @[x]]]

Blank == [m \in Memories |-> [a \in Areas |->
            [x \in AddressesOf(Layouts[m][a]) |-> 0]]]

FlagRead(m) == [fn |-> "ReadBits", area |-> "coils", address |-> Flag[m],
                count |-> 1, blen |-> 1]

(* The flag is configured and cannot be read or reads 0.                   *)
Sealed(m) ==
  /\ Flag[m] # NoFlag
  /\ Accepted(Layouts[m], FlagRead(m)) => mem[m]["coils"][Flag[m]] = 0

Remember == everRun' = [m \in Memories |-> everRun[m] \/ ~ Sealed(m)']

(* A bug the runs must notice: any matching rule may allow.                *)
AllowedByAny(m, source, fc) ==
  /\ m \in Memories
  /\ \E i \in DOMAIN Policy[m] :
       source \in Policy[m][i].sources /\ fc \in Policy[m][i].fcs

(* authority.Evaluate: the first rule that matches the source decides; no  *)
(* rule, no access.  Its own sealing flags are never set by the program.   *)
Allowed(m, source, fc) ==
  /\ m \in Memories
  /\ \E i \in DOMAIN Policy[m] :
       /\ source \in Policy[m][i].sources
       /\ \A j \in DOMAIN Policy[m] :
            source \in Policy[m][j].sources => i <= j
       /\ fc \in Policy[m][i].fcs

(* DispatchMemory.  "fits" says that the payload has the length and byte   *)
(* count its function code demands and, for FC5, a legal value; only the   *)
(* register reads leave a zero quantity to the memory.                     *)
Decodes(a) == a.fits /\ (a.count = 0 => a.fc \in {3, 4})

FnOf(fc) == CASE fc \in {1, 2} -> "ReadBits"  [] fc \in {3, 4}  -> "ReadRegs"
              [] fc \in {5, 15} -> "WriteBits" [] fc \in {6, 16} -> "WriteRegs"
AreaOf(fc) == CASE fc \in {1, 5, 15} -> "coils" [] fc = 2 -> "discrete_inputs"
                [] fc \in {3, 6, 16} -> "holding_registers"
                [] fc = 4 -> "input_registers"

CallOf(a) == [fn |-> FnOf(a.fc), area |-> AreaOf(a.fc), address |-> a.address,
              count |-> a.count, blen |-> Want(AreaOf(a.fc), a.count),
              data |-> a.data]

DispatchCode(m, a) ==
  CASE a.fc \notin Supported -> "illegal_function"
    [] a.fc \in Supported /\ ~ Decodes(a) -> "illegal_value"
    [] OTHER -> IF m \in Memories /\ Accepted(Layouts[m], CallOf(a))
                THEN "ok" ELSE "illegal_address"

(* The raw ingest write: every packet that decodes has a payload of the    *)
(* length its area and count demand.                                       *)
Ingest(p) == [fn |-> IF p.area \in BitAreas THEN "WriteBits" ELSE "WriteRegs",
              area |-> p.area, address |-> p.address, count |-> p.count,
              blen |-> Want(p.area, p.count), data |-> p.data]

(* A bug the runs must notice: what the memory call returns is ignored.    *)
IngestCodeUnchecked(m, p) == IF m \in Memories THEN "OK" ELSE "REJECTED"

IngestCode(m, p) == IF m \in Memories /\ Accepted(Layouts[m], Ingest(p))
                    THEN "OK" ELSE "REJECTED"
-----------------------------------------------------------------------------
Init ==
  /\ mem     = Blank
  /\ pc      = [c \in Conns |-> "free"]
  /\ end     = [c \in Conns |-> None]
  /\ link    = [c \in Conns |-> "gone"]
  /\ proto   = [c \in Conns |-> "none"]
  /\ in      = [c \in Conns |-> <<>>]
  /\ req     = [c \in Conns |-> None]
  /\ ans     = [c \in Conns |-> None]
  /\ out     = [c \in Conns |-> <<>>]
  /\ asked   = [c \in Conns |-> <<>>]
  /\ everRun = [m \in Memories |-> Flag[m] = NoFlag]

(*------------------------------ the clients ------------------------------*)
(* A client connects; the listener accepts and starts a goroutine.         *)
Connect(c) ==
  /\ pc[c] = "free"
  /\ \E e \in Endpoints : end' = [end EXCEPT ![c] = e]
  /\ link' = [link EXCEPT ![c] = "up"]
  /\ Goto(c, "classify")
  /\ UNCHANGED <<mem, proto, in, req, ans, out, asked, everRun>>

Send(c) ==
  /\ link[c] = "up" /\ pc[c] # "closed" /\ Len(in[c]) < InCap
  /\ \E m \in Messages(end[c].speaks) :
       /\ in'    = [in EXCEPT ![c] = Append(@, m)]
       /\ asked' = [asked EXCEPT ![c] = Append(@, m)]
       /\ link'  = [link EXCEPT ![c] = IF m.kind = "cut" THEN "shut" ELSE "up"]
  /\ UNCHANGED <<mem, pc, end, proto, req, ans, out, everRun>>

(* The client closes its side, but still reads ...                         *)
Shut(c) ==
  /\ link[c] = "up"
  /\ link' = [link EXCEPT ![c] = "shut"]
  /\ UNCHANGED <<mem, pc, end, proto, in, req, ans, out, asked, everRun>>

(* ... or is gone, and the answers on their way to it are lost.            *)
Leave(c) ==
  /\ link[c] \in {"up", "shut"}
  /\ link'  = [link EXCEPT ![c] = "gone"]
  /\ out'   = [out EXCEPT ![c] = <<>>]
  /\ asked' = [asked EXCEPT ![c] = <<>>]
  /\ UNCHANGED <<mem, pc, end, proto, in, req, ans, everRun>>

Receive(c) ==
  /\ out[c] # <<>>
  /\ out'   = [out EXCEPT ![c] = Tail(@)]
  /\ asked' = [asked EXCEPT ![c] = Tail(@)]
  /\ UNCHANGED <<mem, pc, end, link, proto, in, req, ans, everRun>>

(* The slot of a connection both sides are done with.                      *)
Forget(c) ==
  /\ pc[c] = "closed" /\ link[c] = "gone"
  /\ Goto(c, "free")
  /\ end'   = [end EXCEPT ![c] = None]
  /\ proto' = [proto EXCEPT ![c] = "none"]
  /\ UNCHANGED <<mem, link, in, req, ans, out, asked, everRun>>

(*------------------------- ingress.handleConn ----------------------------*)
(* What the client sent and nobody read is dropped.                        *)
Close(c) ==
  /\ Goto(c, "closed")
  /\ in' = [in EXCEPT ![c] = <<>>]
  /\ UNCHANGED <<mem, end, link, proto, req, ans, out, asked, everRun>>

(* The stream has ended and everything in it has been taken; or a client   *)
(* that is gone has reset it, and what it sent may be lost.                *)
AtEnd(c) == \/ in[c] = <<>> /\ link[c] = "shut"
            \/ link[c] = "gone"

(* Peek at the first two bytes, which stay in the stream.                  *)
Classify(c) ==
  /\ pc[c] = "classify" /\ in[c] # <<>>
  /\ Lead(Head(in[c])) # "short"
  /\ proto' = [proto EXCEPT ![c] =
       IF Lead(Head(in[c])) = "RI" THEN "raw" ELSE "modbus"]
  /\ Goto(c, "read")
  /\ UNCHANGED <<mem, end, link, in, req, ans, out, asked, everRun>>

PeekFails(c) ==
  /\ pc[c] = "classify"
  /\ AtEnd(c) \/ (in[c] # <<>> /\ Lead(Head(in[c])) = "short")
  /\ Close(c)

(*------------------------ both handlers read and write -------------------*)
(* Take a message off the stream and go to p with the answer a, if any.    *)
Take(c, p, a) ==
  /\ req' = [req EXCEPT ![c] = Head(in[c])]
  /\ in'  = [in EXCEPT ![c] = Tail(@)]
  /\ ans' = [ans EXCEPT ![c] = a]
  /\ Goto(c, p)
  /\ UNCHANGED <<mem, end, link, proto, out, asked, everRun>>

Reading(c, protocol) ==
  pc[c] = "read" /\ proto[c] = protocol /\ in[c] # <<>>

StreamEnds(c) == pc[c] = "read" /\ AtEnd(c) /\ Close(c)

(* The handler decides on the answer and goes on to write it.              *)
Reply(c, code, p) ==
  /\ ans' = [ans EXCEPT ![c] = Answer(req[c], code)]
  /\ Goto(c, p)

Written(c, p) ==
  /\ Goto(c, p)
  /\ req' = [req EXCEPT ![c] = None]
  /\ ans' = [ans EXCEPT ![c] = None]
  /\ in'  = IF p = "closed" THEN [in EXCEPT ![c] = <<>>] ELSE in
  /\ UNCHANGED <<mem, end, link, proto, asked, everRun>>

AfterWrite(c) == IF pc[c] = "farewell" THEN "closed" ELSE "read"

(* conn.Write waits for room in the socket of a client that reads late.    *)
Write(c) ==
  /\ pc[c] \in {"answer", "answer_or_close", "farewell"}
  /\ link[c] # "gone" /\ Len(out[c]) < OutCap
  /\ out' = [out EXCEPT ![c] = Append(@, ans[c])]
  /\ Written(c, AfterWrite(c))

(* A bug the runs must notice: a failed write is tried again, for ever.    *)
WriteRetried(c) ==
  /\ pc[c] \in {"answer", "answer_or_close", "farewell"}
  /\ link[c] = "gone"
  /\ UNCHANGED vars

(* To a client that is gone it may succeed or fail.  Only the answer of a  *)
(* dispatch has its error looked at.                                       *)
WriteLost(c) ==
  /\ pc[c] \in {"answer", "answer_or_close", "farewell"}
  /\ link[c] = "gone"
  /\ \/ Written(c, AfterWrite(c))
     \/ pc[c] = "answer_or_close" /\ Written(c, "closed")
  /\ UNCHANGED out

(*--------------------------- modbus.HandleConn ---------------------------*)
ReadRequest(c) ==
  /\ Reading(c, "modbus")
  /\ Head(in[c]).kind = "adu"
  /\ Take(c, "seal", None)

(* An MBAP length of 0 or 1, or the stream ends within a request.          *)
ReadRequestFails(c) ==
  /\ Reading(c, "modbus")
  /\ Head(in[c]).kind # "adu"
  /\ Close(c)

(* Three bugs the runs must notice: only reads or only writes are held     *)
(* back, and a refusal that is not written.                                *)
SealCheckOf(c, held) ==
  /\ pc[c] = "seal"
  /\ LET m == Target(c, req[c])
     IN  IF m \in Memories /\ Sealed(m) /\ req[c].fc \in held
         THEN Reply(c, "device_busy", "answer")
         ELSE Goto(c, "authorize") /\ UNCHANGED ans
  /\ UNCHANGED <<mem, end, link, proto, in, req, out, asked, everRun>>

SealCheckReads(c)  == SealCheckOf(c, {1, 2, 3, 4})
SealCheckWrites(c) == SealCheckOf(c, {5, 6, 15, 16})

AuthorizeSilently(c) ==
  /\ pc[c] = "authorize"
  /\ IF Allowed(Target(c, req[c]), end[c].source, req[c].fc)
     THEN Goto(c, "dispatch") ELSE Goto(c, "read")
  /\ UNCHANGED <<mem, end, link, proto, in, req, ans, out, asked, everRun>>

SealCheck(c) ==
  /\ pc[c] = "seal"
  /\ LET m == Target(c, req[c])
     IN  IF m \in Memories /\ Sealed(m)
         THEN Reply(c, "device_busy", "answer")
         ELSE Goto(c, "authorize") /\ UNCHANGED ans
  /\ UNCHANGED <<mem, end, link, proto, in, req, out, asked, everRun>>

Authorize(c) ==
  /\ pc[c] = "authorize"
  /\ IF Allowed(Target(c, req[c]), end[c].source, req[c].fc)
     THEN Goto(c, "dispatch") /\ UNCHANGED ans
     ELSE Reply(c, "illegal_function", "answer")
  /\ UNCHANGED <<mem, end, link, proto, in, req, out, asked, everRun>>

(* A bug the runs must notice: a lock held from the dispatch to the end of *)
(* the write.                                                              *)
DispatchOneAtATime(c) ==
  /\ pc[c] = "dispatch"
  /\ \A d \in Conns : pc[d] # "answer_or_close"
  /\ Reply(c, DispatchCode(Target(c, req[c]), req[c]), "answer_or_close")
  /\ UNCHANGED <<mem, end, link, proto, in, req, out, asked, everRun>>

Dispatch(c) ==
  /\ pc[c] = "dispatch"
  /\ LET m    == Target(c, req[c])
         code == DispatchCode(m, req[c])
     IN  /\ Reply(c, code, "answer_or_close")
         /\ mem' = IF code = "ok" /\ IsWrite(CallOf(req[c]))
                   THEN Updated(m, CallOf(req[c])) ELSE mem
  /\ Remember
  /\ UNCHANGED <<end, link, proto, in, req, out, asked>>

(*-------------------------- rawingest.HandleConn -------------------------*)
DecodeOne(c) ==
  /\ Reading(c, "raw")
  /\ Head(in[c]).kind = "packet"
  /\ Take(c, "apply", None)

(* A bug the runs must notice: what is refused is left in the stream.      *)
DecodeOneFailsOnPeek(c) ==
  /\ Reading(c, "raw")
  /\ Head(in[c]).kind # "packet"
  /\ ans' = [ans EXCEPT ![c] = [code |-> "REJECTED"]]
  /\ Goto(c, "answer")
  /\ UNCHANGED <<mem, end, link, proto, in, req, out, asked, everRun>>

(* A bad header, or the stream ends within a header or a payload: one last *)
(* REJECTED.  io.ReadFull reports a payload of which no byte came as EOF,  *)
(* and the handler closes without a word.                                  *)
DecodeOneFails(c) ==
  /\ Reading(c, "raw")
  /\ LET m == Head(in[c])
     IN  /\ m.kind # "packet"
         /\ IF m.kind = "cut" /\ m.at = "boundary"
            THEN Close(c)
            ELSE Take(c, "farewell", [code |-> "REJECTED"])

Apply(c) ==
  /\ pc[c] = "apply"
  /\ LET m    == Target(c, req[c])
         code == IngestCode(m, req[c])
     IN  /\ Reply(c, code, "answer")
         /\ mem' = IF code = "OK" THEN Updated(m, Ingest(req[c])) ELSE mem
  /\ Remember
  /\ UNCHANGED <<end, link, proto, in, req, out, asked>>

(*------------------------------- the process -----------------------------*)
(* A bug the runs must notice: the memories outlive the process.           *)
RestartKeepsMemory ==
  /\ \A c \in Conns : pc[c] \in {"closed", "free"}
  /\ everRun' = [m \in Memories |-> Flag[m] = NoFlag]
  /\ UNCHANGED <<mem, conns>>

(* The process dies and is started again: nothing is persisted.            *)
Restart ==
  /\ mem'     = Blank
  /\ pc'      = [c \in Conns |-> "free"]
  /\ end'     = [c \in Conns |-> None]
  /\ link'    = [c \in Conns |-> "gone"]
  /\ proto'   = [c \in Conns |-> "none"]
  /\ in'      = [c \in Conns |-> <<>>]
  /\ req'     = [c \in Conns |-> None]
  /\ ans'     = [c \in Conns |-> None]
  /\ out'     = [c \in Conns |-> <<>>]
  /\ asked'   = [c \in Conns |-> <<>>]
  /\ everRun' = [m \in Memories |-> Flag[m] = NoFlag]

Client(c) ==
  Connect(c) \/ Send(c) \/ Shut(c) \/ Leave(c) \/ Receive(c)
Ingress(c) == Classify(c) \/ PeekFails(c) \/ StreamEnds(c) \/ Forget(c)
Modbus(c)  == ReadRequest(c) \/ ReadRequestFails(c) \/ SealCheck(c)
                \/ Authorize(c) \/ Dispatch(c)
Raw(c)     == DecodeOne(c) \/ DecodeOneFails(c) \/ Apply(c)

Server(c)  == Ingress(c) \/ Modbus(c) \/ Raw(c) \/ Write(c) \/ WriteLost(c)

Next == (\E c \in Conns : Client(c) \/ Server(c)) \/ Restart

Spec == Init /\ [][Next]_vars

(***************************************************************************)
(* Every goroutine is scheduled.  A client need not do anything, except    *)
(* that a patient one reads what it is sent.                               *)
(***************************************************************************)
Fairness ==
  /\ \A c \in Conns : WF_vars(Server(c))
  /\ \A c \in Patient : WF_vars(Receive(c))

FairSpec == Spec /\ Fairness
-----------------------------------------------------------------------------
Message  == Adus \cup Packets \cup Malformed
Code     == {"ok", "illegal_function", "illegal_address", "illegal_value",
             "device_busy", "OK", "REJECTED"}
Response == [tx : UInt16, unit : 0 .. 255, code : Code] \cup [code : Code]
Cells(m, a) == [AddressesOf(Layouts[m][a]) -> Value]
Content  == UNION {Cells(m, a) : m \in Memories, a \in Areas}

(* The elements of a memory are those of its layouts, and a connection in  *)
(* use belongs to somebody.                                                *)
TypeOK ==
  /\ mem \in [Memories -> [Areas -> Content]]
  /\ \A m \in Memories : \A a \in Areas : mem[m][a] \in Cells(m, a)
  /\ pc \in [Conns -> PCs]
  /\ end \in [Conns -> Endpoints \cup {None}]
  /\ \A c \in Conns : pc[c] # "free" => end[c] \in Endpoints
  /\ link \in [Conns -> {"up", "shut", "gone"}]
  /\ proto \in [Conns -> {"none", "modbus", "raw"}]
  /\ in \in [Conns -> Seq(Message)]
  /\ req \in [Conns -> Message \cup {None}]
  /\ ans \in [Conns -> Response \cup {None}]
  /\ out \in [Conns -> Seq(Response)]
  /\ asked \in [Conns -> Seq(Message)]
  /\ \A c \in Conns : Len(in[c]) <= InCap /\ Len(out[c]) <= OutCap
  /\ everRun \in [Memories -> BOOLEAN]

Answers(c) == {out[c][i] : i \in 1 .. Len(out[c])} \cup {ans[c]}

BusyFor(c, m) ==
  /\ pc[c] \in {"authorize", "dispatch"} => Target(c, req[c]) # m
  /\ proto[c] = "modbus" /\ end[c].port = m.port =>
       \A r \in Answers(c) \ {None} : r.unit = m.unit => r.code = "device_busy"

(* State sealing, as handle_conn.go checks it: as long as no ingest has    *)
(* set a memory's flag since the start, the flag is 0, no Modbus request   *)
(* to it gets past the check, and every answer is Device Busy.             *)
BusyUntilIngest == \A m \in Memories : ~ everRun[m] =>
  Sealed(m) /\ \A c \in Conns : BusyFor(c, m)

(* Answers arrive in the order of the requests, one for each, with its     *)
(* transaction and unit ids; an OK byte is for a packet that names a       *)
(* memory and fits it, a REJECTED byte for any other.                      *)
AnswersMatch == \A c \in Conns : \A i \in DOMAIN out[c] :
  LET r == out[c][i]  m == asked[c][i]
  IN  IF proto[c] = "modbus"
      THEN r.tx = m.tx /\ r.unit = m.unit
      ELSE r.code = "OK" <=>
             m.kind = "packet" /\ IngestCode(Target(c, m), m) = "OK"

(* A memory changes only by a request that came in on its own port and     *)
(* names its unit: a raw packet, or a Modbus request that the first of its *)
(* rules for that client allows, and never an area Modbus cannot write.    *)
Names(c, m) == end[c].port = m.port /\ req[c].unit = m.unit

Granted(rules, source, fc) == \E i \in DOMAIN rules :
  /\ source \in rules[i].sources /\ fc \in rules[i].fcs
  /\ \A j \in 1 .. (i - 1) : source \notin rules[j].sources

MayChange(c, m) ==
  /\ pc'[c] # pc[c] /\ Names(c, m)
  /\ \/ pc[c] = "apply"
     \/ /\ pc[c] = "dispatch"
        /\ Granted(Policy[m], end[c].source, req[c].fc)
        /\ \A a \in {"discrete_inputs", "input_registers"} :
             mem'[m][a] = mem[m][a]

EveryChange == \A m \in Memories : mem'[m] # mem[m] =>
  \/ mem'[m] = Blank[m] /\ \A c \in Conns : pc'[c] = "free"
  \/ \E c \in Conns : MayChange(c, m)

ChangesAreAuthorized == [][EveryChange]_vars

(* A call is whole, as AtomicMemory has it: the client is told it went well*)
(* if it was within the bounds of a configured memory, counted in integers,*)
(* and then all of it is done; otherwise none of it is, whatever the check *)
(* or the decoder that refused it (dispatch_memorycore.go, handle_conn.go).*)
Whole(m) == INSTANCE AtomicMemory WITH
  Callers <- Conns, Bits <- BitAreas, Zero <- 0, Requests <- {},
  Addresses <- [a \in Areas |-> AddressesOf(Layouts[m][a])],
  content <- mem[m], status <- pc, request <- req, reply <- ans

CallMade(c) == IF pc[c] = "apply" THEN Ingest(req[c]) ELSE CallOf(req[c])

FitsTarget(c) == \E m \in Memories :
  m = Target(c, req[c]) /\ Whole(m)!InBounds(CallMade(c))

AllDone(c) == \A m \in Memories :
  mem'[m] = IF m = Target(c, req[c]) /\ IsWrite(CallMade(c))
            THEN Whole(m)!Updated(CallMade(c)) ELSE mem[m]

CallIsWhole(c) ==
  (pc[c] \in {"dispatch", "apply"} /\ pc'[c] \in {"answer", "answer_or_close"}) =>
    \/ ans'[c].code \in {"ok", "OK"} /\ FitsTarget(c) /\ AllDone(c)
    \/ ans'[c].code \in {"illegal_address", "REJECTED"} /\ ~ FitsTarget(c) /\ mem' = mem
    \/ ans'[c].code \in {"illegal_function", "illegal_value"} /\ mem' = mem

CallsAreWhole == [][\A c \in Conns : CallIsWhole(c)]_vars

(* The step that unseals a memory for the first time since the start is a  *)
(* raw ingest write to it (docs/01_STATE_SEALING.md, section 6).           *)
FirstUnseal == \A m \in Memories : (~ everRun[m] /\ everRun'[m]) =>
  \E c \in Conns : pc[c] = "apply" /\ pc'[c] # "apply" /\ Names(c, m)

IngestUnseals == [][FirstUnseal]_vars

(* Refinement.  What the document calls RUN is here that the flag has been *)
(* set since the start; a request has been let in when it is past the      *)
(* sealing check, a packet when it is decoded.                             *)
Phase(run) == [m \in Memories |-> IF run[m] THEN "RUN" ELSE "PRE-RUN"]

LetIn(c) ==
  IF pc[c] \in {"authorize", "dispatch", "apply"} /\ Target(c, req[c]) \in Memories
  THEN [by |-> IF pc[c] = "apply" THEN "ingest" ELSE "modbus",
        to |-> Target(c, req[c])]
  ELSE [by |-> "nobody"]

Contract == INSTANCE SealContract WITH
  Clients <- Conns, phase <- Phase(everRun), content <- mem,
  hand <- [c \in Conns |-> LetIn(c)]

(* docs/01_STATE_SEALING.md, sections 4, 6, 9 and 11: PRE-RUN keeps Modbus *)
(* out, ingest alone and only by the flag ends it, a restart brings it     *)
(* back.  handle_conn.go of both transports does it with one coil.         *)
KeepsContract == Contract!Spec

(* A handler of handle_conn.go only gets on: whatever it reads, and        *)
(* whether its answer is taken, refused or lost, each step of its loop     *)
(* leaves it less to do than a client's message or a new connection adds.  *)
Stage(p) == CASE p = "free"      -> 0
              [] p = "closed"    -> 1
              [] p = "read"      -> 2
              [] p = "authorize" -> 5
              [] p = "seal"      -> 6
              [] p \in {"dispatch", "apply"} -> 4
              [] OTHER           -> 3

ToDo(c) == 5 * Len(in[c]) + Stage(pc[c])

GetsOn(c) == <<pc[c], in[c]>>' # <<pc[c], in[c]>> =>
  \/ ToDo(c)' < ToDo(c)
  \/ pc[c] = "free" /\ pc'[c] = "classify" /\ in'[c] = in[c]
  \/ link[c] = "up" /\ pc'[c] = pc[c] /\ Len(in'[c]) = Len(in[c]) + 1

HandlersGetOn == [][\A c \in Conns : GetsOn(c)]_vars

(* A client that reads its answers gets them, whatever the other clients   *)
(* do: no handler holds a lock while it writes to its socket.              *)
Busy(c) == pc[c] \in {"seal", "authorize", "dispatch", "apply", "answer",
                      "answer_or_close", "farewell"}

PatientServed == \A c \in Patient :
  /\ (pc[c] = "read" /\ in[c] # <<>>) ~> (pc[c] # "read")
  /\ Busy(c) ~> ~ Busy(c)

(* The goroutine of a client that is gone ends: neither handler waits for  *)
(* it or retries for ever.                                                 *)
GoroutineEnds == \A c \in Conns : link[c] = "gone" ~> pc[c] \in {"closed", "free"}
-----------------------------------------------------------------------------
(* What the documents and comments say and the code does not do.           *)

(* "Modbus can never trigger unlock" (docs/01_STATE_SEALING.md:117).       *)
ModbusNeverUnseals == [][
  \A m \in Memories, c \in Conns :
    (Sealed(m) /\ pc[c] = "dispatch" /\ pc'[c] # "dispatch") => Sealed(m)']_vars

(* "Restart is the only way to return to PRE-RUN"                          *)
(* (docs/01_STATE_SEALING.md:132): once a memory has been in RUN, the      *)
(* check of handle_conn.go lets every request to it pass.                  *)
RunUntilRestart == [][
  \A c \in Conns : (pc[c] = "seal" /\ pc'[c] = "answer") =>
    ~ everRun[Target(c, req[c])]]_vars

(* "MBAP TransactionID is arbitrary" (internal/ingress/classifier.go:34):  *)
(* a Modbus client is served as one whatever its transaction ids.          *)
ModbusStaysModbus == \A c \in Conns :
  proto[c] = "raw" => end[c].speaks = "raw"
=============================================================================
