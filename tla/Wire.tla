-------------------------------- MODULE Wire --------------------------------
(***************************************************************************)
(* The bytes of one connection.  Gateway's handlers take whole messages    *)
(* from a queue; here is how they are found in a stream that arrives in    *)
(* pieces and may end anywhere: a fixed header, a length computed from it, *)
(* and io.ReadFull for both.  A byte is a position in the stream, a        *)
(* message a frame: what the client put at which positions.                *)
(*                                                                         *)
(* Three framings: Modbus TCP, raw ingest, and the older raw.Run, which no *)
(* listener starts.  What the memory says to a message is external here.   *)
(***************************************************************************)
EXTENDS MemoryOps, Sequences

CONSTANTS
  Frames,         \* what a client may send
  Pauses,         \* after how many bytes of a frame the stream may pause
  MaxFrames,      \* bound: the frames a client sends
  MaxTaken,       \* bound: the messages a handler takes, garbage included
  MaxPacketBytes  \* argument of raw.Run, which reads nothing when it is 14 or less

Framings == {"modbus", "rawingest", "raw"}

(* A Modbus frame is an MBAP length and what a read asks for; a raw frame  *)
(* an area and a count, "valid" when magic, version and area byte are.     *)
FrameAssumption == \A f \in Frames :
  /\ f.proto \in Framings
  /\ f.proto = "modbus" => /\ f.length \in UInt16 /\ f.reads \in Areas \cup {"none"}
                           /\ f.count \in UInt16
  /\ f.proto # "modbus" => f.valid \in BOOLEAN /\ f.area \in Areas /\ f.count \in UInt16
ASSUME WireAssumption ==
  /\ FrameAssumption /\ Pauses \subseteq Nat
  /\ MaxFrames \in Nat /\ MaxTaken \in Nat
  /\ MaxPacketBytes \in Nat /\ MaxPacketBytes > 14

VARIABLES
  proto,   \* the framing both sides speak
  sent,    \* the frames sent, with their first byte and the one after the last
  arrived, \* how many bytes have reached the handler's side
  shut,    \* the client has closed its side: no more bytes arrive
  pos,     \* how many bytes the handler has read
  pc,      \* "header", "body", "handle" or "closed"
  head,    \* the header that has been read, and where it began
  taken,   \* history: the messages handled so far
  out,     \* the answers, with the byte after their last
  seen     \* how many bytes of them the client has read

client == <<proto, sent, arrived, shut>>
vars   == <<client, pos, pc, head, taken, out, seen>>

None == [at |-> 0]
-----------------------------------------------------------------------------
(* The protocols' headers, as the client knows them.                       *)
HeaderSize(p) == CASE p = "modbus" -> 7 [] p = "rawingest" -> 10 [] p = "raw" -> 14

(* A bug the runs must notice: the stale constant v1HeaderSize             *)
(* (raw/constants.go:33).                                                  *)
HeaderLenStale(p) == CASE p = "modbus" -> 7 [] p = "rawingest" -> 10 [] p = "raw" -> 12

HeaderLen(p) == CASE p = "modbus" -> 7 [] p = "rawingest" -> 10 [] p = "raw" -> 14

(* What the client sends after the header.                                 *)
Payload(f) ==
  IF f.proto = "modbus" THEN IF f.length = 0 THEN 0 ELSE f.length - 1
  ELSE IF ~ f.valid THEN 0
  ELSE IF f.area \in BitAreas THEN (f.count + 7) \div ByteBits ELSE 2 * f.count

Size(f) == HeaderSize(f.proto) + Payload(f)

(* Two bugs the runs must notice: the MBAP length taken for the PDU's, and *)
(* a byte too many when the bits fill the last one.                        *)
BodyLenOneMore(f) ==
  IF f.proto = "modbus" THEN f.length - 1
  ELSE IF f.area \in BitAreas THEN U16(f.count + 8) \div ByteBits ELSE 2 * f.count

BodyLenWithUnit(f) ==
  IF f.proto = "modbus" THEN f.length
  ELSE IF f.area \in BitAreas THEN U16(f.count + 7) \div ByteBits ELSE 2 * f.count

(* What the handler waits for after the header.                            *)
BodyLen(f) ==
  IF f.proto = "modbus" THEN f.length - 1
  ELSE IF f.area \in BitAreas THEN U16(f.count + 7) \div ByteBits ELSE 2 * f.count

(* The header passes.  raw.Run has a limit for the whole frame.            *)
HeaderOK(f) ==
  CASE f.proto = "modbus"    -> f.length > 1
    [] f.proto = "rawingest" -> f.valid /\ f.count # 0
    [] f.proto = "raw"       -> /\ f.valid /\ f.count # 0
                                /\ HeaderLen("raw") + BodyLen(f) <= MaxPacketBytes

(* The handler's idea of the length wraps, and the client's does not.      *)
Wraps(f) == f.proto # "modbus" /\ f.area \in BitAreas /\ f.count + 7 >= Word

(* raw.Run refuses such a frame, for want of bits, and stops.              *)
Ambiguous == {f \in Frames : f.proto = "rawingest" /\ Wraps(f)}

Lost == \E i \in DOMAIN taken : taken[i].frame \in Ambiguous

Total    == IF sent = <<>> THEN 0 ELSE sent[Len(sent)].end
OutTotal == IF out = <<>> THEN 0 ELSE out[Len(out)].end
-----------------------------------------------------------------------------
Init ==
  /\ proto \in Framings
  /\ sent = <<>> /\ arrived = 0 /\ shut = FALSE
  /\ pos = 0 /\ pc = "header" /\ head = None
  /\ taken = <<>> /\ out = <<>> /\ seen = 0

(*---------------------- the client and the network -----------------------*)
Send(f) ==
  /\ ~ shut /\ f.proto = proto /\ Len(sent) < MaxFrames
  /\ sent' = Append(sent, [frame |-> f, start |-> Total, end |-> Total + Size(f)])
  /\ UNCHANGED <<proto, arrived, shut, pos, pc, head, taken, out, seen>>

(* Some more bytes: up to the end of a frame, or into one.                 *)
Deliver ==
  /\ ~ shut
  /\ \E i \in DOMAIN sent :
       arrived' \in {sent[i].start + k : k \in Pauses} \cup {sent[i].end}
  /\ arrived' > arrived /\ arrived' <= Total
  /\ UNCHANGED <<proto, sent, shut, pos, pc, head, taken, out, seen>>

(* The client's side ends here, whatever was on its way.                   *)
Shut ==
  /\ ~ shut
  /\ shut' = TRUE
  /\ UNCHANGED <<proto, sent, arrived, pos, pc, head, taken, out, seen>>

(*-------------------------------- io.ReadFull ----------------------------*)
(* A bug the runs must notice: one Read, which may return less.            *)
CompletePart(want) == want = 0 \/ pos < arrived

Complete(want) == pos + want <= arrived

(* Nothing was read (io.EOF), or not enough (io.ErrUnexpectedEOF).         *)
EndOfFile(want)  == shut /\ ~ Complete(want) /\ arrived = pos
Unexpected(want) == shut /\ ~ Complete(want) /\ arrived > pos

(*------------------------------ both directions --------------------------*)
(* An answer: its bytes, and how many of them its own header announces.    *)
Answer(to, bytes, announced) ==
  out' = Append(out, [to |-> to, end |-> OutTotal + bytes, announced |-> announced])

(* The raw protocols' single byte.                                         *)
Status(to) == Answer(to, 1, 1)

(* A bug the runs must notice: the unit id is not counted.                 *)
AnnouncedPduOnly(pdu) == 6 + U16(pdu)

(* BuildResponse: the length is taken in uint16.                           *)
Announced(pdu) == 6 + U16(pdu + 1)

Closes == pc' = "closed" /\ head' = None

(*-------------------------------- the handler ----------------------------*)
(* Two bugs the runs must notice: raw ingest answers the end of the stream,*)
(* and takes every end for a clean one.                                    *)
RefusesAll(error) == proto # "modbus"

RefusesNoCut(error) == proto = "raw" \/ (proto = "rawingest" /\ error = "header")

(* Modbus never answers a broken frame; raw ingest does unless the error   *)
(* is io.EOF; raw.Run always does.                                         *)
Refuses(error) == proto = "raw" \/ (proto = "rawingest" /\ error # "EOF")

Fail(error) ==
  /\ Closes
  /\ IF Refuses(error) THEN Status("broken") ELSE out' = out
  /\ UNCHANGED <<client, pos, taken, seen>>

(* The frame that begins where the handler reads; if none does, whatever   *)
(* the bytes there can be taken for.                                       *)
HeadersHere ==
  LET here == {i \in DOMAIN sent : sent[i].start = pos}
  IN  IF here # {} THEN {sent[i].frame : i \in here}
                   ELSE {f \in Frames : f.proto = proto}

ReadHeader ==
  /\ pc = "header" /\ Complete(HeaderLen(proto)) /\ Len(taken) < MaxTaken
  /\ \E f \in HeadersHere :
       \/ /\ HeaderOK(f)
          /\ head' = [at |-> pos, frame |-> f]
          /\ pos' = pos + HeaderLen(proto) /\ pc' = "body"
          /\ UNCHANGED <<client, taken, out, seen>>
       \/ ~ HeaderOK(f) /\ Fail("header")

(* Nobody handles a stream that ends within the two bytes Classify peeks.  *)
Unclassified == proto # "raw" /\ pos = 0 /\ arrived < 2

HeaderEnds ==
  /\ pc = "header"
  /\ \/ EndOfFile(HeaderLen(proto)) /\ Fail("EOF")
     \/ Unexpected(HeaderLen(proto)) /\ Unclassified /\ Fail("EOF")
     \/ Unexpected(HeaderLen(proto)) /\ ~ Unclassified /\ Fail("unexpected")

ReadBody ==
  /\ pc = "body" /\ Complete(BodyLen(head.frame))
  /\ pos' = pos + BodyLen(head.frame)
  /\ taken' = Append(taken, head)
  /\ pc' = "handle"
  /\ UNCHANGED <<client, head, out, seen>>

(* The stream may end just before the body: io.EOF again.                  *)
BodyEnds ==
  /\ pc = "body"
  /\ \/ EndOfFile(BodyLen(head.frame)) /\ Fail("EOF")
     \/ Unexpected(BodyLen(head.frame)) /\ Fail("unexpected")

Handled == pc' = "header" /\ head' = None /\ UNCHANGED <<client, pos, taken, seen>>

(* The PDU: an exception, the data of a read, or the echo of a write.      *)
PduLens(f) ==
  {2, CASE f.reads \in BitAreas -> 2 + BytesForBits(f.count)
        [] f.reads \in RegAreas -> 2 + 2 * f.count
        [] OTHER -> 5}

AnswerRequest ==
  /\ pc = "handle" /\ proto = "modbus"
  /\ \E pdu \in PduLens(head.frame) : Answer("frame", 7 + pdu, Announced(pdu))
  /\ Handled

(* Whatever the memory says, raw ingest goes on.                           *)
AnswerPacket ==
  /\ pc = "handle" /\ proto = "rawingest"
  /\ Status("frame")
  /\ Handled

(* raw.Run goes on after a success only: no memory, too few bits, or an    *)
(* error of the memory end it.                                             *)
AnswerFrame ==
  /\ pc = "handle" /\ proto = "raw"
  /\ Status("frame")
  /\ \/ ~ Wraps(head.frame) /\ Handled
     \/ Closes /\ UNCHANGED <<client, pos, taken, seen>>

Handler == ReadHeader \/ HeaderEnds \/ ReadBody \/ BodyEnds
             \/ AnswerRequest \/ AnswerPacket \/ AnswerFrame

(*------------------------- the client reads answers ----------------------*)
(* As far as the header of the next answer says.                           *)
Receive ==
  /\ \E i \in DOMAIN out :
       /\ seen = (IF i = 1 THEN 0 ELSE out[i - 1].end)
       /\ seen' = seen + out[i].announced
  /\ seen' <= OutTotal
  /\ UNCHANGED <<client, pos, pc, head, taken, out>>

Next == \/ \E f \in Frames : Send(f)
        \/ Deliver \/ Shut \/ Handler \/ Receive

Spec == Init /\ [][Next]_vars

(* The handler's goroutine is scheduled.  Bytes need never arrive.         *)
FairSpec == Spec /\ WF_vars(Handler)
-----------------------------------------------------------------------------
TypeOK ==
  /\ proto \in Framings /\ shut \in BOOLEAN
  /\ sent \in Seq([frame : Frames, start : Nat, end : Nat])
  /\ arrived \in 0 .. Total /\ pos \in 0 .. arrived
  /\ pc \in {"header", "body", "handle", "closed"}
  /\ head = None \/ head \in [at : Nat, frame : Frames]
  /\ taken \in Seq([at : Nat, frame : Frames])
  /\ out \in Seq([to : {"frame", "broken"}, end : Nat, announced : Nat])
  /\ seen \in 0 .. OutTotal

(* The handler takes the frames of the client, whole, in order, each once, *)
(* and answers each before the next, however the stream was cut: the       *)
(* messages of Gateway's queue (handle_conn.go of both transports).        *)
Taken == [i \in 1 .. Len(taken) |-> taken[i].frame]
Posted == [i \in 1 .. Len(sent) |-> sent[i].frame]
Abstract == INSTANCE Exchange WITH
  Messages <- Frames, posted <- Posted, taken <- Taken,
  answered <- Len(out), open <- pc # "closed"
TakesWhatWasSent == Abstract!Spec

(* Every message taken begins where the client began one, and all of its   *)
(* bytes had come: no body is completed with bytes of the next frame, none *)
(* is left behind (decoder.go:51, parser.go:32).  A frame raw.Run takes for*)
(* complete too early is its last.                                         *)
InStep == ~ Lost => \A i \in DOMAIN taken :
  /\ i \in DOMAIN sent
  /\ taken[i].at = sent[i].start
  /\ \/ sent[i].end <= arrived
     \/ Wraps(taken[i].frame) /\ i = Len(taken) /\ pc \in {"handle", "closed"}

(* Nothing is answered that nobody asked: each answer has a frame of its   *)
(* own, whose first bytes had come.  raw.Run alone answers the end of the  *)
(* stream too (ingest_loop.go:29-31).                                      *)
NothingUnasked == ~ Lost => \A i \in DOMAIN out :
  \/ i \in DOMAIN sent /\ sent[i].start < arrived
  \/ proto = "raw" /\ shut /\ i = Len(out) /\ out[i].to = "broken"

(* "It writes exactly 1 byte per packet" (rawingest/handle_conn.go:13): a  *)
(* connection that ends without a refusal has answered all that was begun, *)
(* but for a packet cut exactly after its header (handle_conn.go:29), and  *)
(* for a first byte that Classify cannot tell a protocol from.             *)
Refused == out # <<>> /\ out[Len(out)].to = "broken"
Begun   == {i \in DOMAIN sent : sent[i].start < arrived}
OnePerPacket ==
  (proto = "rawingest" /\ pc = "closed" /\ ~ Lost /\ ~ Refused) =>
    \A i \in Begun : \/ i <= Len(out)
                     \/ arrived = sent[i].start + HeaderSize(proto)
                     \/ arrived = 1

(* A client that trusts the length an answer announces stays in step with  *)
(* the answers, unless it read more than 32766 registers (response.go:9).  *)
LongRead(f) == f.proto = "modbus" /\ f.reads \in RegAreas /\ f.count > 32766
ClientInStep ==
  \/ seen = 0
  \/ \E i \in DOMAIN out : seen = out[i].end
  \/ \E i \in DOMAIN taken : LongRead(taken[i].frame)

(* A frame that has arrived is answered, or the handler stops: it does not *)
(* wait for a byte that is not to come.                                    *)
Whole(k) == /\ k <= Len(sent) /\ sent[k].end <= arrived
            /\ \A i \in 1 .. k : sent[i].frame \notin Ambiguous
Answered == \A k \in 1 .. MaxFrames :
  Whole(k) ~> (Len(out) >= k \/ pc = "closed")
=============================================================================
